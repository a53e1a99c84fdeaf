---------------------------- MODULE Ashmem_proofs ----------------------------
(***************************************************************************)
(* The ranges of ashmem, for any areas, sizes and sequences of calls.      *)
(* Every helper of the code keeps the lists in order and the count exact;  *)
(* the handlers are loops over helpers.  That a page which was truncated   *)
(* lies in a range that says so makes every step one of AshmemPages.       *)
(***************************************************************************)
EXTENDS Ashmem, FiniteSetTheorems, SequenceTheorems, NaturalsInduction,
        WellFoundedInduction, TLAPS

-----------------------------------------------------------------------------
(* Induction and sequences *)

(* A set of numbers that is not empty has a least one. *)
LEMMA Least ==
  ASSUME NEW S \in SUBSET Nat, S # {}
  PROVE  \E n \in S : \A m \in S : n <= m
<1>1. PICK n \in S : \A m \in S : ~(<<m, n>> \in OpToRel(<, Nat))
  BY NatLessThanWellFounded, WFMin
<1>2. \A i, j \in Nat : i < j => <<i, j>> \in OpToRel(<, Nat)
  BY DEF OpToRel
<1>3. \A m \in S : ~(m < n)
  BY <1>1, <1>2
<1> QED
  BY <1>3

(* The operator Min on numbers. *)
LEMMA MinIs ==
  ASSUME NEW S \in SUBSET Nat, S # {}
  PROVE  Min(S) \in S /\ \A m \in S : Min(S) <= m
BY Least DEF Min

(* Steps from 0 up to N. *)
LEMMA Upward ==
  ASSUME NEW N \in Nat, NEW T, 0 \in T, \A n \in 1 .. N : n - 1 \in T => n \in T
  PROVE  \A n \in 0 .. N : n \in T
<1> DEFINE Bad == {n \in 0 .. N : n \notin T}
<1> SUFFICES ASSUME Bad # {} PROVE FALSE
  OBVIOUS
<1>1. Bad \in SUBSET Nat
  OBVIOUS
<1>2. PICK n \in Bad : \A m \in Bad : n <= m
  BY <1>1, Least
<1>3. n # 0 /\ n \in 1 .. N /\ n - 1 \in 0 .. N
  BY <1>2
<1>4. n - 1 \notin Bad
  BY <1>2, <1>3
<1> QED
  BY <1>2, <1>3, <1>4

LEMMA RemoveAtIs ==
  ASSUME NEW S, NEW q \in Seq(S), NEW p \in 1 .. Len(q)
  PROVE  /\ RemoveAt(q, p) \in Seq(S) /\ Len(RemoveAt(q, p)) = Len(q) - 1
         /\ \A k \in 1 .. Len(q) - 1 :
              RemoveAt(q, p)[k] = IF k < p THEN q[k] ELSE q[k + 1]
<1> DEFINE u == SubSeq(q, 1, p - 1)
           v == SubSeq(q, p + 1, Len(q))
<1>1. Len(q) \in Nat /\ p \in Nat /\ p >= 1 /\ p <= Len(q)
  OBVIOUS
<1>2. u \in Seq(S) /\ Len(u) = p - 1 /\ \A k \in 1 .. p - 1 : u[k] = q[k]
  BY <1>1, SubSeqProperties
<1>3. /\ v \in Seq(S) /\ Len(v) = Len(q) - p
      /\ \A k \in 1 .. Len(q) - p : v[k] = q[p + k]
  BY <1>1, SubSeqProperties
<1>4. RemoveAt(q, p) = u \o v
  BY DEF RemoveAt
<1> HIDE DEF u, v
<1>5. /\ u \o v \in Seq(S) /\ Len(u \o v) = Len(q) - 1
      /\ \A k \in 1 .. Len(q) - 1 :
           (u \o v)[k] = IF k <= p - 1 THEN u[k] ELSE v[k - (p - 1)]
  BY <1>1, <1>2, <1>3
<1>6. ASSUME NEW k \in 1 .. Len(q) - 1
      PROVE  (u \o v)[k] = IF k < p THEN q[k] ELSE q[k + 1]
  <2>1. CASE k < p
    BY <1>1, <1>2, <1>5, <2>1
  <2>2. CASE ~(k < p)
    <3>1. k - (p - 1) \in 1 .. Len(q) - p /\ p + (k - (p - 1)) = k + 1 /\ ~(k <= p - 1)
      BY <1>1, <2>2
    <3> QED
      BY <1>3, <1>5, <2>2, <3>1
  <2> QED
    BY <2>1, <2>2
<1> QED
  BY <1>4, <1>5, <1>6

LEMMA InsertAtIs ==
  ASSUME NEW S, NEW q \in Seq(S), NEW p \in 1 .. Len(q) + 1, NEW e \in S
  PROVE  /\ InsertAt(q, p, e) \in Seq(S) /\ Len(InsertAt(q, p, e)) = Len(q) + 1
         /\ \A k \in 1 .. Len(q) + 1 :
              InsertAt(q, p, e)[k] = IF k < p THEN q[k]
                                     ELSE IF k = p THEN e ELSE q[k - 1]
<1> DEFINE u == SubSeq(q, 1, p - 1)
           v == SubSeq(q, p, Len(q))
<1>1. Len(q) \in Nat /\ p \in Nat /\ p >= 1 /\ p <= Len(q) + 1
  OBVIOUS
<1>2. u \in Seq(S) /\ Len(u) = p - 1 /\ \A k \in 1 .. p - 1 : u[k] = q[k]
  BY <1>1, SubSeqProperties
<1>3. /\ v \in Seq(S) /\ Len(v) = Len(q) - p + 1
      /\ \A k \in 1 .. Len(q) - p + 1 : v[k] = q[p + k - 1]
  BY <1>1, SubSeqProperties
<1>4. InsertAt(q, p, e) = u \o <<e>> \o v
  BY DEF InsertAt
<1> HIDE DEF u, v
<1> DEFINE w == u \o <<e>>
<1>5. /\ w \in Seq(S) /\ Len(w) = p
      /\ \A k \in 1 .. p : w[k] = IF k <= p - 1 THEN u[k] ELSE e
  BY <1>1, <1>2
<1> HIDE DEF w
<1>6. /\ w \o v \in Seq(S) /\ Len(w \o v) = Len(q) + 1
      /\ \A k \in 1 .. Len(q) + 1 : (w \o v)[k] = IF k <= p THEN w[k] ELSE v[k - p]
  <2>1. Len(w) + Len(v) = Len(q) + 1
    BY <1>1, <1>3, <1>5
  <2>2. /\ w \o v \in Seq(S) /\ Len(w \o v) = Len(w) + Len(v)
        /\ \A k \in 1 .. Len(w) + Len(v) :
             (w \o v)[k] = IF k <= Len(w) THEN w[k] ELSE v[k - Len(w)]
    BY <1>3, <1>5, ConcatProperties
  <2> QED
    BY <1>5, <2>1, <2>2
<1>7. ASSUME NEW k \in 1 .. Len(q) + 1
      PROVE  (w \o v)[k] = IF k < p THEN q[k] ELSE IF k = p THEN e ELSE q[k - 1]
  <2>1. CASE k <= p
    <3>1. /\ k \in 1 .. p /\ (k <= p - 1 <=> k < p) /\ (k < p => k \in 1 .. p - 1)
          /\ (~(k < p) => k = p)
      BY <1>1, <2>1
    <3>2. (w \o v)[k] = w[k] /\ w[k] = IF k <= p - 1 THEN u[k] ELSE e
      BY <1>5, <1>6, <2>1, <3>1
    <3> QED
      BY <1>2, <3>1, <3>2
  <2>2. CASE ~(k <= p)
    <3>1. k - p \in 1 .. Len(q) - p + 1 /\ p + (k - p) - 1 = k - 1
      BY <1>1, <2>2
    <3> QED
      BY <1>1, <1>3, <1>6, <2>2, <3>1
  <2> QED
    BY <2>1, <2>2
<1> QED
  BY <1>4, <1>6, <1>7 DEF w

(* RemoveFirst of an element of the sequence. *)
LEMMA RemoveFirstIs ==
  ASSUME NEW S, NEW q \in Seq(S), NEW e, \E k \in 1 .. Len(q) : q[k] = e
  PROVE  \E p \in 1 .. Len(q) : q[p] = e /\ RemoveFirst(q, e) = RemoveAt(q, p)
<1> DEFINE I == {i \in 1 .. Len(q) : q[i] = e}
<1>1. I \in SUBSET Nat /\ I # {}
  OBVIOUS
<1>2. Min(I) \in I
  BY <1>1, MinIs
<1>3. RemoveFirst(q, e) = RemoveAt(q, Min(I))
  BY <1>1 DEF RemoveFirst, SelectInSeq
<1> HIDE DEF I
<1>4. Min(I) \in 1 .. Len(q) /\ q[Min(I)] = e
  BY <1>2 DEF I
<1> QED
  BY <1>3, <1>4

-----------------------------------------------------------------------------
(* The lists *)

IsRange(r) ==
  /\ r \in [asma : Areas, pgstart : Nat, pgend : Nat, purged : BOOLEAN]
  /\ r.pgstart <= r.pgend + 1

IsLists(s) ==
  /\ s = [range |-> s.range, list |-> s.list, lru |-> s.lru, count |-> s.count]
  /\ s.range = [i \in DOMAIN s.range |-> s.range[i]] /\ DOMAIN s.range \subseteq Ids
  /\ \A i \in DOMAIN s.range : IsRange(s.range[i])
  /\ s.list \in [Areas -> Seq(Ids)] /\ s.lru \in Seq(Ids)

(* Every range is on the list of its area, once; the list goes from the    *)
(* last range to the first, and they do not overlap.                       *)
Listed(rng, l, a) ==
  /\ \A k \in 1 .. Len(l) : l[k] \in DOMAIN rng /\ rng[l[k]].asma = a
  /\ \A i \in DOMAIN rng : rng[i].asma = a => \E k \in 1 .. Len(l) : l[k] = i
  /\ \A j, k \in 1 .. Len(l) :
       j < k => l[j] # l[k] /\ rng[l[j]].pgstart > rng[l[k]].pgend

Sorted(rng, list) == \A a \in Areas : Listed(rng, list[a], a)

(* The pages of the ranges that are not purged. *)
RangePages(r) == {r.asma} \X (r.pgstart .. r.pgend)
LruPages(rng) ==
  UNION {RangePages(rng[i]) : i \in {i \in DOMAIN rng : range_on_lru(rng[i])}}

(* The LRU list has each range that is not purged once, and the count is   *)
(* the number of their pages.                                              *)
OnLruList(rng, lru) ==
  /\ \A k \in 1 .. Len(lru) : lru[k] \in DOMAIN rng /\ range_on_lru(rng[lru[k]])
  /\ \A i \in DOMAIN rng : range_on_lru(rng[i]) => \E k \in 1 .. Len(lru) : lru[k] = i
  /\ \A j, k \in 1 .. Len(lru) : j # k => lru[j] # lru[k]

Counted(rng, count) ==
  /\ IsFiniteSet(LruPages(rng))
  /\ count = Cardinality(LruPages(rng))

Good(s) == /\ IsLists(s) /\ Sorted(s.range, s.list)
           /\ OnLruList(s.range, s.lru) /\ Counted(s.range, s.count)

LEMMA PurgeFields ==
  ASSUME NEW s, IsLists(s), NEW i \in DOMAIN s.range, NEW t, t = PurgeRange(s, i)
  PROVE  /\ t = [range |-> t.range, list |-> t.list, lru |-> t.lru, count |-> t.count]
         /\ t.range = [s.range EXCEPT ![i] = [s.range[i] EXCEPT !.purged = TRUE]]
         /\ t.list = s.list /\ t.lru = RemoveFirst(s.lru, i)
         /\ t.count = s.count - range_size(s.range[i])
BY DEF IsLists, PurgeRange, lru_del

-----------------------------------------------------------------------------
(* Pages *)

LEMMA RangeTypes ==
  ASSUME NEW r, IsRange(r)
  PROVE  /\ r.asma \in Areas /\ r.pgstart \in Nat /\ r.pgend \in Nat
         /\ r.pgstart <= r.pgend + 1 /\ range_size(r) \in Nat
BY DEF IsRange, range_size

LEMMA PagesOfRange ==
  ASSUME NEW r, IsRange(r)
  PROVE  /\ IsFiniteSet(RangePages(r))
         /\ Cardinality(RangePages(r)) = range_size(r)
<1> DEFINE A == {r.asma}
           P == r.pgstart .. r.pgend
<1>1. /\ r.pgstart \in Nat /\ r.pgend \in Nat /\ r.pgstart <= r.pgend + 1
  BY RangeTypes
<1>2. IsFiniteSet(A) /\ Cardinality(A) = 1
  BY FS_Singleton
<1>3. IsFiniteSet(P) /\ Cardinality(P) = r.pgend - r.pgstart + 1
  <2>1. /\ IsFiniteSet(P)
        /\ Cardinality(P) = IF r.pgstart > r.pgend THEN 0 ELSE r.pgend - r.pgstart + 1
    <3> DEFINE u == r.pgstart
               v == r.pgend
    <3>1. u \in Int /\ v \in Int
      BY <1>1
    <3> HIDE DEF u, v
    <3>2. IsFiniteSet(u .. v) /\ Cardinality(u .. v) = IF u > v THEN 0 ELSE v - u + 1
      BY <3>1, FS_Interval
    <3> QED
      BY <3>2 DEF u, v
  <2> QED
    BY <1>1, <2>1
<1> HIDE DEF A, P
<1>4. IsFiniteSet(A \X P) /\ Cardinality(A \X P) = Cardinality(A) * Cardinality(P)
  BY <1>2, <1>3, FS_Product
<1>5. Cardinality(A \X P) = r.pgend - r.pgstart + 1
  BY <1>1, <1>2, <1>3, <1>4
<1> QED
  BY <1>4, <1>5 DEF RangePages, range_size, A, P

(* Two ranges of an area are at two places of its list. *)
LEMMA Apart ==
  ASSUME NEW s, IsLists(s), Sorted(s.range, s.list),
         NEW i \in DOMAIN s.range, NEW j \in DOMAIN s.range, i # j,
         s.range[i].asma = s.range[j].asma
  PROVE  \/ s.range[i].pgstart > s.range[j].pgend
         \/ s.range[j].pgstart > s.range[i].pgend
<1> DEFINE a == s.range[i].asma
           l == s.list[a]
<1>1. a \in Areas
  BY RangeTypes DEF IsLists
<1>2. PICK m \in 1 .. Len(l) : l[m] = i
  BY <1>1 DEF Sorted, Listed
<1>3. PICK n \in 1 .. Len(l) : l[n] = j
  BY <1>1 DEF Sorted, Listed
<1>4. m # n /\ m \in Int /\ n \in Int
  BY <1>2, <1>3
<1>5. \A x, y \in 1 .. Len(l) : x < y => s.range[l[x]].pgstart > s.range[l[y]].pgend
  BY <1>1 DEF Sorted, Listed
<1>6. m < n \/ n < m
  BY <1>4
<1> QED
  BY <1>2, <1>3, <1>5, <1>6

LEMMA Disjoint ==
  ASSUME NEW s, IsLists(s), Sorted(s.range, s.list),
         NEW i \in DOMAIN s.range, NEW j \in DOMAIN s.range, i # j
  PROVE  RangePages(s.range[i]) \cap RangePages(s.range[j]) = {}
<1> SUFFICES ASSUME NEW x \in RangePages(s.range[i]), x \in RangePages(s.range[j])
             PROVE  FALSE
  OBVIOUS
<1>1. /\ s.range[i].pgstart \in Nat /\ s.range[i].pgend \in Nat
      /\ s.range[j].pgstart \in Nat /\ s.range[j].pgend \in Nat
  BY RangeTypes DEF IsLists
<1>2. /\ x[1] = s.range[i].asma /\ x[2] \in s.range[i].pgstart .. s.range[i].pgend
      /\ x[1] = s.range[j].asma /\ x[2] \in s.range[j].pgstart .. s.range[j].pgend
  BY DEF RangePages
<1>3. \/ s.range[i].pgstart > s.range[j].pgend
      \/ s.range[j].pgstart > s.range[i].pgend
  BY <1>2, Apart
<1> QED
  BY <1>1, <1>2, <1>3

(* Putting a finite set into one that it is disjoint from. *)
LEMMA CountIn ==
  ASSUME NEW A, IsFiniteSet(A), NEW B, IsFiniteSet(B), A \cap B = {}
  PROVE  IsFiniteSet(A \cup B) /\ Cardinality(A \cup B) = Cardinality(A) + Cardinality(B)
<1>1. /\ IsFiniteSet(A \cup B)
      /\ Cardinality(A \cup B) = Cardinality(A) + Cardinality(B) - Cardinality(A \cap B)
  BY FS_Union
<1>2. Cardinality(A \cap B) = 0
  BY FS_EmptySet
<1>3. Cardinality(A) \in Nat /\ Cardinality(B) \in Nat
  BY FS_CardinalityType
<1> QED
  BY <1>1, <1>2, <1>3

(* The pages on the LRU list but for those of range i. *)
Others(rng, i) ==
  UNION {RangePages(rng[j]) : j \in {j \in DOMAIN rng \ {i} : range_on_lru(rng[j])}}

Weight(r) == IF range_on_lru(r) THEN range_size(r) ELSE 0

LEMMA LruSplit ==
  ASSUME NEW s, IsLists(s), Sorted(s.range, s.list), NEW i \in DOMAIN s.range
  PROVE  /\ range_on_lru(s.range[i]) =>
              /\ LruPages(s.range) = Others(s.range, i) \cup RangePages(s.range[i])
              /\ Others(s.range, i) \cap RangePages(s.range[i]) = {}
         /\ ~range_on_lru(s.range[i]) => LruPages(s.range) = Others(s.range, i)
<1>1. \A j \in DOMAIN s.range \ {i} :
        RangePages(s.range[j]) \cap RangePages(s.range[i]) = {}
  BY Disjoint
<1>2. Others(s.range, i) \cap RangePages(s.range[i]) = {}
  BY <1>1 DEF Others
<1>3. range_on_lru(s.range[i]) =>
        LruPages(s.range) = Others(s.range, i) \cup RangePages(s.range[i])
  BY DEF LruPages, Others
<1>4. ~range_on_lru(s.range[i]) => LruPages(s.range) = Others(s.range, i)
  BY DEF LruPages, Others
<1> QED
  BY <1>2, <1>3, <1>4

LEMMA CountOthers ==
  ASSUME NEW s, IsLists(s), Sorted(s.range, s.list), Counted(s.range, s.count),
         NEW i \in DOMAIN s.range
  PROVE  /\ IsFiniteSet(Others(s.range, i))
         /\ Cardinality(Others(s.range, i)) = s.count - Weight(s.range[i])
<1> DEFINE A == LruPages(s.range)
           B == RangePages(s.range[i])
           C == Others(s.range, i)
<1>1. IsFiniteSet(A) /\ s.count = Cardinality(A) /\ Cardinality(A) \in Nat
  BY FS_CardinalityType DEF Counted
<1>2. IsFiniteSet(B) /\ Cardinality(B) = range_size(s.range[i])
  BY PagesOfRange DEF IsLists
<1>3. CASE range_on_lru(s.range[i])
  <2>1. A = C \cup B /\ C \cap B = {}
    BY <1>3, LruSplit
  <2> HIDE DEF A, B, C
  <2>2. C \subseteq A
    BY <2>1
  <2>3. IsFiniteSet(C)
    BY <1>1, <2>2, FS_Subset
  <2>4. Cardinality(C \cup B) = Cardinality(C) + Cardinality(B)
    BY <1>2, <2>1, <2>3, CountIn
  <2>5. Cardinality(C) \in Nat /\ Cardinality(B) \in Nat
    BY <1>2, <2>3, FS_CardinalityType
  <2>6. Cardinality(C) = s.count - Cardinality(B)
    BY <1>1, <2>1, <2>4, <2>5
  <2> QED
    BY <1>2, <1>3, <2>3, <2>6 DEF Weight, C
<1>4. CASE ~range_on_lru(s.range[i])
  <2>1. A = C
    BY <1>4, LruSplit
  <2>2. Weight(s.range[i]) = 0
    BY <1>4 DEF Weight
  <2> HIDE DEF A, C
  <2>3. Cardinality(C) = s.count - 0 /\ IsFiniteSet(C)
    BY <1>1, <2>1
  <2> QED
    BY <2>2, <2>3 DEF C
<1> QED
  BY <1>3, <1>4

LEMMA CountBack ==
  ASSUME NEW s, IsLists(s), Sorted(s.range, s.list), NEW i \in DOMAIN s.range,
         IsFiniteSet(Others(s.range, i)),
         s.count = Cardinality(Others(s.range, i)) + Weight(s.range[i])
  PROVE  Counted(s.range, s.count)
<1> DEFINE A == LruPages(s.range)
           B == RangePages(s.range[i])
           C == Others(s.range, i)
<1>1. IsFiniteSet(B) /\ Cardinality(B) = range_size(s.range[i])
  BY PagesOfRange DEF IsLists
<1>2. IsFiniteSet(C) /\ Cardinality(C) \in Nat
  BY FS_CardinalityType
<1>3. CASE range_on_lru(s.range[i])
  <2>1. A = C \cup B /\ C \cap B = {}
    BY <1>3, LruSplit
  <2>2. s.count = Cardinality(C) + Cardinality(B)
    BY <1>1, <1>3 DEF Weight
  <2> HIDE DEF A, B, C
  <2>3. IsFiniteSet(C \cup B) /\ Cardinality(C \cup B) = Cardinality(C) + Cardinality(B)
    BY <1>1, <1>2, <2>1, CountIn
  <2>4. IsFiniteSet(A) /\ s.count = Cardinality(A)
    BY <2>1, <2>2, <2>3
  <2> QED
    BY <2>4 DEF Counted, A
<1>4. CASE ~range_on_lru(s.range[i])
  <2>1. A = C
    BY <1>4, LruSplit
  <2>2. s.count = Cardinality(C) + 0
    BY <1>4 DEF Weight
  <2> HIDE DEF A, C
  <2>3. IsFiniteSet(A) /\ s.count = Cardinality(A)
    BY <1>2, <2>1, <2>2
  <2> QED
    BY <2>3 DEF Counted, A
<1> QED
  BY <1>3, <1>4

-----------------------------------------------------------------------------
(* The helpers *)

(* A list without one of its members: the others are left, in their order. *)
Thinned(q, e, u) ==
  /\ Len(q) \in Nat /\ Len(u) = Len(q) - 1
  /\ \A j \in 1 .. Len(u) : \E m \in 1 .. Len(q) : u[j] = q[m] /\ q[m] # e
  /\ \A m \in 1 .. Len(q) : q[m] # e => \E j \in 1 .. Len(u) : u[j] = q[m]
  /\ \A j, k \in 1 .. Len(u) : j < k =>
       \E m, n \in 1 .. Len(q) : m < n /\ u[j] = q[m] /\ u[k] = q[n]

LEMMA Removed ==
  ASSUME NEW S, NEW q \in Seq(S), NEW e, \E k \in 1 .. Len(q) : q[k] = e,
         \A j, k \in 1 .. Len(q) : j # k => q[j] # q[k],
         NEW u, u = RemoveFirst(q, e)
  PROVE  u \in Seq(S) /\ Thinned(q, e, u)
<1>1. PICK p \in 1 .. Len(q) : q[p] = e /\ u = RemoveAt(q, p)
  BY RemoveFirstIs
<1>2. Len(q) \in Nat /\ p \in Nat
  OBVIOUS
<1>3. /\ u \in Seq(S) /\ Len(u) = Len(q) - 1
      /\ \A k \in 1 .. Len(q) - 1 : u[k] = IF k < p THEN q[k] ELSE q[k + 1]
  BY <1>1, RemoveAtIs
<1> DEFINE At(k) == IF k < p THEN k ELSE k + 1
<1>4. ASSUME NEW k \in 1 .. Len(u)
      PROVE  At(k) \in 1 .. Len(q) /\ At(k) # p /\ u[k] = q[At(k)]
  <2>1. CASE k < p
    BY <1>2, <1>3, <2>1
  <2>2. CASE ~(k < p)
    BY <1>2, <1>3, <2>2
  <2> QED
    BY <2>1, <2>2
<1>5. \A j, k \in 1 .. Len(u) : j < k => At(j) < At(k)
  BY <1>2, <1>3
<1>6. ASSUME NEW m \in 1 .. Len(q), q[m] # e
      PROVE  \E j \in 1 .. Len(u) : u[j] = q[m]
  <2>1. m # p
    BY <1>1, <1>6
  <2>2. CASE m < p
    <3>1. m \in 1 .. Len(u)
      BY <1>2, <1>3, <2>2
    <3>2. u[m] = q[m]
      BY <1>3, <2>2, <3>1
    <3> QED
      BY <3>1, <3>2
  <2>3. CASE m > p
    <3>1. m - 1 \in 1 .. Len(u) /\ ~(m - 1 < p) /\ (m - 1) + 1 = m
      BY <1>2, <1>3, <2>3
    <3>2. u[m - 1] = q[m]
      BY <1>3, <3>1
    <3> QED
      BY <3>1, <3>2
  <2> QED
    BY <1>2, <2>1, <2>2, <2>3
<1> HIDE DEF At
<1>7. \A j \in 1 .. Len(u) : \E m \in 1 .. Len(q) : u[j] = q[m] /\ q[m] # e
  BY <1>1, <1>4
<1>8. \A j, k \in 1 .. Len(u) : j < k =>
        \E m, n \in 1 .. Len(q) : m < n /\ u[j] = q[m] /\ u[k] = q[n]
  BY <1>4, <1>5
<1> QED
  BY <1>2, <1>3, <1>6, <1>7, <1>8 DEF Thinned

LEMMA SortedList ==
  ASSUME NEW s, IsLists(s), Sorted(s.range, s.list), NEW a \in Areas
  PROVE  /\ s.list[a] \in Seq(Ids) /\ Len(s.list[a]) \in Nat
         /\ \A j, k \in 1 .. Len(s.list[a]) : j # k => s.list[a][j] # s.list[a][k]
<1> DEFINE l == s.list[a]
<1>1. l \in Seq(Ids) /\ Len(l) \in Nat
  BY DEF IsLists
<1>2. \A j, k \in 1 .. Len(l) : j < k => l[j] # l[k]
  BY DEF Sorted, Listed
<1> HIDE DEF l
<1>3. \A j, k \in 1 .. Len(l) : j # k => j < k \/ k < j
  BY <1>1
<1>4. \A j, k \in 1 .. Len(l) : j # k => l[j] # l[k]
  BY <1>2, <1>3
<1> QED
  BY <1>1, <1>4 DEF l

(* Range i is gone, from the ranges and from the list of its area. *)
Gone(rng, old, i) == DOMAIN rng = DOMAIN old \ {i} /\ \A j \in DOMAIN rng : rng[j] = old[j]
Off(list, old, a, i) ==
  list[a] = RemoveFirst(old[a], i) /\ \A b \in Areas \ {a} : list[b] = old[b]

LEMMA DelSorted ==
  ASSUME NEW s, Good(s), NEW a \in Areas, NEW i \in DOMAIN s.range, s.range[i].asma = a,
         NEW t, Gone(t.range, s.range, i), Off(t.list, s.list, a, i)
  PROVE  /\ t.list[a] \in Seq(Ids) /\ Sorted(t.range, t.list)
         /\ Len(s.list[a]) \in Nat /\ Len(t.list[a]) = Len(s.list[a]) - 1
<1> DEFINE rng == t.range
           list == t.list
<1>0. IsLists(s) /\ Sorted(s.range, s.list)
  BY DEF Good
<1> DEFINE q == s.list[a]
           u == list[a]
<1>1. a \in Areas /\ s.list \in [Areas -> Seq(Ids)]
  BY <1>0, RangeTypes DEF IsLists
<1>2. u = RemoveFirst(q, i) /\ \A b \in Areas \ {a} : list[b] = s.list[b]
  BY <1>1 DEF Off
<1>3. \E k \in 1 .. Len(q) : q[k] = i
  BY <1>0, <1>1 DEF Sorted, Listed
<1>4. q \in Seq(Ids) /\ \A j, k \in 1 .. Len(q) : j # k => q[j] # q[k]
  BY <1>0, <1>1, SortedList
<1> HIDE DEF q, u
<1>5. /\ u \in Seq(Ids) /\ Len(q) \in Nat /\ Len(u) = Len(q) - 1
      /\ \A j \in 1 .. Len(u) : \E m \in 1 .. Len(q) : u[j] = q[m] /\ q[m] # i
      /\ \A m \in 1 .. Len(q) : q[m] # i => \E j \in 1 .. Len(u) : u[j] = q[m]
      /\ \A j, k \in 1 .. Len(u) : j < k =>
           \E m, n \in 1 .. Len(q) : m < n /\ u[j] = q[m] /\ u[k] = q[n]
  <2>1. u \in Seq(Ids) /\ Thinned(q, i, u)
    BY <1>2, <1>3, <1>4, Removed
  <2> QED
    BY <2>1 DEF Thinned
<1>7. DOMAIN rng = DOMAIN s.range \ {i} /\ \A j \in DOMAIN rng : rng[j] = s.range[j]
  BY DEF Gone
<1> HIDE DEF rng
<1>8. ASSUME NEW b \in Areas PROVE Listed(rng, list[b], b)
  <2>1. Listed(s.range, s.list[b], b)
    BY <1>0 DEF Sorted
  <2>2. CASE b # a
    <3> DEFINE l == s.list[b]
    <3>1. list[b] = l
      BY <1>2, <2>2
    <3> HIDE DEF l
    <3>2. Listed(s.range, l, b)
      BY <2>1 DEF l
    <3>3. \A k \in 1 .. Len(l) : l[k] # i
      BY <2>2, <3>2 DEF Listed
    <3>4. \A k \in 1 .. Len(l) : l[k] \in DOMAIN rng /\ rng[l[k]] = s.range[l[k]]
      BY <1>7, <3>2, <3>3 DEF Listed
    <3>5. \A j \in DOMAIN rng : rng[j].asma = b => \E k \in 1 .. Len(l) : l[k] = j
      BY <1>7, <3>2 DEF Listed
    <3>6. Listed(rng, l, b)
      BY <3>2, <3>4, <3>5 DEF Listed
    <3> QED
      BY <3>1, <3>6
  <2>3. CASE b = a
    <3>1. list[b] = u /\ Listed(s.range, q, b)
      BY <2>1, <2>3 DEF u, q
    <3>2. \A k \in 1 .. Len(u) : u[k] \in DOMAIN rng /\ rng[u[k]].asma = b
      <4>1. \A m \in 1 .. Len(q) : q[m] \in DOMAIN s.range /\ s.range[q[m]].asma = b
        BY <3>1 DEF Listed
      <4> QED
        BY <1>5, <1>7, <4>1
    <3>3. \A j \in DOMAIN rng : rng[j].asma = b => \E k \in 1 .. Len(u) : u[k] = j
      <4> SUFFICES ASSUME NEW j \in DOMAIN rng, rng[j].asma = b
                   PROVE  \E k \in 1 .. Len(u) : u[k] = j
        OBVIOUS
      <4>1. j \in DOMAIN s.range /\ j # i /\ s.range[j].asma = b
        BY <1>7
      <4>2. PICK m \in 1 .. Len(q) : q[m] = j
        BY <3>1, <4>1 DEF Listed
      <4> QED
        BY <1>5, <4>1, <4>2
    <3>4. \A j, k \in 1 .. Len(u) :
            j < k => u[j] # u[k] /\ rng[u[j]].pgstart > rng[u[k]].pgend
      <4> SUFFICES ASSUME NEW j \in 1 .. Len(u), NEW k \in 1 .. Len(u), j < k
                   PROVE  u[j] # u[k] /\ rng[u[j]].pgstart > rng[u[k]].pgend
        OBVIOUS
      <4>1. PICK m, n \in 1 .. Len(q) : m < n /\ u[j] = q[m] /\ u[k] = q[n]
        BY <1>5
      <4>2. q[m] # q[n] /\ s.range[q[m]].pgstart > s.range[q[n]].pgend
        BY <3>1, <4>1 DEF Listed
      <4>3. rng[u[j]] = s.range[u[j]] /\ rng[u[k]] = s.range[u[k]]
        BY <1>7, <3>2
      <4> QED
        BY <4>1, <4>2, <4>3
    <3>5. Listed(rng, u, b)
      BY <3>2, <3>3, <3>4 DEF Listed
    <3> QED
      BY <3>1, <3>5
  <2> QED
    BY <2>2, <2>3
<1>9. Sorted(rng, list)
  BY <1>8 DEF Sorted
<1> QED
  BY <1>5, <1>9 DEF u, q, rng

LEMMA LruRemoved ==
  ASSUME NEW s, IsLists(s), OnLruList(s.range, s.lru), NEW i \in DOMAIN s.range,
         range_on_lru(s.range[i]), NEW u, u = RemoveFirst(s.lru, i)
  PROVE  /\ u \in Seq(Ids)
         /\ \A k \in 1 .. Len(u) : /\ u[k] \in DOMAIN s.range \ {i}
                                   /\ range_on_lru(s.range[u[k]])
         /\ \A j \in DOMAIN s.range \ {i} :
              range_on_lru(s.range[j]) => \E k \in 1 .. Len(u) : u[k] = j
         /\ \A j, k \in 1 .. Len(u) : j # k => u[j] # u[k]
<1> DEFINE q == s.lru
<1>1. q \in Seq(Ids)
  BY DEF IsLists
<1>2. /\ \A k \in 1 .. Len(q) : q[k] \in DOMAIN s.range /\ range_on_lru(s.range[q[k]])
      /\ \A j \in DOMAIN s.range : range_on_lru(s.range[j]) =>
           \E k \in 1 .. Len(q) : q[k] = j
      /\ \A j, k \in 1 .. Len(q) : j # k => q[j] # q[k]
  BY DEF OnLruList
<1>3. u = RemoveFirst(q, i) /\ \E k \in 1 .. Len(q) : q[k] = i
  BY <1>2
<1> HIDE DEF q
<1>4. /\ u \in Seq(Ids) /\ Len(q) \in Nat /\ Len(u) = Len(q) - 1
      /\ \A j \in 1 .. Len(u) : \E m \in 1 .. Len(q) : u[j] = q[m] /\ q[m] # i
      /\ \A m \in 1 .. Len(q) : q[m] # i => \E j \in 1 .. Len(u) : u[j] = q[m]
      /\ \A j, k \in 1 .. Len(u) : j < k =>
           \E m, n \in 1 .. Len(q) : m < n /\ u[j] = q[m] /\ u[k] = q[n]
  <2>1. u \in Seq(Ids) /\ Thinned(q, i, u)
    BY <1>1, <1>2, <1>3, Removed
  <2> QED
    BY <2>1 DEF Thinned
<1>5. \A j, k \in 1 .. Len(u) : j < k => u[j] # u[k]
  <2> SUFFICES ASSUME NEW j \in 1 .. Len(u), NEW k \in 1 .. Len(u), j < k
               PROVE  u[j] # u[k]
    OBVIOUS
  <2>1. PICK m, n \in 1 .. Len(q) : m < n /\ u[j] = q[m] /\ u[k] = q[n]
    BY <1>4
  <2>2. m # n
    BY <1>4, <2>1
  <2> QED
    BY <1>2, <2>1, <2>2
<1>6. \A j, k \in 1 .. Len(u) : j # k => j < k \/ k < j
  BY <1>4
<1>7. \A k \in 1 .. Len(u) : u[k] \in DOMAIN s.range \ {i} /\ range_on_lru(s.range[u[k]])
  BY <1>2, <1>4
<1>8. ASSUME NEW j \in DOMAIN s.range \ {i}, range_on_lru(s.range[j])
      PROVE  \E k \in 1 .. Len(u) : u[k] = j
  <2>1. PICK m \in 1 .. Len(q) : q[m] = j
    BY <1>2, <1>8
  <2> QED
    BY <1>4, <2>1
<1>9. \A j, k \in 1 .. Len(u) : j # k => u[j] # u[k]
  BY <1>5, <1>6
<1> QED
  BY <1>4, <1>7, <1>8, <1>9

(* Ranges that only shrink stay in order. *)
LEMMA ListedShrunk ==
  ASSUME NEW rng, NEW l, NEW a, Listed(rng, l, a),
         NEW rng2, DOMAIN rng2 = DOMAIN rng,
         \A j \in DOMAIN rng : /\ IsRange(rng[j]) /\ IsRange(rng2[j])
                               /\ rng2[j].asma = rng[j].asma
                               /\ rng2[j].pgstart >= rng[j].pgstart
                               /\ rng2[j].pgend <= rng[j].pgend
  PROVE  Listed(rng2, l, a)
<1>1. ASSUME NEW j \in 1 .. Len(l), NEW k \in 1 .. Len(l), j < k
      PROVE  rng2[l[j]].pgstart > rng2[l[k]].pgend
  <2> DEFINE x == l[j]
             y == l[k]
  <2>1. x \in DOMAIN rng /\ y \in DOMAIN rng /\ rng[x].pgstart > rng[y].pgend
    BY <1>1 DEF Listed
  <2> HIDE DEF x, y
  <2>2. /\ rng2[x].pgstart \in Nat /\ rng[x].pgstart \in Nat
        /\ rng2[y].pgend \in Nat /\ rng[y].pgend \in Nat
        /\ rng2[x].pgstart >= rng[x].pgstart /\ rng2[y].pgend <= rng[y].pgend
    BY <2>1, RangeTypes
  <2>3. rng2[x].pgstart > rng2[y].pgend
    BY <2>1, <2>2
  <2> QED
    BY <2>3 DEF x, y
<1>2. \A k \in 1 .. Len(l) : l[k] \in DOMAIN rng2 /\ rng2[l[k]].asma = a
  BY DEF Listed
<1>3. \A i \in DOMAIN rng2 : rng2[i].asma = a => \E k \in 1 .. Len(l) : l[k] = i
  BY DEF Listed
<1>4. \A j, k \in 1 .. Len(l) : j < k => l[j] # l[k]
  BY DEF Listed
<1> QED
  BY <1>1, <1>2, <1>3, <1>4 DEF Listed

(* A range replaced by r where it is. *)
LEMMA Replaced ==
  ASSUME NEW s, Good(s), NEW i \in DOMAIN s.range, NEW r, IsRange(r),
         r.asma = s.range[i].asma, r.pgstart >= s.range[i].pgstart,
         r.pgend <= s.range[i].pgend,
         NEW t, t = [range |-> t.range, list |-> t.list, lru |-> t.lru,
                     count |-> t.count],
         t.range = [s.range EXCEPT ![i] = r], t.list = s.list, t.lru \in Seq(Ids),
         t.count = s.count - Weight(s.range[i]) + Weight(r)
  PROVE  /\ IsLists(t) /\ Sorted(t.range, t.list) /\ Counted(t.range, t.count)
         /\ DOMAIN t.range = DOMAIN s.range /\ t.range[i] = r
         /\ \A j \in DOMAIN s.range \ {i} : t.range[j] = s.range[j]
<1>1. /\ IsLists(s) /\ Sorted(s.range, s.list) /\ Counted(s.range, s.count)
  BY DEF Good
<1>2. /\ DOMAIN t.range = DOMAIN s.range /\ t.range[i] = r
      /\ \A j \in DOMAIN s.range \ {i} : t.range[j] = s.range[j]
      /\ t.range = [j \in DOMAIN t.range |-> t.range[j]]
  BY <1>1 DEF IsLists
<1>3. \A j \in DOMAIN s.range : IsRange(s.range[j]) /\ IsRange(t.range[j])
  BY <1>1, <1>2 DEF IsLists
<1>4. IsLists(t)
  <2>1. DOMAIN s.range \subseteq Ids /\ s.list \in [Areas -> Seq(Ids)]
    BY <1>1 DEF IsLists
  <2>2. /\ DOMAIN t.range \subseteq Ids /\ \A j \in DOMAIN t.range : IsRange(t.range[j])
        /\ t.list \in [Areas -> Seq(Ids)]
    BY <1>2, <1>3, <2>1
  <2> QED
    BY <1>2, <2>2 DEF IsLists
<1>5. ASSUME NEW j \in DOMAIN s.range
      PROVE  /\ t.range[j].asma = s.range[j].asma
             /\ t.range[j].pgstart >= s.range[j].pgstart
             /\ t.range[j].pgend <= s.range[j].pgend
  <2>1. CASE j = i
    BY <1>2, <2>1
  <2>2. CASE j # i
    <3>1. s.range[j].pgstart \in Nat /\ s.range[j].pgend \in Nat
      BY <1>3, RangeTypes
    <3>2. t.range[j] = s.range[j]
      BY <1>2, <2>2
    <3> QED
      BY <3>1, <3>2
  <2> QED
    BY <2>1, <2>2
<1>6. \A a \in Areas : Listed(t.range, s.list[a], a)
  <2> SUFFICES ASSUME NEW a \in Areas PROVE Listed(t.range, s.list[a], a)
    OBVIOUS
  <2>1. Listed(s.range, s.list[a], a)
    BY <1>1 DEF Sorted
  <2> QED
    BY <1>2, <1>3, <1>5, <2>1, ListedShrunk
<1>7. Sorted(t.range, t.list)
  BY <1>6 DEF Sorted
<1>8. Others(t.range, i) = Others(s.range, i)
  BY <1>2 DEF Others
<1>9. /\ IsFiniteSet(Others(s.range, i))
      /\ Cardinality(Others(s.range, i)) = s.count - Weight(s.range[i])
  BY <1>1, CountOthers
<1>10. t.count = Cardinality(Others(t.range, i)) + Weight(t.range[i])
  BY <1>2, <1>8, <1>9
<1>11. Counted(t.range, t.count)
  <2>1. IsFiniteSet(Others(t.range, i)) /\ i \in DOMAIN t.range
    BY <1>2, <1>8, <1>9
  <2> QED
    BY <1>4, <1>7, <1>10, <2>1, CountBack
<1> QED
  BY <1>2, <1>4, <1>7, <1>11

LEMMA WeightType ==
  ASSUME NEW r, IsRange(r)
  PROVE  Weight(r) \in Nat
BY RangeTypes DEF Weight

LEMMA CountType ==
  ASSUME NEW s, Good(s)
  PROVE  s.count \in Nat
BY FS_CardinalityType DEF Good, Counted

(* A range with other ends. *)
Cut(r, start, end) == [r EXCEPT !.pgstart = start, !.pgend = end]

(* Range i is r, where it was. *)
Changed(rng, old, i, r) ==
  /\ DOMAIN rng = DOMAIN old /\ rng[i] = r
  /\ \A j \in DOMAIN old \ {i} : rng[j] = old[j]

(* range_shrink *)
LEMMA ShrinkGood ==
  ASSUME NEW s, Good(s), NEW i \in DOMAIN s.range, NEW start \in Nat, NEW end \in Nat,
         start >= s.range[i].pgstart, end <= s.range[i].pgend, start <= end + 1,
         NEW t, t = range_shrink(s, i, start, end)
  PROVE  Good(t) /\ Changed(t.range, s.range, i, Cut(s.range[i], start, end))
<1> DEFINE o == s.range[i]
           r == [o EXCEPT !.pgstart = start, !.pgend = end]
<1>1. IsLists(s) /\ OnLruList(s.range, s.lru) /\ IsRange(o) /\ s.lru \in Seq(Ids)
  BY DEF Good, IsLists
<1>2. /\ t = [range |-> t.range, list |-> t.list, lru |-> t.lru, count |-> t.count]
      /\ t.range = [s.range EXCEPT ![i] = r]
      /\ t.list = s.list /\ t.lru = s.lru
      /\ t.count = IF range_on_lru(o) THEN s.count - (range_size(o) - (end - start + 1))
                   ELSE s.count
  <2>1. /\ t = [range |-> t.range, list |-> t.list, lru |-> t.lru, count |-> t.count]
        /\ t.range = [s.range EXCEPT ![i] = [s.range[i] EXCEPT !.pgstart = start,
                                                               !.pgend = end]]
        /\ t.list = s.list /\ t.lru = s.lru
        /\ t.count = IF range_on_lru(s.range[i])
                     THEN s.count - (range_size(s.range[i]) - (end - start + 1))
                     ELSE s.count
    BY <1>1 DEF IsLists, IsRange, range_shrink
  <2> QED
    BY <2>1, Zenon
<1>3. IsRange(r) /\ r.asma = o.asma /\ r.pgstart = start /\ r.pgend = end /\ r.purged = o.purged
  BY <1>1 DEF IsRange
<1>4. range_on_lru(r) <=> range_on_lru(o)
  BY <1>3 DEF range_on_lru
<1>5. range_size(r) = end - start + 1
  BY <1>3 DEF range_size
<1>6. s.count \in Nat /\ range_size(o) \in Nat /\ range_size(r) \in Nat
  BY <1>1, <1>3, CountType, RangeTypes
<1> HIDE DEF r, o
<1>7. t.count = s.count - Weight(o) + Weight(r)
  <2>1. CASE range_on_lru(o)
    BY <1>2, <1>4, <1>5, <1>6, <2>1 DEF Weight
  <2>2. CASE ~range_on_lru(o)
    BY <1>2, <1>4, <1>6, <2>2 DEF Weight
  <2> QED
    BY <2>1, <2>2
<1>8. /\ IsLists(t) /\ Sorted(t.range, t.list) /\ Counted(t.range, t.count)
      /\ DOMAIN t.range = DOMAIN s.range /\ t.range[i] = r
      /\ \A j \in DOMAIN s.range \ {i} : t.range[j] = s.range[j]
  BY <1>1, <1>2, <1>3, <1>7, Replaced DEF o
<1>9. \A j \in DOMAIN s.range : range_on_lru(t.range[j]) <=> range_on_lru(s.range[j])
  BY <1>4, <1>8 DEF o
<1>10. OnLruList(t.range, t.lru)
  BY <1>1, <1>2, <1>8, <1>9 DEF OnLruList
<1> QED
  BY <1>8, <1>10 DEF Good, Changed, Cut, r, o

(* A range is purged. *)
Truncated(r) == [r EXCEPT !.purged = TRUE]

LEMMA PurgeGood ==
  ASSUME NEW s, Good(s), NEW i \in DOMAIN s.range, range_on_lru(s.range[i]),
         NEW t, t = PurgeRange(s, i)
  PROVE  Good(t) /\ Changed(t.range, s.range, i, Truncated(s.range[i]))
<1> DEFINE o == s.range[i]
           r == [o EXCEPT !.purged = TRUE]
<1>1. IsLists(s) /\ OnLruList(s.range, s.lru) /\ IsRange(o)
  BY DEF Good, IsLists
<1>2. /\ t = [range |-> t.range, list |-> t.list, lru |-> t.lru, count |-> t.count]
      /\ t.range = [s.range EXCEPT ![i] = r]
      /\ t.list = s.list /\ t.lru = RemoveFirst(s.lru, i)
      /\ t.count = s.count - range_size(o)
  BY <1>1, PurgeFields
<1>3. /\ IsRange(r) /\ r.asma = o.asma /\ r.pgstart = o.pgstart /\ r.pgend = o.pgend
      /\ r.purged = TRUE
  BY <1>1 DEF IsRange
<1>4. ~range_on_lru(r)
  BY <1>3 DEF range_on_lru
<1>5. s.count \in Nat /\ range_size(o) \in Nat /\ o.pgstart \in Nat /\ o.pgend \in Nat
  BY <1>1, CountType, RangeTypes
<1> HIDE DEF r
<1>6. t.count = s.count - Weight(o) + Weight(r)
  BY <1>2, <1>4, <1>5 DEF Weight
<1>7. /\ t.lru \in Seq(Ids)
      /\ \A k \in 1 .. Len(t.lru) : /\ t.lru[k] \in DOMAIN s.range \ {i}
                                    /\ range_on_lru(s.range[t.lru[k]])
      /\ \A j \in DOMAIN s.range \ {i} :
           range_on_lru(s.range[j]) => \E k \in 1 .. Len(t.lru) : t.lru[k] = j
      /\ \A j, k \in 1 .. Len(t.lru) : j # k => t.lru[j] # t.lru[k]
  BY <1>1, <1>2, LruRemoved
<1>8. r.pgstart >= o.pgstart /\ r.pgend <= o.pgend
  BY <1>3, <1>5
<1>9. /\ IsLists(t) /\ Sorted(t.range, t.list) /\ Counted(t.range, t.count)
      /\ DOMAIN t.range = DOMAIN s.range /\ t.range[i] = r
      /\ \A j \in DOMAIN s.range \ {i} : t.range[j] = s.range[j]
  BY <1>2, <1>3, <1>6, <1>7, <1>8, Replaced
<1>10. OnLruList(t.range, t.lru)
  <2>1. \A j \in DOMAIN t.range : range_on_lru(t.range[j]) =>
                                    j \in DOMAIN s.range \ {i} /\ range_on_lru(s.range[j])
    BY <1>4, <1>9
  <2>2. \A k \in 1 .. Len(t.lru) :
          t.lru[k] \in DOMAIN t.range /\ range_on_lru(t.range[t.lru[k]])
    BY <1>7, <1>9
  <2> QED
    BY <1>7, <2>1, <2>2 DEF OnLruList
<1> QED
  BY <1>9, <1>10 DEF Good, Changed, Truncated, r

(* range_del *)
LEMMA DelGood ==
  ASSUME NEW s, Good(s), NEW i \in DOMAIN s.range, NEW t, t = range_del(s, i)
  PROVE  /\ Good(t) /\ Gone(t.range, s.range, i)
         /\ s.range[i].asma \in Areas
         /\ Len(s.list[s.range[i].asma]) \in Nat
         /\ Len(t.list[s.range[i].asma]) = Len(s.list[s.range[i].asma]) - 1
         /\ \A b \in Areas \ {s.range[i].asma} : t.list[b] = s.list[b]
<1> DEFINE a == s.range[i].asma
<1>0. a = s.range[i].asma
  OBVIOUS
<1>1. /\ IsLists(s) /\ Sorted(s.range, s.list) /\ Counted(s.range, s.count)
      /\ OnLruList(s.range, s.lru) /\ s.lru \in Seq(Ids)
  BY DEF Good, IsLists
<1> HIDE DEF a
<1>2. /\ t = [range |-> t.range, list |-> t.list, lru |-> t.lru, count |-> t.count]
      /\ t.range = [j \in DOMAIN s.range \ {i} |-> s.range[j]]
      /\ t.list = [s.list EXCEPT ![a] = RemoveFirst(@, i)]
      /\ t.lru = IF range_on_lru(s.range[i]) THEN RemoveFirst(s.lru, i) ELSE s.lru
      /\ t.count = IF range_on_lru(s.range[i])
                   THEN s.count - range_size(s.range[i]) ELSE s.count
  BY <1>0, <1>1 DEF IsLists, range_del, lru_del, Restrict
<1>3. /\ DOMAIN t.range = DOMAIN s.range \ {i}
      /\ \A j \in DOMAIN t.range : t.range[j] = s.range[j]
      /\ t.range = [j \in DOMAIN t.range |-> t.range[j]]
  BY <1>2
<1>4. /\ t.list \in [Areas -> Seq(Ids)] /\ Sorted(t.range, t.list)
      /\ Len(s.list[a]) \in Nat /\ Len(t.list[a]) = Len(s.list[a]) - 1
      /\ \A b \in Areas \ {a} : t.list[b] = s.list[b]
  <2>1. s.list \in [Areas -> Seq(Ids)] /\ a \in Areas
    BY <1>0, <1>1, RangeTypes DEF IsLists
  <2>2. t.list[a] = RemoveFirst(s.list[a], i) /\ \A b \in Areas \ {a} : t.list[b] = s.list[b]
    BY <1>2, <2>1
  <2>3. /\ t.list[a] \in Seq(Ids) /\ Sorted(t.range, t.list)
        /\ Len(s.list[a]) \in Nat /\ Len(t.list[a]) = Len(s.list[a]) - 1
    <3>1. Gone(t.range, s.range, i) /\ Off(t.list, s.list, a, i)
      BY <1>3, <2>2 DEF Gone, Off
    <3> QED
      BY <1>0, <2>1, <3>1, DelSorted
  <2>4. t.list \in [Areas -> Seq(Ids)]
    BY <1>2, <2>1, <2>2, <2>3
  <2> QED
    BY <2>2, <2>3, <2>4
<1>5. t.lru \in Seq(Ids) /\ OnLruList(t.range, t.lru)
  <2>1. CASE range_on_lru(s.range[i])
    <3> DEFINE u == RemoveFirst(s.lru, i)
    <3>1. t.lru = u
      BY <1>2, <2>1
    <3> HIDE DEF u
    <3>2. /\ u \in Seq(Ids)
          /\ \A k \in 1 .. Len(u) : /\ u[k] \in DOMAIN s.range \ {i}
                                    /\ range_on_lru(s.range[u[k]])
          /\ \A j \in DOMAIN s.range \ {i} :
               range_on_lru(s.range[j]) => \E k \in 1 .. Len(u) : u[k] = j
          /\ \A j, k \in 1 .. Len(u) : j # k => u[j] # u[k]
      BY <1>1, <2>1, LruRemoved DEF u
    <3> QED
      BY <1>3, <3>1, <3>2 DEF OnLruList
  <2>2. CASE ~range_on_lru(s.range[i])
    <3>1. t.lru = s.lru
      BY <1>2, <2>2
    <3> QED
      BY <1>1, <1>3, <2>2, <3>1 DEF OnLruList
  <2> QED
    BY <2>1, <2>2
<1>6. IsLists(t)
  <2>1. /\ DOMAIN t.range \subseteq Ids /\ \A j \in DOMAIN t.range : IsRange(t.range[j])
    BY <1>1, <1>3 DEF IsLists
  <2> QED
    BY <1>2, <1>4, <1>3, <1>5, <2>1 DEF IsLists
<1>7. Counted(t.range, t.count)
  <2>1. LruPages(t.range) = Others(s.range, i)
    BY <1>3 DEF LruPages, Others
  <2>2. /\ IsFiniteSet(Others(s.range, i))
        /\ Cardinality(Others(s.range, i)) = s.count - Weight(s.range[i])
    BY <1>1, CountOthers
  <2>3. s.count \in Nat
    BY CountType
  <2>4. t.count = s.count - Weight(s.range[i])
    BY <1>2, <2>3 DEF Weight
  <2> QED
    BY <2>1, <2>2, <2>4 DEF Counted
<1>8. a \in Areas
  BY <1>0, <1>1, RangeTypes DEF IsLists
<1> QED
  BY <1>0, <1>3, <1>4, <1>5, <1>6, <1>7, <1>8 DEF Good, Gone

(* A new range has its place in the list. *)
Fits(rng, l, at, r) ==
  /\ at \in 1 .. Len(l) + 1
  /\ \A k \in 1 .. Len(l) : k < at => rng[l[k]].pgstart > r.pgend
  /\ \A k \in 1 .. Len(l) : k >= at => r.pgstart > rng[l[k]].pgend

LEMMA AllocListed ==
  ASSUME NEW rng, NEW l \in Seq(Ids), NEW r, Listed(rng, l, r.asma),
         NEW at, Fits(rng, l, at, r),
         NEW i \in Ids, i \notin DOMAIN rng,
         NEW rng2, DOMAIN rng2 = DOMAIN rng \cup {i}, rng2[i] = r,
         \A j \in DOMAIN rng : rng2[j] = rng[j]
  PROVE  InsertAt(l, at, i) \in Seq(Ids) /\ Listed(rng2, InsertAt(l, at, i), r.asma)
<1> DEFINE u == InsertAt(l, at, i)
           At(k) == IF k < at THEN k ELSE k - 1
<1>1. /\ Len(l) \in Nat /\ at \in 1 .. Len(l) + 1 /\ at \in Nat
      /\ \A k \in 1 .. Len(l) : k < at => rng[l[k]].pgstart > r.pgend
      /\ \A k \in 1 .. Len(l) : k >= at => r.pgstart > rng[l[k]].pgend
  BY DEF Fits
<1>2. /\ u \in Seq(Ids) /\ Len(u) = Len(l) + 1
      /\ \A k \in 1 .. Len(l) + 1 :
              u[k] = IF k < at THEN l[k] ELSE IF k = at THEN i ELSE l[k - 1]
  BY <1>1, InsertAtIs
<1> HIDE DEF u
<1>3. ASSUME NEW k \in 1 .. Len(u), k # at
      PROVE  At(k) \in 1 .. Len(l) /\ u[k] = l[At(k)]
  <2>1. CASE k < at
    BY <1>1, <1>2, <2>1
  <2>2. CASE k > at
    <3>1. k - 1 \in 1 .. Len(l) /\ ~(k < at)
      BY <1>1, <1>2, <2>2
    <3> QED
      BY <1>1, <1>2, <2>2, <3>1
  <2> QED
    BY <1>1, <1>2, <1>3, <2>1, <2>2
<1>4. at \in 1 .. Len(u) /\ u[at] = i
  BY <1>1, <1>2
<1>5. /\ \A k \in 1 .. Len(l) : l[k] \in DOMAIN rng /\ rng[l[k]].asma = r.asma
      /\ \A j \in DOMAIN rng : rng[j].asma = r.asma => \E k \in 1 .. Len(l) : l[k] = j
      /\ \A j, k \in 1 .. Len(l) :
           j < k => l[j] # l[k] /\ rng[l[j]].pgstart > rng[l[k]].pgend
  BY DEF Listed
<1>6. /\ \A j, k \in 1 .. Len(u) : j # at /\ k # at /\ j < k => At(j) < At(k)
      /\ \A k \in 1 .. Len(u) : k < at => At(k) < at
      /\ \A k \in 1 .. Len(u) : k > at => At(k) >= at
  BY <1>1, <1>2
<1> HIDE DEF At
<1>7. \A k \in 1 .. Len(u) : u[k] \in DOMAIN rng2 /\ rng2[u[k]].asma = r.asma
  BY <1>3, <1>4, <1>5
<1>8. ASSUME NEW j \in DOMAIN rng2, rng2[j].asma = r.asma
      PROVE  \E k \in 1 .. Len(u) : u[k] = j
  <2>1. CASE j = i
    BY <1>4, <2>1
  <2>2. CASE j # i
    <3>1. PICK m \in 1 .. Len(l) : l[m] = j
      BY <1>5, <1>8, <2>2
    <3>2. CASE m < at
      <4>1. m \in 1 .. Len(u) /\ u[m] = j
        BY <1>1, <1>2, <3>1, <3>2
      <4> QED
        BY <4>1
    <3>3. CASE ~(m < at)
      <4>1. m + 1 \in 1 .. Len(u) /\ ~(m + 1 < at) /\ m + 1 # at /\ (m + 1) - 1 = m
        BY <1>1, <1>2, <3>3
      <4>2. u[m + 1] = j
        BY <1>2, <3>1, <4>1
      <4> QED
        BY <4>1, <4>2
    <3> QED
      BY <3>2, <3>3
  <2> QED
    BY <2>1, <2>2
<1>9. ASSUME NEW j \in 1 .. Len(u), NEW k \in 1 .. Len(u), j < k
      PROVE  u[j] # u[k] /\ rng2[u[j]].pgstart > rng2[u[k]].pgend
  <2>1. j \in Int /\ k \in Int /\ at \in Int
    BY <1>1
  <2>2. CASE j = at
    <3>1. k # at /\ k > at
      BY <1>9, <2>1, <2>2
    <3>2. At(k) \in 1 .. Len(l) /\ u[k] = l[At(k)] /\ At(k) >= at
      BY <1>3, <1>6, <3>1
    <3>3. r.pgstart > rng[u[k]].pgend /\ u[k] \in DOMAIN rng
      BY <1>1, <1>5, <3>2
    <3> QED
      BY <1>4, <2>2, <3>3
  <2>3. CASE k = at
    <3>1. j # at /\ j < at
      BY <1>9, <2>1, <2>3
    <3>2. At(j) \in 1 .. Len(l) /\ u[j] = l[At(j)] /\ At(j) < at
      BY <1>3, <1>6, <3>1
    <3>3. rng[u[j]].pgstart > r.pgend /\ u[j] \in DOMAIN rng
      BY <1>1, <1>5, <3>2
    <3> QED
      BY <1>4, <2>3, <3>3
  <2>4. CASE j # at /\ k # at
    <3>1. /\ At(j) \in 1 .. Len(l) /\ u[j] = l[At(j)]
          /\ At(k) \in 1 .. Len(l) /\ u[k] = l[At(k)] /\ At(j) < At(k)
      BY <1>3, <1>6, <1>9, <2>4
    <3> QED
      BY <1>5, <3>1
  <2> QED
    BY <2>2, <2>3, <2>4
<1>10. Listed(rng2, u, r.asma)
  BY <1>7, <1>8, <1>9 DEF Listed
<1> QED
  BY <1>2, <1>10 DEF u

(* Range i is r, the others are as they were. *)
Added(rng, old, i, r) ==
  /\ DOMAIN rng = DOMAIN old \cup {i} /\ rng[i] = r
  /\ \A j \in DOMAIN old : rng[j] = old[j]

(* range_alloc *)
LEMMA AllocGood ==
  ASSUME NEW s, Good(s), NEW i \in Ids \ DOMAIN s.range, NEW r, IsRange(r),
         NEW at, Fits(s.range, s.list[r.asma], at, r),
         NEW t, t = range_alloc(s, i, at, r)
  PROVE  /\ Good(t)
         /\ Added(t.range, s.range, i, r)
<1> DEFINE a == r.asma
<1>1. /\ IsLists(s) /\ Sorted(s.range, s.list) /\ Counted(s.range, s.count)
      /\ OnLruList(s.range, s.lru) /\ s.lru \in Seq(Ids)
      /\ s.list \in [Areas -> Seq(Ids)] /\ a \in Areas
  BY RangeTypes DEF Good, IsLists
<1>2. /\ t = [range |-> t.range, list |-> t.list, lru |-> t.lru, count |-> t.count]
      /\ t.range = [j \in DOMAIN s.range \cup {i} |-> IF j = i THEN r ELSE s.range[j]]
      /\ t.list = [s.list EXCEPT ![a] = InsertAt(@, at, i)]
      /\ t.lru = IF range_on_lru(r) THEN Append(s.lru, i) ELSE s.lru
      /\ t.count = IF range_on_lru(r) THEN s.count + range_size(r) ELSE s.count
  BY <1>1 DEF IsLists, range_alloc, lru_add
<1>3. /\ DOMAIN t.range = DOMAIN s.range \cup {i} /\ t.range[i] = r
      /\ \A j \in DOMAIN s.range : t.range[j] = s.range[j]
      /\ t.range = [j \in DOMAIN t.range |-> t.range[j]]
  BY <1>2
<1>4. /\ t.list[a] = InsertAt(s.list[a], at, i)
      /\ \A b \in Areas \ {a} : t.list[b] = s.list[b]
  BY <1>1, <1>2
<1>5. InsertAt(s.list[a], at, i) \in Seq(Ids) /\ Listed(t.range, InsertAt(s.list[a], at, i), a)
  <2>1. s.list[a] \in Seq(Ids) /\ Listed(s.range, s.list[a], a)
    BY <1>1 DEF Sorted
  <2> QED
    BY <1>3, <2>1, AllocListed
<1>6. ASSUME NEW b \in Areas \ {a} PROVE Listed(t.range, s.list[b], b)
  <2>1. Listed(s.range, s.list[b], b)
    BY <1>1 DEF Sorted
  <2> QED
    BY <1>3, <2>1 DEF Listed
<1>7. Sorted(t.range, t.list)
  BY <1>4, <1>5, <1>6 DEF Sorted
<1>8. t.list \in [Areas -> Seq(Ids)]
  BY <1>1, <1>2, <1>5
<1>9. t.lru \in Seq(Ids) /\ OnLruList(t.range, t.lru)
  <2>1. CASE range_on_lru(r)
    <3> DEFINE q == s.lru
               u == Append(q, i)
    <3>1. t.lru = u /\ q \in Seq(Ids)
      BY <1>1, <1>2, <2>1
    <3>2. /\ \A k \in 1 .. Len(q) : q[k] \in DOMAIN s.range /\ range_on_lru(s.range[q[k]])
          /\ \A j \in DOMAIN s.range : range_on_lru(s.range[j]) =>
               \E k \in 1 .. Len(q) : q[k] = j
          /\ \A j, k \in 1 .. Len(q) : j # k => q[j] # q[k]
      BY <1>1 DEF OnLruList
    <3> HIDE DEF q
    <3>3. /\ u \in Seq(Ids) /\ Len(u) = Len(q) + 1 /\ Len(q) \in Nat
          /\ \A k \in 1 .. Len(q) : u[k] = q[k]
          /\ u[Len(q) + 1] = i
      BY <3>1
    <3> HIDE DEF u
    <3>4. \A k \in 1 .. Len(u) : k \in 1 .. Len(q) \/ k = Len(q) + 1
      BY <3>3
    <3>5. Len(q) + 1 \in 1 .. Len(u) /\ \A k \in 1 .. Len(q) : k \in 1 .. Len(u)
      BY <3>3
    <3>6. \A k \in 1 .. Len(u) : u[k] \in DOMAIN t.range /\ range_on_lru(t.range[u[k]])
      BY <1>3, <2>1, <3>2, <3>3, <3>4
    <3>7. \A j \in DOMAIN t.range : range_on_lru(t.range[j]) =>
               \E k \in 1 .. Len(u) : u[k] = j
      <4> SUFFICES ASSUME NEW j \in DOMAIN t.range, range_on_lru(t.range[j])
                   PROVE  \E k \in 1 .. Len(u) : u[k] = j
        OBVIOUS
      <4>1. CASE j = i
        BY <3>3, <3>5, <4>1
      <4>2. CASE j # i
        <5>1. PICK k \in 1 .. Len(q) : q[k] = j
          BY <1>3, <3>2, <4>2
        <5> QED
          BY <3>3, <3>5, <5>1
      <4> QED
        BY <4>1, <4>2
    <3>8. \A j, k \in 1 .. Len(u) : j # k => u[j] # u[k]
      BY <3>2, <3>3, <3>4
    <3> QED
      BY <3>1, <3>3, <3>6, <3>7, <3>8 DEF OnLruList
  <2>2. CASE ~range_on_lru(r)
    <3>1. t.lru = s.lru
      BY <1>2, <2>2
    <3> QED
      BY <1>1, <1>3, <2>2, <3>1 DEF OnLruList
  <2> QED
    BY <2>1, <2>2
<1>10. IsLists(t)
  <2>1. /\ DOMAIN t.range \subseteq Ids /\ \A j \in DOMAIN t.range : IsRange(t.range[j])
    BY <1>1, <1>3 DEF IsLists
  <2> QED
    BY <1>2, <1>3, <1>8, <1>9, <2>1 DEF IsLists
<1>11. Counted(t.range, t.count)
  <2>1. Others(t.range, i) = LruPages(s.range)
    <3>1. DOMAIN t.range \ {i} = DOMAIN s.range
      BY <1>3
    <3> QED
      BY <1>3, <3>1 DEF LruPages, Others
  <2>2. IsFiniteSet(LruPages(s.range)) /\ s.count = Cardinality(LruPages(s.range))
    BY <1>1 DEF Counted
  <2>3. s.count \in Nat
    BY CountType
  <2>4. t.count = s.count + Weight(r)
    BY <1>2, <2>3 DEF Weight
  <2>5. /\ IsFiniteSet(Others(t.range, i)) /\ i \in DOMAIN t.range
        /\ t.count = Cardinality(Others(t.range, i)) + Weight(t.range[i])
    BY <1>3, <2>1, <2>2, <2>4
  <2> QED
    BY <1>7, <1>10, <2>5, CountBack
<1> QED
  BY <1>3, <1>7, <1>9, <1>10, <1>11 DEF Good, Added

-----------------------------------------------------------------------------
(* The loops *)

(* The loop of ashmem_release, as a sequence of states. *)
LEMMA ReleasedIs ==
  ASSUME NEW a, NEW l, l = unpinned_list[a], Len(l) \in Nat
  PROVE  \E f : /\ f[0] = Lists /\ Released(a) = f[Len(l)]
                /\ \A n \in 1 .. Len(l) : f[n] = range_del(f[n - 1], l[n])
<1> DEFINE D == 0 .. Len(l)
           Step(f, n) == IF n = 0 THEN Lists ELSE range_del(f[n - 1], l[n])
           Upto(n, f) == \A k \in D : k <= n => f[k] = Step(f, k)
           T == {n \in D : \E f : Upto(n, f)}
<1>1. 0 \in T
  <2>1. Upto(0, [k \in D |-> Lists])
    OBVIOUS
  <2> QED
    BY <2>1
<1>2. ASSUME NEW n \in 1 .. Len(l), n - 1 \in T
      PROVE  n \in T
  <2>1. PICK f : Upto(n - 1, f)
    BY <1>2
  <2> DEFINE v == range_del(f[n - 1], l[n])
             g == [k \in D |-> IF k = n THEN v ELSE f[k]]
  <2>2. ASSUME NEW k \in D, k <= n
        PROVE  g[k] = Step(g, k)
    <3>1. n \in Nat /\ k \in Nat /\ (k # 0 => k - 1 \in D /\ k - 1 # n)
      BY <2>2
    <3>2. k # 0 => g[k - 1] = f[k - 1]
      <4> HIDE DEF v, D
      <4> QED
        BY <3>1
    <3>3. CASE k = n
      <4>1. k # 0 /\ g[k] = v
        BY <3>3
      <4> QED
        BY <3>2, <3>3, <4>1
    <3>4. CASE k # n
      <4>1. g[k] = f[k]
        <5> HIDE DEF v, D
        <5> QED
          BY <3>4
      <4>2. f[k] = Step(f, k)
        BY <2>1, <2>2, <3>1, <3>4
      <4> QED
        BY <3>2, <4>1, <4>2
    <3> QED
      BY <3>3, <3>4
  <2> HIDE DEF g, Step
  <2>3. Upto(n, g)
    BY <2>2
  <2> HIDE DEF Upto
  <2> QED
    BY <2>3
<1>3. \A n \in D : n \in T
  <2> HIDE DEF T
  <2> QED
    BY <1>1, <1>2, Upward
<1>4. PICK f0 : Upto(Len(l), f0)
  <2> HIDE DEF Upto
  <2>1. Len(l) \in D
    OBVIOUS
  <2> QED
    BY <1>3, <2>1
<1> DEFINE f == [k \in D |-> f0[k]]
<1>5. f = [n \in D |-> Step(f, n)]
  <2>1. \A n \in D : f[n] = f0[n] /\ (n # 0 => f[n - 1] = f0[n - 1])
    OBVIOUS
  <2>2. \A n \in D : f0[n] = Step(f, n)
    BY <1>4, <2>1
  <2> QED
    BY <2>2
<1> DEFINE del == CHOOSE h : h = [n \in D |-> Step(h, n)]
<1>6. del = [n \in D |-> Step(del, n)]
  BY <1>5
<1>7. Released(a) = del[Len(l)]
  BY DEF Released
<1> HIDE DEF del
<1>8. del[0] = Lists /\ \A n \in 1 .. Len(l) : del[n] = range_del(del[n - 1], l[n])
  <2>1. \A n \in D : del[n] = Step(del, n)
    BY <1>6
  <2>2. 0 \in D /\ \A n \in 1 .. Len(l) : n \in D /\ n # 0
    OBVIOUS
  <2> QED
    BY <2>1, <2>2
<1> QED
  BY <1>7, <1>8

LEMMA ListsIs ==
  /\ Lists.range = range /\ Lists.list = unpinned_list
  /\ Lists.lru = ashmem_lru_list /\ Lists.count = lru_count
BY DEF Lists

(* What the list of an area has in a good state. *)
LEMMA ListOf ==
  ASSUME Good(Lists), NEW a \in Areas, NEW l, l = unpinned_list[a]
  PROVE  /\ l \in Seq(Ids) /\ Len(l) \in Nat /\ Listed(range, l, a)
         /\ \A j, k \in 1 .. Len(l) : j # k => l[j] # l[k]
         /\ \A k \in 1 .. Len(l) : l[k] \in DOMAIN range /\ range[l[k]].asma = a
         /\ \A j \in DOMAIN range : IsRange(range[j])
<1>1. IsLists(Lists) /\ Sorted(Lists.range, Lists.list)
  BY DEF Good
<1>2. l = Lists.list[a]
  BY ListsIs
<1>3. /\ l \in Seq(Ids) /\ Len(l) \in Nat
      /\ \A j, k \in 1 .. Len(l) : j # k => l[j] # l[k]
  BY <1>1, <1>2, SortedList
<1>4. Listed(range, l, a)
  BY <1>1, ListsIs DEF Sorted
<1>5. \A k \in 1 .. Len(l) : l[k] \in DOMAIN range /\ range[l[k]].asma = a
  BY <1>4 DEF Listed
<1>6. \A j \in DOMAIN range : IsRange(range[j])
  BY <1>1, ListsIs DEF IsLists
<1> QED
  BY <1>3, <1>4, <1>5, <1>6

(* Of the area no range is left, the others are as they were. *)
LEMMA ReleasedGood ==
  ASSUME Good(Lists), NEW a \in Areas
  PROVE  /\ Good(Released(a))
         /\ DOMAIN Released(a).range = {j \in DOMAIN range : range[j].asma # a}
         /\ \A j \in DOMAIN Released(a).range : Released(a).range[j] = range[j]
<1> DEFINE l == unpinned_list[a]
<1>1. /\ l \in Seq(Ids) /\ Len(l) \in Nat /\ Listed(range, l, a)
      /\ \A j, k \in 1 .. Len(l) : j # k => l[j] # l[k]
      /\ \A k \in 1 .. Len(l) : l[k] \in DOMAIN range /\ range[l[k]].asma = a
  BY ListOf
<1>2. PICK f : /\ f[0] = Lists /\ Released(a) = f[Len(l)]
               /\ \A n \in 1 .. Len(l) : f[n] = range_del(f[n - 1], l[n])
  BY <1>1, ReleasedIs
<1> HIDE DEF l
<1> DEFINE Done(n) == {l[k] : k \in 1 .. n}
           R(n) == /\ Good(f[n]) /\ DOMAIN f[n].range = DOMAIN range \ Done(n)
                   /\ \A j \in DOMAIN f[n].range : f[n].range[j] = range[j]
           T == {n \in 0 .. Len(l) : R(n)}
<1>3. 0 \in T
  <2>1. Done(0) = {}
    OBVIOUS
  <2>2. f[0].range = range
    BY <1>2, ListsIs
  <2> HIDE DEF Done
  <2> QED
    BY <1>1, <1>2, <2>1, <2>2
<1>4. ASSUME NEW n \in 1 .. Len(l), n - 1 \in T
      PROVE  n \in T
  <2> DEFINE s == f[n - 1]
             t == f[n]
             i == l[n]
  <2>1. /\ Good(s) /\ DOMAIN s.range = DOMAIN range \ Done(n - 1)
        /\ \A j \in DOMAIN s.range : s.range[j] = range[j]
    BY <1>4
  <2>2. i \in DOMAIN range /\ i \notin Done(n - 1) /\ Done(n) = Done(n - 1) \cup {i}
    BY <1>1
  <2>3. t = range_del(s, i) /\ n \in 0 .. Len(l)
    BY <1>2
  <2> HIDE DEF s, t, i, Done
  <2>4. Good(t) /\ Gone(t.range, s.range, i)
    BY <2>1, <2>2, <2>3, DelGood
  <2>5. DOMAIN t.range = DOMAIN range \ Done(n) /\ \A j \in DOMAIN t.range : t.range[j] = range[j]
    BY <2>1, <2>2, <2>4 DEF Gone
  <2> QED
    BY <2>3, <2>4, <2>5 DEF t
<1>5. \A n \in 0 .. Len(l) : n \in T
  <2> HIDE DEF T
  <2> QED
    BY <1>1, <1>3, <1>4, Upward
<1>6. R(Len(l))
  BY <1>1, <1>5
<1>7. DOMAIN range \ Done(Len(l)) = {j \in DOMAIN range : range[j].asma # a}
  BY <1>1 DEF Listed
<1> QED
  BY <1>2, <1>6, <1>7

(* The loop of ashmem_pin. *)
PinStep(s, i, P, start, end) == IF i \in P THEN PinRange(s, i, start, end) ELSE s

LEMMA PinRangesIs ==
  ASSUME NEW a, NEW start, NEW end, NEW l, l = unpinned_list[a], Len(l) \in Nat,
         NEW P, P = Pinned(a, start, end)
  PROVE  \E f : /\ f[0] = Lists /\ PinRanges(a, start, end) = f[Len(l)]
                /\ \A n \in 1 .. Len(l) : f[n] = PinStep(f[n - 1], l[n], P, start, end)
<1> DEFINE D == 0 .. Len(l)
           Step(f, n) == IF n = 0 THEN Lists ELSE PinStep(f[n - 1], l[n], P, start, end)
           Upto(n, f) == \A k \in D : k <= n => f[k] = Step(f, k)
           T == {n \in D : \E f : Upto(n, f)}
<1>1. 0 \in T
  <2>1. Upto(0, [k \in D |-> Lists])
    OBVIOUS
  <2> QED
    BY <2>1
<1>2. ASSUME NEW n \in 1 .. Len(l), n - 1 \in T
      PROVE  n \in T
  <2>1. PICK f : Upto(n - 1, f)
    BY <1>2
  <2> DEFINE v == PinStep(f[n - 1], l[n], P, start, end)
             g == [k \in D |-> IF k = n THEN v ELSE f[k]]
  <2>2. ASSUME NEW k \in D, k <= n
        PROVE  g[k] = Step(g, k)
    <3>1. n \in Nat /\ k \in Nat /\ (k # 0 => k - 1 \in D /\ k - 1 # n)
      BY <2>2
    <3>2. k # 0 => g[k - 1] = f[k - 1]
      <4> HIDE DEF v, D
      <4> QED
        BY <3>1
    <3>3. CASE k = n
      <4>1. k # 0 /\ g[k] = v
        BY <3>3
      <4> QED
        BY <3>2, <3>3, <4>1
    <3>4. CASE k # n
      <4>1. g[k] = f[k]
        <5> HIDE DEF v, D
        <5> QED
          BY <3>4
      <4>2. f[k] = Step(f, k)
        BY <2>1, <2>2, <3>1, <3>4
      <4> QED
        BY <3>2, <4>1, <4>2
    <3> QED
      BY <3>3, <3>4
  <2> HIDE DEF g, Step
  <2>3. Upto(n, g)
    BY <2>2
  <2> HIDE DEF Upto
  <2> QED
    BY <2>3
<1>3. \A n \in D : n \in T
  <2> HIDE DEF T
  <2> QED
    BY <1>1, <1>2, Upward
<1>4. PICK f0 : Upto(Len(l), f0)
  <2> HIDE DEF Upto
  <2>1. Len(l) \in D
    OBVIOUS
  <2> QED
    BY <1>3, <2>1
<1> DEFINE f == [k \in D |-> f0[k]]
<1>5. f = [n \in D |-> Step(f, n)]
  <2>1. \A n \in D : f[n] = f0[n] /\ (n # 0 => f[n - 1] = f0[n - 1])
    OBVIOUS
  <2>2. \A n \in D : f0[n] = Step(f, n)
    BY <1>4, <2>1
  <2> QED
    BY <2>2
<1> DEFINE scan == CHOOSE h : h = [n \in D |-> Step(h, n)]
<1>6. scan = [n \in D |-> Step(scan, n)]
  BY <1>5
<1>7. PinRanges(a, start, end) = scan[Len(l)]
  BY DEF PinRanges, PinStep
<1> HIDE DEF scan
<1>8. scan[0] = Lists /\ \A n \in 1 .. Len(l) : scan[n] = PinStep(scan[n - 1], l[n], P, start, end)
  <2>1. \A n \in D : scan[n] = Step(scan, n)
    BY <1>6
  <2>2. 0 \in D /\ \A n \in 1 .. Len(l) : n \in D /\ n # 0
    OBVIOUS
  <2> QED
    BY <2>1, <2>2
<1> QED
  BY <1>7, <1>8

(* The loop of ashmem_shrink. *)
PurgeStart(nr) == [lists |-> Lists, left |-> nr]
PurgeStep(s, i) ==
  IF s.left <= 0 THEN s
  ELSE [lists |-> PurgeRange(s.lists, i), left |-> s.left - range_size(range[i])]

LEMMA PurgeRangesIs ==
  ASSUME NEW nr, NEW l, l = ashmem_lru_list, Len(l) \in Nat
  PROVE  \E f : /\ f[0] = PurgeStart(nr) /\ PurgeRanges(nr) = f[Len(l)].lists
                /\ \A n \in 1 .. Len(l) : f[n] = PurgeStep(f[n - 1], l[n])
<1> DEFINE D == 0 .. Len(l)
           Step(f, n) == IF n = 0 THEN PurgeStart(nr) ELSE PurgeStep(f[n - 1], l[n])
           Upto(n, f) == \A k \in D : k <= n => f[k] = Step(f, k)
           T == {n \in D : \E f : Upto(n, f)}
<1>1. 0 \in T
  <2>1. Upto(0, [k \in D |-> PurgeStart(nr)])
    OBVIOUS
  <2> QED
    BY <2>1
<1>2. ASSUME NEW n \in 1 .. Len(l), n - 1 \in T
      PROVE  n \in T
  <2>1. PICK f : Upto(n - 1, f)
    BY <1>2
  <2> DEFINE v == PurgeStep(f[n - 1], l[n])
             g == [k \in D |-> IF k = n THEN v ELSE f[k]]
  <2>2. ASSUME NEW k \in D, k <= n
        PROVE  g[k] = Step(g, k)
    <3>1. n \in Nat /\ k \in Nat /\ (k # 0 => k - 1 \in D /\ k - 1 # n)
      BY <2>2
    <3>2. k # 0 => g[k - 1] = f[k - 1]
      <4> HIDE DEF v, D
      <4> QED
        BY <3>1
    <3>3. CASE k = n
      <4>1. k # 0 /\ g[k] = v
        BY <3>3
      <4> QED
        BY <3>2, <3>3, <4>1
    <3>4. CASE k # n
      <4>1. g[k] = f[k]
        <5> HIDE DEF v, D
        <5> QED
          BY <3>4
      <4>2. f[k] = Step(f, k)
        BY <2>1, <2>2, <3>1, <3>4
      <4> QED
        BY <3>2, <4>1, <4>2
    <3> QED
      BY <3>3, <3>4
  <2> HIDE DEF g, Step
  <2>3. Upto(n, g)
    BY <2>2
  <2> HIDE DEF Upto
  <2> QED
    BY <2>3
<1>3. \A n \in D : n \in T
  <2> HIDE DEF T
  <2> QED
    BY <1>1, <1>2, Upward
<1>4. PICK f0 : Upto(Len(l), f0)
  <2> HIDE DEF Upto
  <2>1. Len(l) \in D
    OBVIOUS
  <2> QED
    BY <1>3, <2>1
<1> DEFINE f == [k \in D |-> f0[k]]
<1>5. f = [n \in D |-> Step(f, n)]
  <2>1. \A n \in D : f[n] = f0[n] /\ (n # 0 => f[n - 1] = f0[n - 1])
    OBVIOUS
  <2>2. \A n \in D : f0[n] = Step(f, n)
    BY <1>4, <2>1
  <2> QED
    BY <2>2
<1> DEFINE scan == CHOOSE h : h = [n \in D |-> Step(h, n)]
<1>6. scan = [n \in D |-> Step(scan, n)]
  BY <1>5
<1>7. PurgeRanges(nr) = scan[Len(l)].lists
  BY DEF PurgeRanges, PurgeStep, PurgeStart
<1> HIDE DEF scan
<1>8. scan[0] = PurgeStart(nr) /\ \A n \in 1 .. Len(l) : scan[n] = PurgeStep(scan[n - 1], l[n])
  <2>1. \A n \in D : scan[n] = Step(scan, n)
    BY <1>6
  <2>2. 0 \in D /\ \A n \in 1 .. Len(l) : n \in D /\ n # 0
    OBVIOUS
  <2> QED
    BY <2>1, <2>2
<1> QED
  BY <1>7, <1>8

(* The rounds of ashmem_unpin. *)
MergeStart(start, end) ==
  [pgstart |-> start, pgend |-> end, purged |-> FALSE, lists |-> Lists, inside |-> FALSE]

LEMMA MergedIs ==
  ASSUME NEW a, NEW start, NEW end, NEW l, l = unpinned_list[a], Len(l) \in Nat
  PROVE  \E f : /\ f[0] = MergeStart(start, end) /\ Merged(a, start, end) = f[Len(l) + 1]
                /\ \A n \in 1 .. Len(l) + 1 : f[n] = Merge(a, f[n - 1])
<1> DEFINE D == 0 .. Len(l) + 1
           Step(f, n) == IF n = 0 THEN MergeStart(start, end) ELSE Merge(a, f[n - 1])
           Upto(n, f) == \A k \in D : k <= n => f[k] = Step(f, k)
           T == {n \in D : \E f : Upto(n, f)}
<1>1. 0 \in T
  <2>1. Upto(0, [k \in D |-> MergeStart(start, end)])
    OBVIOUS
  <2> QED
    BY <2>1
<1>2. ASSUME NEW n \in 1 .. Len(l) + 1, n - 1 \in T
      PROVE  n \in T
  <2>1. PICK f : Upto(n - 1, f)
    BY <1>2
  <2> DEFINE v == Merge(a, f[n - 1])
             g == [k \in D |-> IF k = n THEN v ELSE f[k]]
  <2>2. ASSUME NEW k \in D, k <= n
        PROVE  g[k] = Step(g, k)
    <3>1. n \in Nat /\ k \in Nat /\ (k # 0 => k - 1 \in D /\ k - 1 # n)
      BY <2>2
    <3>2. k # 0 => g[k - 1] = f[k - 1]
      <4> HIDE DEF v, D
      <4> QED
        BY <3>1
    <3>3. CASE k = n
      <4>1. k # 0 /\ g[k] = v
        BY <3>3
      <4> QED
        BY <3>2, <3>3, <4>1
    <3>4. CASE k # n
      <4>1. g[k] = f[k]
        <5> HIDE DEF v, D
        <5> QED
          BY <3>4
      <4>2. f[k] = Step(f, k)
        BY <2>1, <2>2, <3>1, <3>4
      <4> QED
        BY <3>2, <4>1, <4>2
    <3> QED
      BY <3>3, <3>4
  <2> HIDE DEF g, Step
  <2>3. Upto(n, g)
    BY <2>2
  <2> HIDE DEF Upto
  <2> QED
    BY <2>3
<1>3. \A n \in D : n \in T
  <2> HIDE DEF T
  <2>1. Len(l) + 1 \in Nat
    OBVIOUS
  <2> QED
    BY <1>1, <1>2, <2>1, Upward
<1>4. PICK f0 : Upto(Len(l) + 1, f0)
  <2> HIDE DEF Upto
  <2>1. Len(l) + 1 \in D
    OBVIOUS
  <2> QED
    BY <1>3, <2>1
<1> DEFINE f == [k \in D |-> f0[k]]
<1>5. f = [n \in D |-> Step(f, n)]
  <2>1. \A n \in D : f[n] = f0[n] /\ (n # 0 => f[n - 1] = f0[n - 1])
    OBVIOUS
  <2>2. \A n \in D : f0[n] = Step(f, n)
    BY <1>4, <2>1
  <2> QED
    BY <2>2
<1> DEFINE round == CHOOSE h : h = [n \in D |-> Step(h, n)]
<1>6. round = [n \in D |-> Step(round, n)]
  BY <1>5
<1>7. Merged(a, start, end) = round[Len(l) + 1]
  BY DEF Merged, MergeStart
<1> HIDE DEF round
<1>8. round[0] = MergeStart(start, end) /\ \A n \in 1 .. Len(l) + 1 : round[n] = Merge(a, round[n - 1])
  <2>1. \A n \in D : round[n] = Step(round, n)
    BY <1>6
  <2>2. 0 \in D /\ \A n \in 1 .. Len(l) + 1 : n \in D /\ n # 0
    OBVIOUS
  <2> QED
    BY <2>1, <2>2
<1> QED
  BY <1>7, <1>8

-----------------------------------------------------------------------------
(* ashmem_pin *)

(* What is left of a range that is not deleted. *)
Left(r, start, end) ==
  IF r.pgstart >= start THEN Cut(r, end + 1, r.pgend)
  ELSE Cut(r, r.pgstart, start - 1)

(* A range that is hit has its pages on the side where it is cut. *)
LEMMA LeftFits ==
  ASSUME NEW r, IsRange(r), NEW start \in Nat, NEW end \in Nat, start <= end + 1,
         page_range_in_range(r, start, end), ~page_range_subsumes_range(r, start, end)
  PROVE  /\ r.pgstart >= start =>
              end + 1 >= r.pgstart /\ end + 1 <= r.pgend + 1 /\ r.pgend > end
         /\ ~(r.pgstart >= start) =>
              start - 1 \in Nat /\ start - 1 <= r.pgend /\ r.pgstart <= (start - 1) + 1
BY RangeTypes DEF page_range_in_range, page_range_subsumes_range, page_in_range

LEMMA LeftIs ==
  ASSUME NEW r, IsRange(r), NEW start \in Nat, NEW end \in Nat, start <= end + 1,
         page_range_in_range(r, start, end), ~page_range_subsumes_range(r, start, end),
         NEW x, x = Left(r, start, end)
  PROVE  /\ IsRange(x) /\ x.asma = r.asma /\ x.purged = r.purged
         /\ x.pgstart >= r.pgstart /\ x.pgend <= r.pgend
<1>1. /\ r.pgstart \in Nat /\ r.pgend \in Nat
      /\ r \in [asma : Areas, pgstart : Nat, pgend : Nat, purged : BOOLEAN]
  BY DEF IsRange
<1>2. CASE r.pgstart >= start
  <2>1. end + 1 >= r.pgstart /\ end + 1 <= r.pgend + 1
    BY <1>2, LeftFits
  <2>2. x = [r EXCEPT !.pgstart = end + 1, !.pgend = r.pgend] /\ end + 1 \in Nat
    BY <1>2 DEF Left, Cut
  <2>3. /\ x \in [asma : Areas, pgstart : Nat, pgend : Nat, purged : BOOLEAN]
        /\ x.asma = r.asma /\ x.purged = r.purged /\ x.pgstart = end + 1 /\ x.pgend = r.pgend
    BY <1>1, <2>2
  <2> QED
    BY <1>1, <2>1, <2>3 DEF IsRange
<1>3. CASE ~(r.pgstart >= start)
  <2>1. start - 1 \in Nat /\ start - 1 <= r.pgend /\ r.pgstart <= (start - 1) + 1
    BY <1>3, LeftFits
  <2>2. x = [r EXCEPT !.pgstart = r.pgstart, !.pgend = start - 1]
    BY <1>3 DEF Left, Cut
  <2>3. /\ x \in [asma : Areas, pgstart : Nat, pgend : Nat, purged : BOOLEAN]
        /\ x.asma = r.asma /\ x.purged = r.purged /\ x.pgstart = r.pgstart /\ x.pgend = start - 1
    BY <1>1, <2>1, <2>2
  <2> QED
    BY <1>1, <2>1, <2>3 DEF IsRange
<1> QED
  BY <1>2, <1>3

(* A range that is hit is deleted or cut. *)
LEMMA PinRangeGood ==
  ASSUME NEW s, Good(s), NEW i \in DOMAIN s.range,
         NEW start \in Nat, NEW end \in Nat, start <= end + 1,
         page_range_in_range(s.range[i], start, end), NEW t, t = PinRange(s, i, start, end)
  PROVE  /\ Good(t)
         /\ page_range_subsumes_range(s.range[i], start, end) => Gone(t.range, s.range, i)
         /\ ~page_range_subsumes_range(s.range[i], start, end) =>
              Changed(t.range, s.range, i, Left(s.range[i], start, end))
<1> DEFINE r == s.range[i]
<1>0. IsRange(r) /\ r.pgstart \in Nat /\ r.pgend \in Nat
  BY RangeTypes DEF Good, IsLists
<1>1. CASE page_range_subsumes_range(s.range[i], start, end)
  <2>1. t = range_del(s, i)
    BY <1>1 DEF PinRange
  <2>2. Good(t) /\ Gone(t.range, s.range, i)
    BY <2>1, DelGood
  <2> QED
    BY <1>1, <2>2
<1>2. CASE ~page_range_subsumes_range(s.range[i], start, end) /\ r.pgstart >= start
  <2>1. t = range_shrink(s, i, end + 1, r.pgend)
    BY <1>2 DEF PinRange
  <2>2. end + 1 >= r.pgstart /\ end + 1 <= r.pgend + 1
    BY <1>0, <1>2, LeftFits
  <2>3. end + 1 \in Nat /\ r.pgend <= r.pgend
    BY <1>0
  <2> DEFINE u == end + 1
             v == r.pgend
  <2>4. /\ u \in Nat /\ v \in Nat /\ u >= s.range[i].pgstart /\ v <= s.range[i].pgend
        /\ u <= v + 1 /\ t = range_shrink(s, i, u, v)
    BY <1>0, <2>1, <2>2, <2>3
  <2> HIDE DEF u, v
  <2>5. Good(t) /\ Changed(t.range, s.range, i, Cut(s.range[i], u, v))
    BY <2>4, ShrinkGood
  <2>6. Left(s.range[i], start, end) = Cut(s.range[i], u, v)
    BY <1>2 DEF Left, u, v
  <2> QED
    BY <1>2, <2>5, <2>6
<1>3. CASE ~page_range_subsumes_range(s.range[i], start, end) /\ ~(r.pgstart >= start)
  <2>1. t = range_shrink(s, i, r.pgstart, start - 1)
    BY <1>3 DEF PinRange
  <2>2. start - 1 \in Nat /\ start - 1 <= r.pgend /\ r.pgstart <= (start - 1) + 1
    BY <1>0, <1>3, LeftFits
  <2>3. r.pgstart >= r.pgstart
    BY <1>0
  <2> DEFINE u == r.pgstart
             v == start - 1
  <2>4. /\ u \in Nat /\ v \in Nat /\ u >= s.range[i].pgstart /\ v <= s.range[i].pgend
        /\ u <= v + 1 /\ t = range_shrink(s, i, u, v)
    BY <1>0, <2>1, <2>2, <2>3
  <2> HIDE DEF u, v
  <2>5. Good(t) /\ Changed(t.range, s.range, i, Cut(s.range[i], u, v))
    BY <2>4, ShrinkGood
  <2>6. Left(s.range[i], start, end) = Cut(s.range[i], u, v)
    BY <1>3 DEF Left, u, v
  <2> QED
    BY <1>3, <2>5, <2>6
<1> QED
  BY <1>1, <1>2, <1>3

LEMMA PinnedHit ==
  ASSUME Good(Lists), NEW a \in Areas, NEW start, NEW end, NEW i \in Pinned(a, start, end)
  PROVE  /\ i \in DOMAIN range /\ IsRange(range[i]) /\ range[i].asma = a
         /\ page_range_in_range(range[i], start, end)
<1> DEFINE l == unpinned_list[a]
<1>1. /\ Len(l) \in Nat /\ l \in Seq(Ids)
      /\ \A k \in 1 .. Len(l) : l[k] \in DOMAIN range /\ range[l[k]].asma = a
      /\ \A j \in DOMAIN range : IsRange(range[j])
  BY ListOf
<1>2. PICK k \in Hits(range, l, start, end) : i = l[k]
  BY DEF Pinned
<1>3. k \in 1 .. Len(l) /\ page_range_in_range(range[l[k]], start, end)
  BY <1>1, <1>2 DEF Hits, Reached
<1> QED
  BY <1>1, <1>2, <1>3

(* The ranges after the loop. *)
PinResult(rng, P, start, end) ==
  /\ DOMAIN rng = DOMAIN range \ {i \in P : page_range_subsumes_range(range[i], start, end)}
  /\ \A j \in DOMAIN rng : rng[j] = IF j \in P THEN Left(range[j], start, end) ELSE range[j]

LEMMA PinRangesGood ==
  ASSUME Good(Lists), NEW a \in Areas, NEW start \in Nat, NEW end \in Nat, start <= end + 1
  PROVE  /\ Good(PinRanges(a, start, end))
         /\ PinResult(PinRanges(a, start, end).range, Pinned(a, start, end), start, end)
<1> DEFINE l == unpinned_list[a]
           P == Pinned(a, start, end)
<1>1. /\ l \in Seq(Ids) /\ Len(l) \in Nat
      /\ \A j, k \in 1 .. Len(l) : j # k => l[j] # l[k]
      /\ \A k \in 1 .. Len(l) : l[k] \in DOMAIN range
  BY ListOf
<1>2. P \subseteq {l[k] : k \in 1 .. Len(l)}
  BY <1>1 DEF Pinned, Hits, Reached
<1>3. PICK f : /\ f[0] = Lists /\ PinRanges(a, start, end) = f[Len(l)]
               /\ \A n \in 1 .. Len(l) : f[n] = PinStep(f[n - 1], l[n], P, start, end)
  BY <1>1, PinRangesIs
<1>4. \A i \in P : page_range_in_range(range[i], start, end)
  BY PinnedHit
<1> HIDE DEF l, P
<1> DEFINE Done(n) == {l[k] : k \in 1 .. n} \cap P
           R(n) == Good(f[n]) /\ PinResult(f[n].range, Done(n), start, end)
           T == {n \in 0 .. Len(l) : R(n)}
<1>5. 0 \in T
  <2>1. Done(0) = {}
    OBVIOUS
  <2>2. f[0].range = range /\ Good(f[0])
    BY <1>3, ListsIs
  <2> HIDE DEF Done
  <2>3. PinResult(f[0].range, Done(0), start, end)
    BY <2>1, <2>2 DEF PinResult
  <2> QED
    BY <1>1, <2>2, <2>3
<1>6. ASSUME NEW n \in 1 .. Len(l), n - 1 \in T
      PROVE  n \in T
  <2> DEFINE s == f[n - 1]
             t == f[n]
             i == l[n]
             Q == Done(n - 1)
             q == Done(n)
  <2>1. Good(s) /\ PinResult(s.range, Q, start, end)
    BY <1>6
  <2>2. i \in DOMAIN range /\ i \notin Q /\ q = IF i \in P THEN Q \cup {i} ELSE Q
    BY <1>1
  <2>3. t = PinStep(s, i, P, start, end) /\ n \in 0 .. Len(l)
    BY <1>3
  <2>4. R(n) <=> Good(t) /\ PinResult(t.range, q, start, end)
    OBVIOUS
  <2> HIDE DEF s, t, i, Q, q
  <2>5. i \in DOMAIN s.range /\ s.range[i] = range[i]
    BY <2>1, <2>2 DEF PinResult
  <2>6. CASE i \notin P
    BY <2>1, <2>2, <2>3, <2>4, <2>6 DEF PinStep
  <2>7. CASE i \in P
    <3>1. t = PinRange(s, i, start, end) /\ q = Q \cup {i}
      BY <2>2, <2>3, <2>7 DEF PinStep
    <3>2. page_range_in_range(s.range[i], start, end)
      BY <1>4, <2>5, <2>7
    <3>3. /\ Good(t)
          /\ page_range_subsumes_range(range[i], start, end) => Gone(t.range, s.range, i)
          /\ ~page_range_subsumes_range(range[i], start, end) =>
               Changed(t.range, s.range, i, Left(range[i], start, end))
      BY <2>1, <2>5, <3>1, <3>2, PinRangeGood
    <3>4. CASE page_range_subsumes_range(range[i], start, end)
      <4>1. Gone(t.range, s.range, i)
        BY <3>3, <3>4
      <4>2. PinResult(t.range, q, start, end)
        BY <2>1, <3>1, <3>4, <4>1 DEF Gone, PinResult
      <4> QED
        BY <2>3, <2>4, <3>3, <4>2
    <3>5. CASE ~page_range_subsumes_range(range[i], start, end)
      <4>1. Changed(t.range, s.range, i, Left(range[i], start, end))
        BY <3>3, <3>5
      <4>2. PinResult(t.range, q, start, end)
        BY <2>1, <2>5, <3>1, <3>5, <4>1 DEF Changed, PinResult
      <4> QED
        BY <2>3, <2>4, <3>3, <4>2
    <3> QED
      BY <3>4, <3>5
  <2> QED
    BY <2>6, <2>7
<1>7. \A n \in 0 .. Len(l) : n \in T
  <2> HIDE DEF T
  <2> QED
    BY <1>1, <1>5, <1>6, Upward
<1>8. R(Len(l)) /\ Done(Len(l)) = P
  <2>1. Len(l) \in 0 .. Len(l)
    BY <1>1
  <2>2. Done(Len(l)) = P
    BY <1>2
  <2> HIDE DEF R, Done
  <2> QED
    BY <1>7, <2>1, <2>2
<1>9. Good(f[Len(l)]) /\ PinResult(f[Len(l)].range, P, start, end)
  BY <1>8
<1> QED
  BY <1>3, <1>9 DEF P

LEMMA HoleLeft ==
  ASSUME NEW r, IsRange(r), NEW start \in Nat, NEW end \in Nat, start <= end + 1,
         Hole(r, start, end), NEW x, x = Left(r, start, end)
  PROVE  /\ ~page_range_subsumes_range(r, start, end)
         /\ x.pgstart = r.pgstart /\ x.pgend = start - 1 /\ r.pgstart < start /\ r.pgend > end
<1>1. /\ r.pgstart \in Nat /\ r.pgend \in Nat
      /\ r \in [asma : Areas, pgstart : Nat, pgend : Nat, purged : BOOLEAN]
  BY DEF IsRange
<1>2. r.pgstart < start /\ r.pgend > end
  BY DEF Hole
<1>3. ~(r.pgstart >= start)
  BY <1>1, <1>2
<1>4. x = [r EXCEPT !.pgstart = r.pgstart, !.pgend = start - 1]
  BY <1>3 DEF Left, Cut
<1>5. x.pgstart = r.pgstart /\ x.pgend = start - 1
  BY <1>1, <1>4
<1> QED
  BY <1>2, <1>3, <1>5 DEF page_range_subsumes_range

(* The ranges that are left have only lost pages. *)
LEMMA PinShrinks ==
  ASSUME Good(Lists), NEW a \in Areas, NEW start \in Nat, NEW end \in Nat, start <= end + 1,
         NEW rng, PinResult(rng, Pinned(a, start, end), start, end), NEW j \in DOMAIN rng
  PROVE  /\ j \in DOMAIN range /\ rng[j].asma = range[j].asma
         /\ rng[j].purged = range[j].purged
         /\ rng[j].pgstart >= range[j].pgstart /\ rng[j].pgend <= range[j].pgend
<1> DEFINE P == Pinned(a, start, end)
<1>1. /\ j \in DOMAIN range /\ ~(j \in P /\ page_range_subsumes_range(range[j], start, end))
      /\ rng[j] = IF j \in P THEN Left(range[j], start, end) ELSE range[j]
  BY DEF PinResult
<1>2. IsRange(range[j]) /\ range[j].pgstart \in Nat /\ range[j].pgend \in Nat
  BY <1>1, ListsIs, RangeTypes DEF Good, IsLists
<1>3. CASE j \notin P
  BY <1>1, <1>2, <1>3
<1>4. CASE j \in P
  <2>1. page_range_in_range(range[j], start, end)
    BY <1>4, PinnedHit
  <2> HIDE DEF P
  <2> QED
    BY <1>1, <1>2, <1>4, <2>1, LeftIs
<1> QED
  BY <1>3, <1>4

Upper(r, end) == [r EXCEPT !.pgstart = end + 1]

LEMMA UpperIs ==
  ASSUME NEW r, IsRange(r), NEW end \in Nat, r.pgend > end, NEW x, x = Upper(r, end)
  PROVE  /\ IsRange(x) /\ x.asma = r.asma /\ x.purged = r.purged
         /\ x.pgstart = end + 1 /\ x.pgend = r.pgend
<1>1. /\ r.pgstart \in Nat /\ r.pgend \in Nat
      /\ r \in [asma : Areas, pgstart : Nat, pgend : Nat, purged : BOOLEAN]
  BY DEF IsRange
<1>2. /\ x \in [asma : Areas, pgstart : Nat, pgend : Nat, purged : BOOLEAN]
      /\ x.asma = r.asma /\ x.purged = r.purged /\ x.pgstart = end + 1 /\ x.pgend = r.pgend
  BY <1>1 DEF Upper
<1> QED
  BY <1>1, <1>2 DEF IsRange

(* The upper part of a hole goes before the lower one. *)
LEMMA UpperFits ==
  ASSUME Good(Lists), NEW a \in Areas, NEW start \in Nat, NEW end \in Nat, start <= end + 1,
         NEW h \in Pinned(a, start, end), Hole(range[h], start, end),
         NEW s, s = PinRanges(a, start, end),
         NEW at, at = SelectInSeq(s.list[a], LAMBDA i : i = h)
  PROVE  Fits(s.range, s.list[a], at, Upper(range[h], end))
<1> DEFINE l == s.list[a]
           P == Pinned(a, start, end)
<1>1. Good(s) /\ PinResult(s.range, P, start, end)
  BY PinRangesGood
<1>2. h \in DOMAIN range /\ IsRange(range[h]) /\ range[h].asma = a
  BY PinnedHit
<1>3. /\ ~page_range_subsumes_range(range[h], start, end)
      /\ Left(range[h], start, end).pgstart = range[h].pgstart
      /\ Left(range[h], start, end).pgend = start - 1
      /\ range[h].pgstart < start /\ range[h].pgend > end
      /\ range[h].pgstart \in Nat /\ range[h].pgend \in Nat
  BY <1>2, HoleLeft, RangeTypes
<1>4. /\ h \in DOMAIN s.range /\ s.range[h] = Left(range[h], start, end)
  BY <1>1, <1>2, <1>3 DEF PinResult
<1>5. s.range[h].pgstart = range[h].pgstart /\ s.range[h].pgend = start - 1
  BY <1>3, <1>4
<1>6. \A j \in DOMAIN s.range : /\ j \in DOMAIN range /\ s.range[j].asma = range[j].asma
                                /\ s.range[j].pgstart >= range[j].pgstart
                                /\ s.range[j].pgend <= range[j].pgend
  BY <1>1, PinShrinks
<1>7. /\ IsLists(s) /\ Listed(s.range, l, a) /\ l \in Seq(Ids) /\ Len(l) \in Nat
      /\ \A j \in DOMAIN s.range : IsRange(s.range[j])
  BY <1>1 DEF Good, IsLists, Sorted
<1> HIDE DEF l
<1>8. at \in 1 .. Len(l) /\ l[at] = h
  <2> DEFINE I == {i \in 1 .. Len(l) : l[i] = h}
  <2>1. I \in SUBSET Nat /\ I # {}
    <3>1. \E k \in 1 .. Len(l) : l[k] = h
      BY <1>2, <1>4, <1>6, <1>7 DEF Listed
    <3> QED
      BY <3>1
  <2>2. Min(I) \in I
    BY <2>1, MinIs
  <2>3. at = Min(I)
    BY <2>1 DEF SelectInSeq, l
  <2> QED
    BY <2>2, <2>3
<1> DEFINE u == Upper(range[h], end)
<1>9. u.pgstart = end + 1 /\ u.pgend = range[h].pgend
  BY <1>2, <1>3, UpperIs
<1> HIDE DEF u
<1>10. ASSUME NEW k \in 1 .. Len(l), k >= at
       PROVE  u.pgstart > s.range[l[k]].pgend
  <2>1. CASE k = at
    <3>1. start - 1 < end + 1
      OBVIOUS
    <3> QED
      BY <1>5, <1>8, <1>9, <2>1, <3>1
  <2>2. CASE k # at
    <3>1. at < k
      BY <1>7, <1>8, <1>10, <2>2
    <3>2. s.range[l[at]].pgstart > s.range[l[k]].pgend /\ l[k] \in DOMAIN s.range
      BY <1>7, <1>8, <3>1 DEF Listed
    <3>3. s.range[l[k]].pgend \in Nat
      BY <1>7, <3>2, RangeTypes
    <3>4. range[h].pgstart > s.range[l[k]].pgend
      BY <1>5, <1>8, <3>2
    <3> DEFINE x == s.range[l[k]].pgend
               y == range[h].pgstart
    <3>5. x \in Nat /\ y \in Nat /\ y > x /\ y < start
      BY <1>3, <3>3, <3>4
    <3> HIDE DEF x, y
    <3>6. end + 1 > x
      BY <3>5
    <3> QED
      BY <1>9, <3>6 DEF x
  <2> QED
    BY <2>1, <2>2
<1>11. ASSUME NEW k \in 1 .. Len(l), k < at
       PROVE  s.range[l[k]].pgstart > u.pgend
  <2> DEFINE j == l[k]
  <2>1. j \in DOMAIN s.range /\ s.range[j].asma = a /\ j # h /\ s.range[j].pgstart > s.range[h].pgend
    BY <1>7, <1>8, <1>11 DEF Listed
  <2> HIDE DEF j
  <2>2. /\ j \in DOMAIN range /\ range[j].asma = a /\ IsRange(range[j])
    BY <1>6, <2>1, ListsIs DEF Good, IsLists
  <2>3. \/ range[j].pgstart > range[h].pgend
        \/ range[h].pgstart > range[j].pgend
    <3>1. IsLists(Lists) /\ Sorted(Lists.range, Lists.list)
      BY DEF Good
    <3> QED
      BY <1>2, <2>1, <2>2, <3>1, Apart, ListsIs
  <2>4. /\ s.range[j].pgstart \in Nat /\ s.range[j].pgend \in Nat
        /\ s.range[j].pgstart <= s.range[j].pgend + 1
    BY <1>7, <2>1, RangeTypes
  <2>5. range[j].pgstart \in Nat /\ range[j].pgend \in Nat
    BY <2>2, RangeTypes
  <2>6. s.range[j].pgstart >= range[j].pgstart /\ s.range[j].pgend <= range[j].pgend
    BY <1>6, <2>1
  <2>7. s.range[j].pgstart > start - 1
    BY <1>5, <2>1
  <2>8. s.range[j].pgstart > range[h].pgend
    <3> DEFINE x == s.range[j].pgstart
               y == s.range[j].pgend
               o == range[j].pgstart
               p == range[j].pgend
               v == range[h].pgstart
               w == range[h].pgend
    <3>1. x \in Nat /\ y \in Nat /\ o \in Nat /\ p \in Nat /\ v \in Nat /\ w \in Nat
      BY <1>3, <2>4, <2>5
    <3>2. /\ o > w \/ v > p
          /\ x <= y + 1 /\ x >= o /\ y <= p /\ x > start - 1 /\ v < start
      BY <1>3, <2>3, <2>4, <2>6, <2>7
    <3> HIDE DEF x, y, o, p, v, w
    <3>3. x > w
      BY <3>1, <3>2
    <3> QED
      BY <3>3 DEF x, w
  <2> QED
    BY <1>9, <2>8 DEF j
<1>12. at \in 1 .. Len(l) + 1
  BY <1>7, <1>8
<1> QED
  BY <1>10, <1>11, <1>12 DEF Fits, l, u

(* A hole becomes two ranges, in their places. *)
LEMMA PinAllocGood ==
  ASSUME Good(Lists), NEW a \in Areas, NEW start \in Nat, NEW end \in Nat, start <= end + 1,
         NEW h \in Pinned(a, start, end), Hole(range[h], start, end),
         NEW s, s = PinRanges(a, start, end), NEW new \in Free(s),
         NEW at, at = SelectInSeq(s.list[a], LAMBDA i : i = h),
         NEW t, t = range_alloc(s, new, at, Upper(range[h], end))
  PROVE  Good(t) /\ Added(t.range, s.range, new, Upper(range[h], end))
<1> DEFINE u == Upper(range[h], end)
<1>1. Good(s)
  BY PinRangesGood
<1>2. h \in DOMAIN range /\ IsRange(range[h]) /\ range[h].asma = a
  BY PinnedHit
<1>3. range[h].pgend > end
  BY DEF Hole
<1>4. IsRange(u) /\ u.asma = a
  BY <1>2, <1>3, UpperIs
<1>5. Fits(s.range, s.list[u.asma], at, u)
  BY <1>4, UpperFits
<1>6. new \in Ids \ DOMAIN s.range /\ t = range_alloc(s, new, at, u)
  BY DEF Free
<1> HIDE DEF u
<1>7. Good(t) /\ Added(t.range, s.range, new, u)
  BY <1>1, <1>4, <1>5, <1>6, AllocGood
<1> QED
  BY <1>7 DEF u

-----------------------------------------------------------------------------
(* ashmem_unpin *)

LEMMA MinMaxOfTwo ==
  ASSUME NEW u \in Nat, NEW v \in Nat
  PROVE  /\ Min({u, v}) = IF u <= v THEN u ELSE v
         /\ Max({u, v}) = IF u <= v THEN v ELSE u
BY DEF Min, Max

(* A range and the pages that hit it make one interval. *)
LEMMA Joined ==
  ASSUME NEW r, IsRange(r), NEW u \in Nat, NEW v \in Nat, u <= v + 1,
         page_range_in_range(r, u, v),
         NEW x, x = Min({r.pgstart, u}), NEW y, y = Max({r.pgend, v})
  PROVE  /\ x \in Nat /\ y \in Nat /\ x <= y + 1
         /\ u .. v \subseteq x .. y /\ r.pgstart .. r.pgend \subseteq x .. y
         /\ x .. y \subseteq (u .. v) \cup (r.pgstart .. r.pgend)
<1> DEFINE o == r.pgstart
           p == r.pgend
<1>1. o \in Nat /\ p \in Nat /\ o <= p + 1
  BY RangeTypes
<1>2. (o <= u /\ u <= p) \/ (o <= v /\ v <= p) \/ (o >= u /\ p <= v)
  BY DEF page_range_in_range, page_in_range, page_range_subsumes_range
<1> HIDE DEF o, p
<1>3. x = (IF o <= u THEN o ELSE u) /\ y = (IF p <= v THEN v ELSE p)
  BY <1>1, MinMaxOfTwo DEF o, p
<1>4. x \in Nat /\ y \in Nat /\ x <= y + 1 /\ x <= o /\ x <= u /\ p <= y /\ v <= y
  BY <1>1, <1>3
<1>5. u .. v \subseteq x .. y /\ o .. p \subseteq x .. y
  BY <1>1, <1>4
<1>6. ASSUME NEW z \in x .. y PROVE z \in (u .. v) \cup (o .. p)
  <2>1. z \in Int /\ x <= z /\ z <= y
    BY <1>4
  <2>2. (u <= z /\ z <= v) \/ (o <= z /\ z <= p)
    BY <1>1, <1>2, <1>3, <2>1
  <2> QED
    BY <1>1, <2>1, <2>2
<1> QED
  BY <1>4, <1>5, <1>6 DEF o, p

(* Some ranges of a are gone, the others are as they were. *)
Fewer(rng, a) ==
  /\ DOMAIN rng \subseteq DOMAIN range
  /\ \A j \in DOMAIN rng : rng[j] = range[j]
  /\ \A j \in DOMAIN range \ DOMAIN rng : range[j].asma = a

(* The pages of the merged range are those asked for and those of the      *)
(* ranges that are gone; if one of these was purged it counts as purged.   *)
Covers(m, a, start, end) ==
  /\ start .. end \subseteq m.pgstart .. m.pgend
  /\ m.pgstart .. m.pgend \subseteq (start .. end) \cup Unpinned(range, a)
  /\ \A j \in DOMAIN range \ DOMAIN m.lists.range :
       /\ range[j].pgstart .. range[j].pgend \subseteq m.pgstart .. m.pgend
       /\ range[j].purged => m.purged
  /\ m.inside => \E j \in DOMAIN m.lists.range :
                   /\ m.lists.range[j].asma = a
                   /\ m.pgstart .. m.pgend \subseteq
                        m.lists.range[j].pgstart .. m.lists.range[j].pgend

IsMerge(m) ==
  /\ m = [pgstart |-> m.pgstart, pgend |-> m.pgend, purged |-> m.purged,
          lists |-> m.lists, inside |-> m.inside]
  /\ m.pgstart \in Nat /\ m.pgend \in Nat /\ m.pgstart <= m.pgend + 1
  /\ m.purged \in BOOLEAN /\ m.inside \in BOOLEAN /\ Good(m.lists)

MergeHits(m, a) == Hits(m.lists.range, m.lists.list[a], m.pgstart, m.pgend)

MergeInv(m, a, start, end) ==
  IsMerge(m) /\ Fewer(m.lists.range, a) /\ Covers(m, a, start, end)

(* The loop has ended. *)
Stopped(m, a) == m.inside \/ MergeHits(m, a) = {}

(* The range that a round of the loop meets. *)
Met(m, a) == m.lists.list[a][Min(MergeHits(m, a))]

LEMMA MetIs ==
  ASSUME NEW m, IsMerge(m), NEW a \in Areas, MergeHits(m, a) # {},
         NEW i, i = Met(m, a)
  PROVE  /\ i \in DOMAIN m.lists.range /\ IsRange(m.lists.range[i])
         /\ m.lists.range[i].asma = a
         /\ page_range_in_range(m.lists.range[i], m.pgstart, m.pgend)
<1> DEFINE s == m.lists
           l == s.list[a]
           H == MergeHits(m, a)
<1>1. /\ l \in Seq(Ids) /\ Listed(s.range, l, a)
      /\ \A j \in DOMAIN s.range : IsRange(s.range[j])
  BY DEF IsMerge, Good, IsLists, Sorted
<1>2. /\ H \subseteq 1 .. Len(l)
      /\ \A k \in H : page_range_in_range(s.range[l[k]], m.pgstart, m.pgend)
  BY <1>1 DEF MergeHits, Hits, Reached
<1>3. Min(H) \in H
  <2> HIDE DEF H
  <2>1. H \in SUBSET Nat /\ H # {}
    BY <1>2 DEF H
  <2> QED
    BY <2>1, MinIs
<1>4. i = l[Min(H)]
  BY DEF Met
<1> QED
  BY <1>1, <1>2, <1>3, <1>4 DEF Listed

(* The three ways a round can go. *)
MergeInside(m, t) ==
  /\ t.pgstart = m.pgstart /\ t.pgend = m.pgend /\ t.purged = m.purged
  /\ t.lists = m.lists /\ t.inside = TRUE
MergeJoin(m, t, i) ==
  /\ t.pgstart = Min({m.lists.range[i].pgstart, m.pgstart})
  /\ t.pgend = Max({m.lists.range[i].pgend, m.pgend})
  /\ t.purged = Purged(m, m.lists.range[i])
  /\ t.lists = range_del(m.lists, i) /\ t.inside = m.inside

LEMMA MergeCases ==
  ASSUME NEW m, IsMerge(m), NEW a \in Areas, NEW t, t = Merge(a, m),
         NEW i, i = Met(m, a)
  PROVE  /\ Stopped(m, a) => t = m
         /\ ~Stopped(m, a) =>
              /\ t = [pgstart |-> t.pgstart, pgend |-> t.pgend, purged |-> t.purged,
                      lists |-> t.lists, inside |-> t.inside]
              /\ page_range_subsumed_by_range(m.lists.range[i], m.pgstart, m.pgend) =>
                   MergeInside(m, t)
              /\ ~page_range_subsumed_by_range(m.lists.range[i], m.pgstart, m.pgend) =>
                   MergeJoin(m, t, i)
<1>1. m = [pgstart |-> m.pgstart, pgend |-> m.pgend, purged |-> m.purged,
           lists |-> m.lists, inside |-> m.inside]
  BY DEF IsMerge
<1>2. CASE Stopped(m, a)
  BY <1>2 DEF Stopped, Merge, MergeHits
<1>3. CASE ~Stopped(m, a) /\ page_range_subsumed_by_range(m.lists.range[i], m.pgstart, m.pgend)
  <2>1. t = [m EXCEPT !.inside = TRUE]
    BY <1>3 DEF Stopped, Merge, MergeHits, Met
  <2> QED
    BY <1>1, <1>3, <2>1 DEF MergeInside
<1>4. CASE ~Stopped(m, a) /\ ~page_range_subsumed_by_range(m.lists.range[i], m.pgstart, m.pgend)
  <2> DEFINE r == m.lists.range[i]
  <2>1. t = [m EXCEPT !.pgstart = Min({r.pgstart, m.pgstart}),
                      !.pgend = Max({r.pgend, m.pgend}),
                      !.purged = Purged(m, r),
                      !.lists = range_del(m.lists, i)]
    BY <1>4 DEF Stopped, Merge, MergeHits, Met
  <2> QED
    BY <1>1, <1>4, <2>1 DEF MergeJoin
<1> QED
  BY <1>2, <1>3, <1>4

LEMMA MergeInsideGood ==
  ASSUME NEW a \in Areas, NEW start \in Nat, NEW end \in Nat,
         NEW m, MergeInv(m, a, start, end), ~Stopped(m, a),
         NEW i, i = Met(m, a),
         page_range_subsumed_by_range(m.lists.range[i], m.pgstart, m.pgend),
         NEW t, t = Merge(a, m)
  PROVE  MergeInv(t, a, start, end) /\ Stopped(t, a)
<1>1. IsMerge(m) /\ Fewer(m.lists.range, a) /\ Covers(m, a, start, end)
  BY DEF MergeInv
<1>2. /\ t = [pgstart |-> t.pgstart, pgend |-> t.pgend, purged |-> t.purged,
              lists |-> t.lists, inside |-> t.inside]
      /\ MergeInside(m, t)
  BY <1>1, MergeCases
<1>3. /\ t.pgstart = m.pgstart /\ t.pgend = m.pgend /\ t.purged = m.purged
      /\ t.lists = m.lists /\ t.inside = TRUE
  BY <1>2 DEF MergeInside
<1>4. IsMerge(t)
  BY <1>1, <1>2, <1>3 DEF IsMerge
<1>5. /\ i \in DOMAIN m.lists.range /\ IsRange(m.lists.range[i])
      /\ m.lists.range[i].asma = a
  BY <1>1, MetIs DEF Stopped
<1>6. m.pgstart .. m.pgend \subseteq m.lists.range[i].pgstart .. m.lists.range[i].pgend
  <2> DEFINE o == m.lists.range[i].pgstart
             p == m.lists.range[i].pgend
  <2>1. o \in Nat /\ p \in Nat /\ m.pgstart \in Nat /\ m.pgend \in Nat
    BY <1>1, <1>5, RangeTypes DEF IsMerge
  <2>2. o <= m.pgstart /\ p >= m.pgend
    BY DEF page_range_subsumed_by_range
  <2> HIDE DEF o, p
  <2>3. m.pgstart .. m.pgend \subseteq o .. p
    BY <2>1, <2>2
  <2> QED
    BY <2>3 DEF o, p
<1>7. Covers(t, a, start, end)
  BY <1>1, <1>3, <1>5, <1>6 DEF Covers
<1> QED
  BY <1>1, <1>3, <1>4, <1>7 DEF MergeInv, Stopped

LEMMA MergeJoinGood ==
  ASSUME NEW a \in Areas, NEW start \in Nat, NEW end \in Nat,
         NEW m, MergeInv(m, a, start, end), ~Stopped(m, a),
         NEW i, i = Met(m, a),
         ~page_range_subsumed_by_range(m.lists.range[i], m.pgstart, m.pgend),
         NEW t, t = Merge(a, m)
  PROVE  /\ MergeInv(t, a, start, end)
         /\ Len(m.lists.list[a]) \in Nat
         /\ Len(t.lists.list[a]) = Len(m.lists.list[a]) - 1
<1> DEFINE s == m.lists
           r == s.range[i]
<1>1. IsMerge(m) /\ Fewer(s.range, a) /\ Covers(m, a, start, end)
  BY DEF MergeInv
<1>2. /\ t = [pgstart |-> t.pgstart, pgend |-> t.pgend, purged |-> t.purged,
              lists |-> t.lists, inside |-> t.inside]
      /\ MergeJoin(m, t, i)
  BY <1>1, MergeCases
<1>3. /\ t.pgstart = Min({r.pgstart, m.pgstart})
      /\ t.pgend = Max({r.pgend, m.pgend})
      /\ t.purged = Purged(m, r) /\ t.lists = range_del(s, i) /\ t.inside = m.inside
  BY <1>2 DEF MergeJoin
<1>4. /\ i \in DOMAIN s.range /\ IsRange(r) /\ r.asma = a
      /\ page_range_in_range(r, m.pgstart, m.pgend)
  BY <1>1, MetIs DEF Stopped
<1>5. /\ m.pgstart \in Nat /\ m.pgend \in Nat /\ m.pgstart <= m.pgend + 1 /\ Good(s)
      /\ m.purged \in BOOLEAN /\ m.inside \in BOOLEAN
  BY <1>1 DEF IsMerge
<1>6. /\ t.pgstart \in Nat /\ t.pgend \in Nat /\ t.pgstart <= t.pgend + 1
      /\ m.pgstart .. m.pgend \subseteq t.pgstart .. t.pgend
      /\ r.pgstart .. r.pgend \subseteq t.pgstart .. t.pgend
      /\ t.pgstart .. t.pgend \subseteq (m.pgstart .. m.pgend) \cup (r.pgstart .. r.pgend)
  BY <1>3, <1>4, <1>5, Joined
<1> DEFINE u == t.lists
<1>7. /\ Good(u) /\ Gone(u.range, s.range, i)
      /\ Len(s.list[a]) \in Nat /\ Len(u.list[a]) = Len(s.list[a]) - 1
  <2>1. Good(s) /\ i \in DOMAIN s.range /\ u = range_del(s, i) /\ s.range[i].asma = a
    BY <1>3, <1>4, <1>5
  <2> HIDE DEF s, u
  <2>2. /\ Good(u) /\ Gone(u.range, s.range, i)
        /\ Len(s.list[s.range[i].asma]) \in Nat
        /\ Len(u.list[s.range[i].asma]) = Len(s.list[s.range[i].asma]) - 1
    BY <2>1, DelGood
  <2> QED
    BY <2>1, <2>2
<1>8. r.purged \in BOOLEAN
  BY <1>4 DEF IsRange
<1>9. t.purged \in BOOLEAN /\ (m.purged => t.purged) /\ (r.purged => t.purged)
  <2>1. t.purged = (m.purged \/ r.purged)
    BY <1>3 DEF Purged
  <2> HIDE DEF r
  <2> QED
    BY <1>5, <1>8, <2>1, Zenon
<1>10. ~m.inside
  BY DEF Stopped
<1>11. IsMerge(t)
  BY <1>2, <1>3, <1>5, <1>6, <1>7, <1>9 DEF IsMerge
<1>12. r = range[i] /\ i \in DOMAIN range
  BY <1>1, <1>4 DEF Fewer
<1>13. DOMAIN u.range = DOMAIN s.range \ {i} /\ \A j \in DOMAIN u.range : u.range[j] = s.range[j]
  BY <1>7 DEF Gone
<1>14. Fewer(u.range, a)
  <2> HIDE DEF u, s
  <2>1. \A j \in DOMAIN range \ DOMAIN u.range : range[j].asma = a
    BY <1>1, <1>4, <1>12, <1>13 DEF Fewer
  <2> QED
    BY <1>1, <1>13, <2>1 DEF Fewer
<1>15. Covers(t, a, start, end)
  <2>1. r.pgstart .. r.pgend \subseteq Unpinned(range, a)
    BY <1>4, <1>12 DEF Unpinned
  <2>2. /\ start .. end \subseteq m.pgstart .. m.pgend
        /\ m.pgstart .. m.pgend \subseteq (start .. end) \cup Unpinned(range, a)
        /\ \A j \in DOMAIN range \ DOMAIN s.range :
             /\ range[j].pgstart .. range[j].pgend \subseteq m.pgstart .. m.pgend
             /\ range[j].purged => m.purged
    BY <1>1 DEF Covers
  <2> DEFINE I == m.pgstart .. m.pgend
             J == t.pgstart .. t.pgend
             K == r.pgstart .. r.pgend
  <2>3. I \subseteq J /\ K \subseteq J /\ J \subseteq I \cup K
    BY <1>6
  <2>4. ASSUME NEW j \in DOMAIN range \ DOMAIN u.range
        PROVE  range[j].pgstart .. range[j].pgend \subseteq J /\ (range[j].purged => t.purged)
    <3>1. CASE j = i
      BY <1>9, <1>12, <2>3, <3>1
    <3>2. CASE j # i
      <4>1. j \in DOMAIN range \ DOMAIN s.range
        BY <1>13, <2>4, <3>2
      <4>2. range[j].pgstart .. range[j].pgend \subseteq I /\ (range[j].purged => m.purged)
        BY <2>2, <4>1
      <4> HIDE DEF I, J
      <4> QED
        BY <1>9, <2>3, <4>2
    <3> QED
      BY <3>1, <3>2
  <2>5. start .. end \subseteq J /\ J \subseteq (start .. end) \cup Unpinned(range, a)
    <3> HIDE DEF J
    <3> QED
      BY <2>1, <2>2, <2>3
  <2>6. ~t.inside
    BY <1>3, <1>10
  <2> QED
    BY <2>4, <2>5, <2>6 DEF Covers
<1> QED
  BY <1>7, <1>11, <1>14, <1>15 DEF MergeInv

LEMMA MergeStartGood ==
  ASSUME Good(Lists), NEW a, NEW start \in Nat, NEW end \in Nat, start <= end + 1
  PROVE  MergeInv(MergeStart(start, end), a, start, end)
<1> DEFINE m == MergeStart(start, end)
<1>1. /\ m = [pgstart |-> m.pgstart, pgend |-> m.pgend, purged |-> m.purged,
              lists |-> m.lists, inside |-> m.inside]
      /\ m.pgstart = start /\ m.pgend = end /\ m.purged = FALSE /\ m.lists = Lists
      /\ m.inside = FALSE
  BY DEF MergeStart
<1> HIDE DEF m
<1>2. m.lists.range = range
  BY <1>1, ListsIs
<1>3. IsMerge(m)
  BY <1>1 DEF IsMerge
<1>4. Fewer(m.lists.range, a)
  BY <1>2 DEF Fewer
<1>5. Covers(m, a, start, end)
  BY <1>1, <1>2 DEF Covers
<1> QED
  BY <1>3, <1>4, <1>5 DEF MergeInv, m

(* Every round that does not end the loop takes a range off the list. *)
LEMMA MergedGood ==
  ASSUME Good(Lists), NEW a \in Areas, NEW start \in Nat, NEW end \in Nat, start <= end + 1
  PROVE  MergeInv(Merged(a, start, end), a, start, end) /\ Stopped(Merged(a, start, end), a)
<1> DEFINE l == unpinned_list[a]
<1>1. l \in Seq(Ids) /\ Len(l) \in Nat
  BY ListOf
<1>2. PICK f : /\ f[0] = MergeStart(start, end) /\ Merged(a, start, end) = f[Len(l) + 1]
               /\ \A n \in 1 .. Len(l) + 1 : f[n] = Merge(a, f[n - 1])
  BY <1>1, MergedIs
<1> DEFINE R(n) == /\ MergeInv(f[n], a, start, end)
                   /\ Stopped(f[n], a) \/ Len(f[n].lists.list[a]) <= Len(l) - n
           T == {n \in 0 .. Len(l) + 1 : R(n)}
<1>3. 0 \in T
  <2>1. MergeInv(f[0], a, start, end)
    BY <1>2, MergeStartGood
  <2>2. f[0].lists.list[a] = l
    BY <1>2, ListsIs DEF MergeStart
  <2> HIDE DEF l
  <2> QED
    BY <1>1, <2>1, <2>2
<1> HIDE DEF l
<1>4. ASSUME NEW n \in 1 .. Len(l) + 1, n - 1 \in T
      PROVE  n \in T
  <2> DEFINE m == f[n - 1]
             t == f[n]
             i == Met(m, a)
  <2>1. /\ MergeInv(m, a, start, end) /\ t = Merge(a, m)
        /\ Stopped(m, a) \/ Len(m.lists.list[a]) <= Len(l) - (n - 1)
    BY <1>2, <1>4
  <2>2. n \in 0 .. Len(l) + 1 /\ n \in Int
    BY <1>1
  <2>3. n \in T <=> R(n)
    BY <2>2
  <2>4. R(n) <=> /\ MergeInv(t, a, start, end)
                 /\ Stopped(t, a) \/ Len(t.lists.list[a]) <= Len(l) - n
    OBVIOUS
  <2> HIDE DEF m, t, i, R, T
  <2>5. CASE Stopped(m, a)
    <3>1. t = m
      BY <2>1, <2>5, MergeCases DEF MergeInv
    <3> QED
      BY <2>1, <2>3, <2>4, <2>5, <3>1
  <2>6. CASE ~Stopped(m, a) /\ page_range_subsumed_by_range(m.lists.range[i], m.pgstart, m.pgend)
    <3>1. MergeInv(t, a, start, end) /\ Stopped(t, a)
      BY <2>1, <2>6, MergeInsideGood DEF i
    <3> QED
      BY <2>3, <2>4, <3>1
  <2>7. CASE ~Stopped(m, a) /\ ~page_range_subsumed_by_range(m.lists.range[i], m.pgstart, m.pgend)
    <3>1. /\ MergeInv(t, a, start, end) /\ Len(m.lists.list[a]) \in Nat
          /\ Len(t.lists.list[a]) = Len(m.lists.list[a]) - 1
      BY <2>1, <2>7, MergeJoinGood DEF i
    <3>2. Len(t.lists.list[a]) <= Len(l) - n
      BY <1>1, <2>1, <2>2, <2>7, <3>1
    <3> QED
      BY <2>3, <2>4, <3>1, <3>2
  <2> QED
    BY <2>5, <2>6, <2>7
<1>5. \A n \in 0 .. Len(l) + 1 : n \in T
  <2> HIDE DEF T
  <2>1. Len(l) + 1 \in Nat
    BY <1>1
  <2> QED
    BY <1>3, <1>4, <2>1, Upward
<1> DEFINE m == f[Len(l) + 1]
<1>6. /\ MergeInv(m, a, start, end)
      /\ Stopped(m, a) \/ Len(m.lists.list[a]) <= Len(l) - (Len(l) + 1)
  <2>1. Len(l) + 1 \in 0 .. Len(l) + 1
    BY <1>1
  <2> QED
    BY <1>5, <2>1
<1> HIDE DEF m
<1>7. Len(m.lists.list[a]) \in Nat
  BY <1>6 DEF MergeInv, IsMerge, Good, IsLists
<1>8. Stopped(m, a)
  BY <1>1, <1>6, <1>7
<1> QED
  BY <1>2, <1>6, <1>8 DEF m

(* The merged range, and where the scan for it has ended. *)
NewRange(m, a) == [asma |-> a, pgstart |-> m.pgstart, pgend |-> m.pgend, purged |-> m.purged]
Place(m, a) ==
  LET list == m.lists.list[a]
  IN  Min({i \in DOMAIN list : range_before_page(m.lists.range[list[i]], m.pgstart)}
          \cup {Len(list) + 1})

LEMMA NewRangeIs ==
  ASSUME NEW m, IsMerge(m), NEW a \in Areas, NEW r, r = NewRange(m, a)
  PROVE  /\ IsRange(r) /\ r.asma = a /\ r.purged = m.purged
         /\ r.pgstart = m.pgstart /\ r.pgend = m.pgend
BY DEF IsMerge, NewRange, IsRange

LEMMA NewFits ==
  ASSUME NEW m, IsMerge(m), NEW a \in Areas, MergeHits(m, a) = {},
         NEW at, at = Place(m, a)
  PROVE  Fits(m.lists.range, m.lists.list[a], at, NewRange(m, a))
<1> DEFINE s == m.lists
           l == s.list[a]
           r == NewRange(m, a)
           u == m.pgstart
           v == m.pgend
           B == {i \in DOMAIN l : range_before_page(s.range[l[i]], u)} \cup {Len(l) + 1}
<1>1. /\ l \in Seq(Ids) /\ Len(l) \in Nat /\ DOMAIN l = 1 .. Len(l) /\ Listed(s.range, l, a)
      /\ \A j \in DOMAIN s.range : IsRange(s.range[j])
  BY DEF IsMerge, Good, IsLists, Sorted
<1>2. u \in Nat /\ v \in Nat /\ u <= v + 1
  BY DEF IsMerge
<1>3. r.pgstart = u /\ r.pgend = v
  BY NewRangeIs
<1>4. at \in B /\ \A k \in B : at <= k
  <2>1. at = Min(B)
    BY DEF Place
  <2>2. B \in SUBSET Nat /\ B # {}
    BY <1>1
  <2> HIDE DEF B
  <2> QED
    BY <2>1, <2>2, MinIs
<1>5. at \in 1 .. Len(l) + 1
  BY <1>1, <1>4
<1>6. Hits(s.range, l, u, v) = {}
  BY DEF MergeHits
<1> HIDE DEF s, l, r, u, v
<1>7. \A k \in 1 .. Len(l) : /\ l[k] \in DOMAIN s.range
                             /\ s.range[l[k]].pgstart \in Nat /\ s.range[l[k]].pgend \in Nat
                             /\ s.range[l[k]].pgstart <= s.range[l[k]].pgend + 1
  BY <1>1, RangeTypes DEF Listed
<1>8. ASSUME NEW k \in 1 .. Len(l), k < at
      PROVE  s.range[l[k]].pgstart > v
  <2>1. \A j \in 1 .. k : ~range_before_page(s.range[l[j]], u)
    BY <1>1, <1>4, <1>5, <1>8
  <2>2. k \in Reached(s.range, l, u)
    BY <1>1, <2>1 DEF Reached
  <2>3. ~page_range_in_range(s.range[l[k]], u, v)
    BY <1>6, <2>2 DEF Hits
  <2>4. ~range_before_page(s.range[l[k]], u)
    BY <2>1
  <2> DEFINE o == s.range[l[k]].pgstart
             p == s.range[l[k]].pgend
  <2>5. o \in Nat /\ p \in Nat
    BY <1>7
  <2>6. /\ ~(p < u) /\ ~(o <= u /\ u <= p) /\ ~(o <= v /\ v <= p) /\ ~(o >= u /\ p <= v)
    BY <2>3, <2>4 DEF range_before_page, page_range_in_range, page_in_range,
                      page_range_subsumes_range
  <2> HIDE DEF o, p
  <2>7. o > v
    BY <1>2, <2>5, <2>6
  <2> QED
    BY <2>7 DEF o
<1>9. ASSUME NEW k \in 1 .. Len(l), k >= at
      PROVE  u > s.range[l[k]].pgend
  <2>1. at \in 1 .. Len(l) /\ at # Len(l) + 1 /\ at \in Nat /\ k \in Nat
    BY <1>1, <1>5, <1>9
  <2>2. range_before_page(s.range[l[at]], u)
    BY <1>4, <2>1
  <2>3. s.range[l[at]].pgend < u
    BY <2>2 DEF range_before_page
  <2>4. CASE k = at
    BY <1>2, <1>7, <2>1, <2>3, <2>4
  <2>5. CASE at < k
    <3> DEFINE o == s.range[l[at]].pgstart
               p == s.range[l[at]].pgend
               q == s.range[l[k]].pgend
    <3>1. o > q
      BY <1>1, <2>1, <2>5 DEF Listed
    <3>2. o \in Nat /\ p \in Nat /\ q \in Nat /\ o <= p + 1 /\ p < u
      BY <1>7, <2>1, <2>3
    <3> HIDE DEF o, p, q
    <3>3. u > q
      BY <1>2, <3>1, <3>2
    <3> QED
      BY <3>3 DEF q
  <2> QED
    BY <1>9, <2>1, <2>4, <2>5
<1>10. Fits(s.range, l, at, r)
  BY <1>3, <1>5, <1>8, <1>9 DEF Fits
<1> QED
  BY <1>10 DEF s, l, r

LEMMA UnpinAllocGood ==
  ASSUME NEW m, IsMerge(m), NEW a \in Areas, MergeHits(m, a) = {},
         NEW i \in Free(m.lists),
         NEW t, t = range_alloc(m.lists, i, Place(m, a), NewRange(m, a))
  PROVE  Good(t) /\ Added(t.range, m.lists.range, i, NewRange(m, a))
<1> DEFINE r == NewRange(m, a)
           s == m.lists
           at == Place(m, a)
<1>1. IsRange(r) /\ r.asma = a
  BY NewRangeIs
<1>2. Fits(s.range, s.list[r.asma], at, r)
  BY <1>1, NewFits
<1>3. Good(s) /\ i \in Ids \ DOMAIN s.range /\ t = range_alloc(s, i, at, r)
  BY DEF IsMerge, Free
<1> HIDE DEF r, s, at
<1>4. Good(t) /\ Added(t.range, s.range, i, r)
  BY <1>1, <1>2, <1>3, AllocGood
<1> QED
  BY <1>4 DEF r, s

-----------------------------------------------------------------------------
(* ashmem_shrink *)

(* Only ranges that were not are purged. *)
PurgeResult(rng, S) ==
  /\ DOMAIN rng = DOMAIN range
  /\ \A j \in DOMAIN range : rng[j] = range[j] \/ (j \in S /\ rng[j] = Truncated(range[j]))

LEMMA PurgeRangesGood ==
  ASSUME Good(Lists), NEW nr \in Int
  PROVE  /\ Good(PurgeRanges(nr))
         /\ PurgeResult(PurgeRanges(nr).range, {j \in DOMAIN range : ~range[j].purged})
<1> DEFINE l == ashmem_lru_list
           P == {j \in DOMAIN range : ~range[j].purged}
<1>1. /\ l \in Seq(Ids) /\ Len(l) \in Nat
      /\ \A j, k \in 1 .. Len(l) : j # k => l[j] # l[k]
      /\ \A k \in 1 .. Len(l) : l[k] \in P
  BY ListsIs DEF Good, IsLists, OnLruList, range_on_lru
<1>2. PICK f : /\ f[0] = PurgeStart(nr) /\ PurgeRanges(nr) = f[Len(l)].lists
               /\ \A n \in 1 .. Len(l) : f[n] = PurgeStep(f[n - 1], l[n])
  BY <1>1, PurgeRangesIs
<1> HIDE DEF l
<1> DEFINE Done(n) == {l[k] : k \in 1 .. n}
           R(n) == Good(f[n].lists) /\ PurgeResult(f[n].lists.range, Done(n))
           T == {n \in 0 .. Len(l) : R(n)}
<1>3. 0 \in T
  <2>1. f[0].lists = Lists
    BY <1>2 DEF PurgeStart
  <2>2. f[0].lists.range = range
    BY <2>1, ListsIs
  <2>3. PurgeResult(f[0].lists.range, Done(0))
    BY <2>2 DEF PurgeResult
  <2> QED
    BY <1>1, <2>1, <2>3
<1>4. ASSUME NEW n \in 1 .. Len(l), n - 1 \in T
      PROVE  n \in T
  <2> DEFINE s == f[n - 1].lists
             t == f[n].lists
             i == l[n]
             Q == Done(n - 1)
             q == Done(n)
  <2>1. Good(s) /\ PurgeResult(s.range, Q)
    BY <1>4
  <2>2. i \in P /\ i \notin Q /\ q = Q \cup {i} /\ n \in 0 .. Len(l)
    BY <1>1
  <2>3. t = s \/ t = PurgeRange(s, i)
    <3>1. f[n] = PurgeStep(f[n - 1], i)
      BY <1>2
    <3> QED
      BY <3>1 DEF PurgeStep
  <2>4. n \in T <=> Good(t) /\ PurgeResult(t.range, q)
    BY <2>2
  <2> HIDE DEF s, t, i, Q, q, T
  <2>5. CASE t = s
    <3>1. PurgeResult(t.range, q)
      BY <2>1, <2>2, <2>5 DEF PurgeResult
    <3> QED
      BY <2>1, <2>4, <2>5, <3>1
  <2>6. CASE t = PurgeRange(s, i)
    <3>1. i \in DOMAIN s.range /\ s.range[i] = range[i] /\ range_on_lru(s.range[i])
      BY <2>1, <2>2 DEF PurgeResult, range_on_lru
    <3>2. Good(t) /\ Changed(t.range, s.range, i, Truncated(s.range[i]))
      BY <2>1, <2>6, <3>1, PurgeGood
    <3>3. PurgeResult(t.range, q)
      BY <2>1, <2>2, <3>1, <3>2 DEF PurgeResult, Changed
    <3> QED
      BY <2>4, <3>2, <3>3
  <2> QED
    BY <2>3, <2>5, <2>6
<1>5. \A n \in 0 .. Len(l) : n \in T
  <2> HIDE DEF T
  <2> QED
    BY <1>1, <1>3, <1>4, Upward
<1>6. R(Len(l))
  <2>1. Len(l) \in 0 .. Len(l)
    BY <1>1
  <2> HIDE DEF R
  <2> QED
    BY <1>5, <2>1
<1>7. Done(Len(l)) \subseteq P
  BY <1>1
<1>8. PurgeResult(f[Len(l)].lists.range, P)
  <2> HIDE DEF Done, P
  <2> QED
    BY <1>6, <1>7 DEF PurgeResult
<1> QED
  BY <1>2, <1>6, <1>8

-----------------------------------------------------------------------------
(* The invariant *)

AreasInv ==
  /\ opened \subseteq Areas /\ file \subseteq opened
  /\ size \in [Areas -> Nat] /\ setting \in {<<>>} \cup Areas \X Nat
  /\ ret \in {"NOT_PURGED", "WAS_PURGED", "ENOMEM"} /\ nomem \in BOOLEAN

ListsInv ==
  /\ Good(Lists) /\ \A i \in DOMAIN range : range[i].asma \in file
  /\ dropped \in [Areas -> SUBSET Nat]

Inv == AreasInv /\ ListsInv

LEMMA RequestIs ==
  ASSUME size \in [Areas -> Nat], NEW a \in Areas, NEW q \in Requests(a)
  PROVE  q[1] \in Nat /\ q[2] \in Nat /\ q[1] <= q[2] + 1
<1> DEFINE n == size[a]
<1>1. n \in Nat
  OBVIOUS
<1>2. /\ q[1] \in 0 .. n /\ q[2] \in 0 .. n - 1
      /\ q[1] <= q[2] \/ (q[1] = n /\ q[2] = n - 1)
  BY DEF Requests
<1> HIDE DEF n
<1> QED
  BY <1>1, <1>2

(* A handler leaves the lists in a good state. *)
LEMMA BecomesIs ==
  ASSUME NEW s, Good(s), NEW P, Becomes(s, P),
         \A i \in DOMAIN s.range : s.range[i].asma \in file'
  PROVE  ListsInv'
<1>1. /\ range' = s.range /\ unpinned_list' = s.list
      /\ ashmem_lru_list' = s.lru /\ lru_count' = s.count
      /\ dropped' = [a \in Areas |-> (dropped[a] \cup P[a]) \cap Unpinned(s.range, a)]
  BY DEF Becomes
<1>2. s = [range |-> s.range, list |-> s.list, lru |-> s.lru, count |-> s.count]
  BY DEF Good, IsLists
<1>3. Lists' = s
  BY <1>1, <1>2 DEF Lists
<1>4. \A a \in Areas : Unpinned(s.range, a) \subseteq Nat
  <2>1. \A i \in DOMAIN s.range : s.range[i].pgstart \in Nat /\ s.range[i].pgend \in Nat
    BY RangeTypes DEF Good, IsLists
  <2> QED
    BY <2>1 DEF Unpinned
<1>5. dropped' \in [Areas -> SUBSET Nat]
  BY <1>1, <1>4
<1> QED
  BY <1>1, <1>3, <1>5 DEF ListsInv

LEMMA Untouched ==
  ASSUME ListsInv, UNCHANGED ranges, file \subseteq file'
  PROVE  ListsInv'
<1>1. /\ range' = range /\ unpinned_list' = unpinned_list /\ lru_count' = lru_count
      /\ ashmem_lru_list' = ashmem_lru_list /\ dropped' = dropped
  BY DEF ranges
<1>2. Lists' = Lists
  BY <1>1 DEF Lists
<1> QED
  BY <1>1, <1>2 DEF ListsInv

LEMMA ReleaseInv ==
  ASSUME Inv, NEW a \in Areas, ashmem_release(a)
  PROVE  ListsInv'
<1> DEFINE s == Released(a)
<1>1. /\ Good(s) /\ DOMAIN s.range = {j \in DOMAIN range : range[j].asma # a}
      /\ \A j \in DOMAIN s.range : s.range[j] = range[j]
  BY ReleasedGood DEF Inv, ListsInv
<1>2. Becomes(s, Nothing) /\ file' = file \ {a}
  BY DEF ashmem_release
<1> HIDE DEF s
<1>3. \A i \in DOMAIN s.range : s.range[i].asma \in file'
  BY <1>1, <1>2 DEF Inv, ListsInv
<1> QED
  BY <1>1, <1>2, <1>3, BecomesIs

(* The ways ashmem_pin can go. *)
LEMMA PinIs ==
  ASSUME NEW a, NEW start, NEW end, ashmem_pin(a, start, end),
         NEW s, s = PinRanges(a, start, end)
  PROVE  \/ Becomes(s, Nothing)
         \/ \E h \in Pinned(a, start, end), new \in Free(s) :
              /\ Hole(range[h], start, end)
              /\ Becomes(range_alloc(s, new, SelectInSeq(s.list[a], LAMBDA i : i = h),
                                     Upper(range[h], end)), Nothing)
BY DEF ashmem_pin, Upper

LEMMA PinInv ==
  ASSUME Inv, NEW a \in file, NEW q \in Requests(a), ashmem_pin(a, q[1], q[2])
  PROVE  ListsInv'
<1> DEFINE start == q[1]
           end == q[2]
           s == PinRanges(a, start, end)
           P == Pinned(a, start, end)
<1>1. a \in Areas /\ start \in Nat /\ end \in Nat /\ start <= end + 1
  BY RequestIs DEF Inv, AreasInv
<1>2. Good(Lists) /\ file' = file
  BY DEF Inv, ListsInv, ashmem_pin, areas
<1>3. \/ Becomes(s, Nothing)
      \/ \E h \in P, new \in Free(s) :
           /\ Hole(range[h], start, end)
           /\ Becomes(range_alloc(s, new, SelectInSeq(s.list[a], LAMBDA i : i = h),
                                  Upper(range[h], end)), Nothing)
  BY PinIs
<1> HIDE DEF start, end
<1>4. Good(s) /\ PinResult(s.range, P, start, end)
  BY <1>1, <1>2, PinRangesGood
<1>5. \A j \in DOMAIN s.range : s.range[j].asma \in file'
  <2>1. \A j \in DOMAIN s.range : j \in DOMAIN range /\ s.range[j].asma = range[j].asma
    BY <1>1, <1>2, <1>4, PinShrinks
  <2> QED
    BY <1>2, <2>1 DEF Inv, ListsInv
<1>6. CASE Becomes(s, Nothing)
  BY <1>4, <1>5, <1>6, BecomesIs
<1>7. ASSUME NEW h \in P, NEW new \in Free(s), Hole(range[h], start, end),
             Becomes(range_alloc(s, new, SelectInSeq(s.list[a], LAMBDA i : i = h),
                                 Upper(range[h], end)), Nothing)
      PROVE  ListsInv'
  <2> DEFINE u == Upper(range[h], end)
             at == SelectInSeq(s.list[a], LAMBDA i : i = h)
             t == range_alloc(s, new, at, u)
  <2>1. Good(t) /\ Added(t.range, s.range, new, u)
    BY <1>1, <1>2, <1>7, PinAllocGood
  <2>2. u.asma = a
    <3>1. IsRange(range[h]) /\ range[h].asma = a /\ range[h].pgend > end
      BY <1>1, <1>2, <1>7, PinnedHit DEF Hole
    <3> QED
      BY <1>1, <3>1, UpperIs
  <2>3. Becomes(t, Nothing)
    BY <1>7
  <2> HIDE DEF t, u, s
  <2>4. \A j \in DOMAIN t.range : t.range[j].asma \in file'
    BY <1>2, <1>5, <2>1, <2>2 DEF Added
  <2> QED
    BY <2>1, <2>3, <2>4, BecomesIs
<1> QED
  BY <1>3, <1>6, <1>7

(* The ways ashmem_unpin can go. *)
LEMMA UnpinIs ==
  ASSUME NEW a, NEW start, NEW end, ashmem_unpin(a, start, end),
         NEW m, m = Merged(a, start, end)
  PROVE  \/ Becomes(m.lists, Nothing)
         \/ /\ ~m.inside
            /\ \E i \in Free(m.lists) :
                 Becomes(range_alloc(m.lists, i, Place(m, a), NewRange(m, a)), Nothing)
BY DEF ashmem_unpin, Place, NewRange

LEMMA UnpinInv ==
  ASSUME Inv, NEW a \in file, NEW q \in Requests(a), ashmem_unpin(a, q[1], q[2])
  PROVE  ListsInv'
<1> DEFINE start == q[1]
           end == q[2]
           m == Merged(a, start, end)
           s == m.lists
<1>1. a \in Areas /\ start \in Nat /\ end \in Nat /\ start <= end + 1
  BY RequestIs DEF Inv, AreasInv
<1>2. Good(Lists) /\ file' = file
  BY DEF Inv, ListsInv, ashmem_unpin, areas
<1>3. \/ Becomes(s, Nothing)
      \/ /\ ~m.inside
         /\ \E i \in Free(s) :
              Becomes(range_alloc(s, i, Place(m, a), NewRange(m, a)), Nothing)
  BY UnpinIs
<1> HIDE DEF start, end
<1>4. MergeInv(m, a, start, end) /\ Stopped(m, a)
  BY <1>1, <1>2, MergedGood
<1> HIDE DEF m
<1>5. IsMerge(m) /\ Good(s) /\ Fewer(s.range, a)
  BY <1>4 DEF MergeInv, IsMerge
<1>6. \A j \in DOMAIN s.range : s.range[j].asma \in file'
  BY <1>2, <1>5 DEF Inv, ListsInv, Fewer
<1>7. CASE Becomes(s, Nothing)
  BY <1>5, <1>6, <1>7, BecomesIs
<1>8. ASSUME ~m.inside, NEW i \in Free(s),
             Becomes(range_alloc(s, i, Place(m, a), NewRange(m, a)), Nothing)
      PROVE  ListsInv'
  <2> DEFINE r == NewRange(m, a)
             t == range_alloc(s, i, Place(m, a), r)
  <2>1. MergeHits(m, a) = {}
    BY <1>4, <1>8 DEF Stopped
  <2>2. Good(t) /\ Added(t.range, s.range, i, r)
    BY <1>1, <1>5, <1>8, <2>1, UnpinAllocGood
  <2>3. r.asma = a
    BY <1>1, <1>5, NewRangeIs
  <2>4. Becomes(t, Nothing)
    BY <1>8
  <2> HIDE DEF t, r, s
  <2>5. \A j \in DOMAIN t.range : t.range[j].asma \in file'
    BY <1>2, <1>6, <2>2, <2>3 DEF Added
  <2> QED
    BY <2>2, <2>4, <2>5, BecomesIs
<1> QED
  BY <1>3, <1>7, <1>8

LEMMA TruncatedIs ==
  ASSUME NEW r, IsRange(r), NEW x, x = Truncated(r)
  PROVE  /\ x.asma = r.asma /\ x.pgstart = r.pgstart /\ x.pgend = r.pgend
         /\ x.purged = TRUE
BY DEF Truncated, IsRange

LEMMA ShrinkInv ==
  ASSUME Inv, NEW n \in Scans, ashmem_shrink(n)
  PROVE  ListsInv'
<1> DEFINE s == PurgeRanges(n)
           P == {j \in DOMAIN range : ~range[j].purged}
<1>1. Good(Lists) /\ file' = file /\ n \in Int /\ \A j \in DOMAIN range : IsRange(range[j])
  BY AshmemAssumption, ListsIs DEF Inv, ListsInv, ashmem_shrink, areas, Good, IsLists
<1>2. Good(s) /\ PurgeResult(s.range, P)
  BY <1>1, PurgeRangesGood
<1>3. PICK X : Becomes(s, X)
  BY DEF ashmem_shrink
<1> HIDE DEF s
<1>4. \A j \in DOMAIN range : Truncated(range[j]).asma = range[j].asma
  BY <1>1, TruncatedIs
<1>5. \A j \in DOMAIN s.range : j \in DOMAIN range /\ s.range[j].asma = range[j].asma
  BY <1>2, <1>4 DEF PurgeResult
<1>6. \A j \in DOMAIN s.range : s.range[j].asma \in file'
  BY <1>1, <1>5 DEF Inv, ListsInv
<1> QED
  BY <1>2, <1>3, <1>6, BecomesIs

LEMMA InitInv == Init => Inv
<1> SUFFICES ASSUME Init PROVE Inv
  OBVIOUS
<1>1. AreasInv
  BY DEF Init, AreasInv
<1>2. /\ range = <<>> /\ DOMAIN range = {} /\ unpinned_list = [a \in Areas |-> <<>>]
      /\ ashmem_lru_list = <<>> /\ lru_count = 0 /\ dropped = [a \in Areas |-> {}]
  BY DEF Init, Nothing
<1>3. /\ Lists.range = range /\ Lists.list = unpinned_list
      /\ Lists.lru = ashmem_lru_list /\ Lists.count = lru_count
  BY ListsIs
<1>4. range = [i \in DOMAIN range |-> range[i]]
  BY <1>2
<1>5. Lists = [range |-> Lists.range, list |-> Lists.list, lru |-> Lists.lru,
               count |-> Lists.count]
  BY DEF Lists
<1>6. unpinned_list \in [Areas -> Seq(Ids)] /\ ashmem_lru_list \in Seq(Ids)
  BY <1>2
<1>7. IsLists(Lists)
  BY <1>2, <1>3, <1>4, <1>5, <1>6 DEF IsLists
<1>8. Sorted(Lists.range, Lists.list)
  BY <1>2, <1>3 DEF Sorted, Listed
<1>9. OnLruList(Lists.range, Lists.lru)
  BY <1>2, <1>3 DEF OnLruList
<1>10. LruPages(range) = {}
  BY <1>2 DEF LruPages
<1>11. Counted(Lists.range, Lists.count)
  BY <1>2, <1>3, <1>10, FS_EmptySet DEF Counted
<1> QED
  BY <1>1, <1>2, <1>7, <1>8, <1>9, <1>11 DEF Inv, ListsInv, Good

LEMMA NextInv == Inv /\ [Next]_vars => Inv'
<1> SUFFICES ASSUME Inv, [Next]_vars PROVE Inv'
  OBVIOUS
<1> USE DEF Inv
<1>1. ASSUME NEW a \in Areas, ashmem_open(a) PROVE Inv'
  <2>1. AreasInv'
    BY <1>1 DEF AreasInv, ashmem_open, NoAnswer
  <2>2. ListsInv'
    BY <1>1, Untouched DEF ashmem_open
  <2> QED
    BY <2>1, <2>2
<1>2. ASSUME NEW a \in Areas, ashmem_release(a) PROVE Inv'
  <2>1. AreasInv'
    BY <1>2 DEF AreasInv, ashmem_release, NoAnswer
  <2> QED
    BY <1>2, <2>1, ReleaseInv
<1>3. ASSUME NEW a \in Areas, ashmem_mmap(a) PROVE Inv'
  <2>1. AreasInv'
    BY <1>3 DEF AreasInv, ashmem_mmap, NoAnswer
  <2>2. ListsInv'
    BY <1>3, Untouched DEF ashmem_mmap
  <2> QED
    BY <2>1, <2>2
<1>4. ASSUME NEW a \in Areas, NEW n \in Sizes[a], set_size_check(a, n) PROVE Inv'
  <2>1. n \in Nat
    BY AshmemAssumption
  <2>2. AreasInv'
    BY <1>4, <2>1 DEF AreasInv, set_size_check, NoAnswer
  <2>3. ListsInv'
    BY <1>4, Untouched DEF set_size_check
  <2> QED
    BY <2>2, <2>3
<1>5. ASSUME NEW a \in Areas, ashmem_pin_unpin(a) PROVE Inv'
  <2>1. PICK q \in Requests(a) : ashmem_pin(a, q[1], q[2]) \/ ashmem_unpin(a, q[1], q[2])
    BY <1>5 DEF ashmem_pin_unpin
  <2>2. a \in file
    BY <1>5 DEF ashmem_pin_unpin
  <2>3. CASE ashmem_pin(a, q[1], q[2])
    <3>1. UNCHANGED areas /\ ret' \in {"NOT_PURGED", "WAS_PURGED"} /\ nomem' \in BOOLEAN
      BY <2>3 DEF ashmem_pin
    <3>2. AreasInv'
      BY <3>1 DEF AreasInv, areas
    <3> QED
      BY <2>2, <2>3, <3>2, PinInv
  <2>4. CASE ashmem_unpin(a, q[1], q[2])
    <3>1. UNCHANGED areas /\ ret' \in {"NOT_PURGED", "ENOMEM"} /\ nomem' \in BOOLEAN
      BY <2>4 DEF ashmem_unpin
    <3>2. AreasInv'
      BY <3>1 DEF AreasInv, areas
    <3> QED
      BY <2>2, <2>4, <3>2, UnpinInv
  <2> QED
    BY <2>1, <2>3, <2>4
<1>6. ASSUME set_size PROVE Inv'
  <2>1. AreasInv'
    BY <1>6 DEF AreasInv, set_size, NoAnswer
  <2>2. ListsInv'
    BY <1>6, Untouched DEF set_size
  <2> QED
    BY <2>1, <2>2
<1>7. ASSUME NEW n \in Scans, ashmem_shrink(n) PROVE Inv'
  <2>1. AreasInv'
    BY <1>7 DEF AreasInv, ashmem_shrink, NoAnswer, areas
  <2> QED
    BY <1>7, <2>1, ShrinkInv
<1>8. CASE UNCHANGED vars
  <2>1. AreasInv'
    BY <1>8 DEF AreasInv, vars, areas, answer
  <2>2. ListsInv'
    BY <1>8, Untouched DEF vars, areas
  <2> QED
    BY <2>1, <2>2
<1> QED
  BY <1>1, <1>2, <1>3, <1>4, <1>5, <1>6, <1>7, <1>8 DEF Next

(* The inductive invariant of the ranges, which the properties follow from.*)
THEOREM InvTheorem == Spec => []Inv
<1>1. Init => Inv
  BY InitInv
<1>2. Inv /\ [Next]_vars => Inv'
  BY NextInv
<1> QED
  BY <1>1, <1>2, PTL DEF Spec

-----------------------------------------------------------------------------
(* The properties *)

(* Every variable of the areas and of the lists keeps its type: no page    *)
(* number and no count of pages falls below zero.                          *)
THEOREM TypeTheorem == Spec => []TypeOK
<1>1. Inv => TypeOK
  <2> SUFFICES ASSUME Inv PROVE TypeOK
    OBVIOUS
  <2>1. Good(Lists) /\ AreasInv /\ dropped \in [Areas -> SUBSET Nat]
    BY DEF Inv, ListsInv
  <2>2. /\ DOMAIN range \subseteq Ids /\ \A i \in DOMAIN range : IsRange(range[i])
        /\ Sorted(range, unpinned_list) /\ OnLruList(range, ashmem_lru_list)
        /\ unpinned_list \in [Areas -> Seq(Ids)] /\ ashmem_lru_list \in Seq(Ids)
    BY <2>1, ListsIs DEF Good, IsLists
  <2>3. lru_count \in Nat
    BY <2>1, ListsIs, CountType
  <2>4. \A a \in Areas : ToSet(unpinned_list[a]) \subseteq DOMAIN range
    BY <2>2 DEF Sorted, Listed, ToSet
  <2>5. ToSet(ashmem_lru_list) \subseteq DOMAIN range
    BY <2>2 DEF OnLruList, ToSet
  <2>6. \A i \in DOMAIN range :
          range[i] \in [asma : Areas, pgstart : Nat, pgend : Nat, purged : BOOLEAN]
    BY <2>2 DEF IsRange
  <2> QED
    BY <2>1, <2>2, <2>3, <2>4, <2>5, <2>6 DEF TypeOK, AreasInv
<1> QED
  BY <1>1, InvTheorem, PTL

(* After any sequence of pins, unpins and failed allocations the list of   *)
(* every area is sorted, complete and free of overlaps.                    *)
THEOREM DisjointTheorem == Spec => []RangesAreDisjoint
<1>1. Inv => RangesAreDisjoint
  <2> SUFFICES ASSUME Inv, NEW a \in Areas
               PROVE  /\ ToSet(unpinned_list[a]) = {i \in DOMAIN range : range[i].asma = a}
                      /\ \A i, j \in DOMAIN unpinned_list[a] : i < j =>
                           range[unpinned_list[a][i]].pgstart > range[unpinned_list[a][j]].pgend
    BY DEF RangesAreDisjoint
  <2> DEFINE l == unpinned_list[a]
  <2>1. l \in Seq(Ids) /\ Listed(range, l, a)
    BY ListOf DEF Inv, ListsInv
  <2> HIDE DEF l
  <2>2. DOMAIN l = 1 .. Len(l)
    BY <2>1
  <2>3. ToSet(l) = {i \in DOMAIN range : range[i].asma = a}
    BY <2>1, <2>2 DEF Listed, ToSet
  <2>4. \A i, j \in DOMAIN l : i < j => range[l[i]].pgstart > range[l[j]].pgend
    BY <2>1, <2>2 DEF Listed
  <2> QED
    BY <2>3, <2>4 DEF l
<1> QED
  BY <1>1, InvTheorem, PTL

(* The LRU list is complete and has no range twice, and lru_count is the   *)
(* number of pages that a reclaim could free.                              *)
THEOREM LruTheorem == Spec => []LruIsExact
<1>1. Inv => LruIsExact
  <2> SUFFICES ASSUME Inv PROVE LruIsExact
    OBVIOUS
  <2> DEFINE q == ashmem_lru_list
  <2>1. /\ \A i \in DOMAIN range : range[i].asma \in file /\ IsRange(range[i])
        /\ q \in Seq(Ids) /\ OnLruList(range, q) /\ Counted(range, lru_count)
    BY ListsIs DEF Inv, ListsInv, Good, IsLists
  <2> HIDE DEF q
  <2>2. DOMAIN q = 1 .. Len(q)
    BY <2>1
  <2>3. IsInjective(q)
    BY <2>1, <2>2 DEF OnLruList, IsInjective
  <2>4. ToSet(q) = {i \in DOMAIN range : ~range[i].purged}
    BY <2>1, <2>2 DEF OnLruList, ToSet, range_on_lru
  <2> DEFINE R == Restrict(range, ToSet(q))
             U == UNION {{a} \X Unpinned(R, a) : a \in Areas}
  <2>5. DOMAIN R = ToSet(q) /\ \A i \in ToSet(q) : R[i] = range[i]
    BY DEF Restrict
  <2> HIDE DEF R
  <2>6. U \subseteq LruPages(range)
    <3> SUFFICES ASSUME NEW a \in Areas, NEW x \in {a} \X Unpinned(R, a)
                 PROVE  x \in LruPages(range)
      OBVIOUS
    <3>1. PICK i \in DOMAIN R : R[i].asma = a /\ x[2] \in R[i].pgstart .. R[i].pgend
      BY DEF Unpinned
    <3>2. i \in DOMAIN range /\ range_on_lru(range[i]) /\ R[i] = range[i]
      BY <2>4, <2>5, <3>1 DEF range_on_lru
    <3>3. x \in RangePages(range[i])
      BY <3>1, <3>2 DEF RangePages
    <3> QED
      BY <3>2, <3>3 DEF LruPages
  <2>7. LruPages(range) \subseteq U
    <3> SUFFICES ASSUME NEW x \in LruPages(range) PROVE x \in U
      OBVIOUS
    <3>1. PICK i \in DOMAIN range : range_on_lru(range[i]) /\ x \in RangePages(range[i])
      BY DEF LruPages
    <3>2. i \in DOMAIN R /\ R[i] = range[i]
      BY <2>4, <2>5, <3>1 DEF range_on_lru
    <3> DEFINE a == range[i].asma
    <3>3. a \in Areas
      BY <2>1, RangeTypes
    <3>4. x \in {a} \X Unpinned(R, a)
      BY <3>1, <3>2 DEF RangePages, Unpinned
    <3> QED
      BY <3>3, <3>4
  <2>8. lru_count = Cardinality(U)
    BY <2>1, <2>6, <2>7 DEF Counted
  <2> QED
    BY <2>1, <2>3, <2>4, <2>8 DEF LruIsExact, R, q
<1> QED
  BY <1>1, InvTheorem, PTL

(* A scan for pages comes to every range that has one of them. *)
LEMMA ScanFinds ==
  ASSUME NEW rng, \A j \in DOMAIN rng : IsRange(rng[j]),
         NEW l \in Seq(Ids), NEW a, Listed(rng, l, a), NEW start \in Nat, NEW end \in Nat,
         NEW x \in start .. end, NEW k \in 1 .. Len(l),
         x \in rng[l[k]].pgstart .. rng[l[k]].pgend
  PROVE  k \in Hits(rng, l, start, end)
<1>1. /\ l \in Seq(Ids) /\ Len(l) \in Nat /\ DOMAIN l = 1 .. Len(l) /\ Listed(rng, l, a)
      /\ \A j \in 1 .. Len(l) : /\ rng[l[j]].pgstart \in Nat /\ rng[l[j]].pgend \in Nat
                                /\ rng[l[j]].pgstart <= rng[l[j]].pgend + 1
  BY RangeTypes DEF Listed
<1> DEFINE o == rng[l[k]].pgstart
           p == rng[l[k]].pgend
<1>2. o \in Nat /\ p \in Nat /\ x \in Nat /\ o <= x /\ x <= p /\ start <= x /\ x <= end
  BY <1>1
<1> HIDE DEF o, p
<1>3. ASSUME NEW j \in 1 .. k PROVE ~range_before_page(rng[l[j]], start)
  <2>1. j \in 1 .. Len(l)
    BY <1>1
  <2>2. CASE j = k
    <3>1. ~(p < start)
      BY <1>2
    <3> QED
      BY <2>2, <3>1 DEF range_before_page, p
  <2>3. CASE j # k
    <3> DEFINE u == rng[l[j]].pgstart
               v == rng[l[j]].pgend
    <3>1. u > p
      BY <1>1, <2>1, <2>3 DEF Listed, p
    <3>2. u \in Nat /\ v \in Nat /\ u <= v + 1
      BY <1>1, <2>1
    <3> HIDE DEF u, v
    <3>3. ~(v < start)
      BY <1>2, <3>1, <3>2
    <3> QED
      BY <3>3 DEF range_before_page, v
  <2> QED
    BY <2>2, <2>3
<1>4. k \in Reached(rng, l, start)
  BY <1>1, <1>3 DEF Reached
<1>5. (o <= start /\ start <= p) \/ (o <= end /\ end <= p) \/ (o >= start /\ p <= end)
  BY <1>2
<1>6. page_range_in_range(rng[l[k]], start, end)
  BY <1>5 DEF page_range_in_range, page_in_range, page_range_subsumes_range, o, p
<1> QED
  BY <1>4, <1>6 DEF Hits

(* GET_PIN_STATUS says pinned only of pages that no reclaim can take.      *)
THEOREM PinStatusTheorem == Spec => []GetPinStatusIsSafe
<1>1. Inv => GetPinStatusIsSafe
  <2> SUFFICES ASSUME Inv, NEW a \in file, NEW q \in Requests(a),
                      (q[1] .. q[2]) \cap Unpinned(range, a) # {}
               PROVE  ~ashmem_get_pin_status(a, q[1], q[2])
    BY DEF GetPinStatusIsSafe
  <2> DEFINE l == unpinned_list[a]
             start == q[1]
             end == q[2]
  <2>1. a \in Areas /\ start \in Nat /\ end \in Nat /\ Good(Lists)
    BY RequestIs DEF Inv, AreasInv, ListsInv
  <2>2. /\ l \in Seq(Ids) /\ Listed(range, l, a) /\ DOMAIN l = 1 .. Len(l)
        /\ \A j \in DOMAIN range : IsRange(range[j])
        /\ \A k \in 1 .. Len(l) : l[k] \in DOMAIN range /\ range[l[k]].asma = a
    BY <2>1, ListOf
  <2> HIDE DEF start, end
  <2>3. ASSUME NEW x \in start .. end, x \in Unpinned(range, a)
        PROVE  Hits(range, l, start, end) # {}
    <3>1. PICK i \in DOMAIN range : /\ range[i].asma = a
                                    /\ x \in range[i].pgstart .. range[i].pgend
      BY <2>3 DEF Unpinned
    <3>2. PICK k \in 1 .. Len(l) : l[k] = i
      BY <2>2, <3>1 DEF Listed
    <3>3. k \in Hits(range, l, start, end)
      BY <2>1, <2>2, <2>3, <3>1, <3>2, ScanFinds
    <3> QED
      BY <3>3
  <2>4. ashmem_get_pin_status(a, start, end) <=> Hits(range, l, start, end) = {}
    BY DEF ashmem_get_pin_status
  <2>5. (start .. end) \cap Unpinned(range, a) # {}
    BY DEF start, end
  <2>6. ~ashmem_get_pin_status(a, start, end)
    BY <2>3, <2>4, <2>5
  <2> QED
    BY <2>6 DEF start, end
<1> QED
  BY <1>1, InvTheorem, PTL

-----------------------------------------------------------------------------
(* The promise to the clients, page by page *)

(* A page is in one range only. *)
LEMMA OneOwner ==
  ASSUME Good(Lists), NEW i \in DOMAIN range, NEW j \in DOMAIN range,
         range[i].asma = range[j].asma,
         NEW p, p \in range[i].pgstart .. range[i].pgend,
         p \in range[j].pgstart .. range[j].pgend
  PROVE  i = j
<1> SUFFICES ASSUME i # j PROVE FALSE
  OBVIOUS
<1>1. IsLists(Lists) /\ Sorted(Lists.range, Lists.list)
  BY DEF Good
<1>2. /\ range[i].pgstart \in Nat /\ range[i].pgend \in Nat
      /\ range[j].pgstart \in Nat /\ range[j].pgend \in Nat
  BY <1>1, ListsIs, RangeTypes DEF IsLists
<1>3. range[i].pgstart > range[j].pgend \/ range[j].pgstart > range[i].pgend
  BY <1>1, Apart, ListsIs
<1> QED
  BY <1>2, <1>3

LEMMA UnpinnedIs ==
  ASSUME NEW rng, NEW a, NEW p
  PROVE  p \in Unpinned(rng, a) <=>
           \E i \in DOMAIN rng : rng[i].asma = a /\ p \in rng[i].pgstart .. rng[i].pgend
BY DEF Unpinned

(* A range that has a page to be pinned is found: no hole is before it. *)
LEMMA PinFinds ==
  ASSUME Good(Lists), NEW a \in Areas, NEW start \in Nat, NEW end \in Nat,
         NEW i \in DOMAIN range, range[i].asma = a,
         NEW p \in start .. end, p \in range[i].pgstart .. range[i].pgend
  PROVE  i \in Pinned(a, start, end)
<1> DEFINE l == unpinned_list[a]
<1>1. /\ l \in Seq(Ids) /\ Len(l) \in Nat /\ Listed(range, l, a)
      /\ \A j, k \in 1 .. Len(l) : j # k => l[j] # l[k]
      /\ \A k \in 1 .. Len(l) : l[k] \in DOMAIN range /\ range[l[k]].asma = a
      /\ \A j \in DOMAIN range : IsRange(range[j])
  BY ListOf
<1> HIDE DEF l
<1>2. PICK k \in 1 .. Len(l) : l[k] = i
  BY <1>1 DEF Listed
<1>3. k \in Hits(range, l, start, end)
  BY <1>1, <1>2, ScanFinds
<1>4. ASSUME NEW j \in 1 .. k - 1 PROVE ~Hole(range[l[j]], start, end)
  <2> SUFFICES ASSUME Hole(range[l[j]], start, end) PROVE FALSE
    OBVIOUS
  <2>1. j \in 1 .. Len(l) /\ j # k
    BY <1>1
  <2>2. l[j] \in DOMAIN range /\ range[l[j]].asma = a /\ l[j] # i
    BY <1>1, <1>2, <2>1
  <2> DEFINE u == range[l[j]].pgstart
             v == range[l[j]].pgend
  <2>3. u \in Nat /\ v \in Nat /\ u < start /\ v > end
    BY <1>1, <2>2, RangeTypes DEF Hole
  <2>4. p \in u .. v
    <3> HIDE DEF u, v
    <3> QED
      BY <2>3
  <2> QED
    BY <2>2, <2>4, OneOwner
<1> QED
  BY <1>2, <1>3, <1>4 DEF Pinned, l

(* What is left of a range that is cut, and the upper part of a hole. *)
LEMMA LeftPages ==
  ASSUME NEW r, IsRange(r), NEW start \in Nat, NEW end \in Nat, start <= end + 1,
         page_range_in_range(r, start, end), ~page_range_subsumes_range(r, start, end),
         NEW x, x = Left(r, start, end), NEW p \in r.pgstart .. r.pgend
  PROVE  /\ p \in x.pgstart .. x.pgend => p \notin start .. end
         /\ p \notin start .. end /\ p \notin x.pgstart .. x.pgend =>
              Hole(r, start, end) /\ p \in end + 1 .. r.pgend
<1> DEFINE o == r.pgstart
           q == r.pgend
<1>1. /\ o \in Nat /\ q \in Nat /\ p \in Nat /\ o <= p /\ p <= q
      /\ r \in [asma : Areas, pgstart : Nat, pgend : Nat, purged : BOOLEAN]
  BY DEF IsRange
<1>2. CASE o >= start
  <2>1. x = [r EXCEPT !.pgstart = end + 1, !.pgend = r.pgend]
    BY <1>2 DEF Left, Cut
  <2>2. x.pgstart = end + 1 /\ x.pgend = q
    BY <1>1, <2>1
  <2> HIDE DEF o, q
  <2>3. /\ p \in end + 1 .. q => p \notin start .. end
        /\ p \notin start .. end => p \in end + 1 .. q
    BY <1>1, <1>2
  <2> QED
    BY <2>2, <2>3
<1>3. CASE ~(o >= start)
  <2>1. x = [r EXCEPT !.pgstart = r.pgstart, !.pgend = start - 1]
    BY <1>3 DEF Left, Cut
  <2>2. x.pgstart = o /\ x.pgend = start - 1
    BY <1>1, <2>1
  <2>3. Hole(r, start, end) <=> o < start /\ q > end
    BY DEF Hole
  <2> HIDE DEF o, q
  <2>4. /\ p \in o .. start - 1 => p \notin start .. end
        /\ p \notin start .. end /\ p \notin o .. start - 1 =>
             o < start /\ q > end /\ p \in end + 1 .. q
    BY <1>1, <1>3
  <2>5. p \in x.pgstart .. x.pgend <=> p \in o .. start - 1
    BY <2>2
  <2> QED
    BY <2>3, <2>4, <2>5 DEF q
<1> QED
  BY <1>2, <1>3

(* Of the pages that are unpinned those asked for go, and the upper part   *)
(* of a hole.                                                              *)
LEMMA PinPages ==
  ASSUME Good(Lists), NEW a \in Areas, NEW start \in Nat, NEW end \in Nat, start <= end + 1,
         NEW rng, PinResult(rng, Pinned(a, start, end), start, end)
  PROVE  /\ \A b \in Areas : Unpinned(rng, b) \subseteq Unpinned(range, b)
         /\ \A b \in Areas \ {a} : Unpinned(rng, b) = Unpinned(range, b)
         /\ \A p \in Unpinned(rng, a) : p \notin start .. end
         /\ \A p \in Unpinned(range, a) \ Unpinned(rng, a) :
              \/ p \in start .. end
              \/ \E h \in Pinned(a, start, end) :
                   Hole(range[h], start, end) /\ p \in end + 1 .. range[h].pgend
<1> DEFINE P == Pinned(a, start, end)
<1>1. /\ DOMAIN rng = DOMAIN range \ {i \in P : page_range_subsumes_range(range[i], start, end)}
      /\ \A j \in DOMAIN rng : rng[j] = IF j \in P THEN Left(range[j], start, end) ELSE range[j]
  BY DEF PinResult
<1>2. \A i \in P : /\ i \in DOMAIN range /\ range[i].asma = a
                   /\ page_range_in_range(range[i], start, end)
  BY PinnedHit
<1>3. \A j \in DOMAIN range : IsRange(range[j]) /\ range[j].pgstart \in Nat /\ range[j].pgend \in Nat
  BY ListsIs, RangeTypes DEF Good, IsLists
<1>4. \A j \in DOMAIN rng : /\ j \in DOMAIN range /\ rng[j].asma = range[j].asma
                            /\ rng[j].pgstart >= range[j].pgstart
                            /\ rng[j].pgend <= range[j].pgend
  BY PinShrinks
<1>5. \A j \in DOMAIN rng : rng[j].pgstart \in Nat /\ rng[j].pgend \in Nat
  <2> SUFFICES ASSUME NEW j \in DOMAIN rng
               PROVE  rng[j].pgstart \in Nat /\ rng[j].pgend \in Nat
    OBVIOUS
  <2>1. CASE j \notin P
    BY <1>1, <1>3, <2>1
  <2>2. CASE j \in P
    <3>1. IsRange(Left(range[j], start, end))
      BY <1>1, <1>2, <1>3, <2>2, LeftIs
    <3> QED
      BY <1>1, <2>2, <3>1, RangeTypes
  <2> QED
    BY <2>1, <2>2
<1> HIDE DEF P
<1>6. \A j \in DOMAIN rng : rng[j].pgstart .. rng[j].pgend \subseteq range[j].pgstart .. range[j].pgend
  BY <1>3, <1>4, <1>5
<1>7. ASSUME NEW b \in Areas PROVE Unpinned(rng, b) \subseteq Unpinned(range, b)
  <2> SUFFICES ASSUME NEW p \in Unpinned(rng, b) PROVE p \in Unpinned(range, b)
    OBVIOUS
  <2>1. PICK j \in DOMAIN rng : rng[j].asma = b /\ p \in rng[j].pgstart .. rng[j].pgend
    BY UnpinnedIs
  <2> QED
    BY <1>4, <1>6, <2>1, UnpinnedIs
<1>8. ASSUME NEW b \in Areas \ {a} PROVE Unpinned(range, b) \subseteq Unpinned(rng, b)
  <2> SUFFICES ASSUME NEW p \in Unpinned(range, b) PROVE p \in Unpinned(rng, b)
    OBVIOUS
  <2>1. PICK j \in DOMAIN range : range[j].asma = b /\ p \in range[j].pgstart .. range[j].pgend
    BY UnpinnedIs
  <2>2. j \notin P
    BY <1>2, <2>1
  <2>3. j \in DOMAIN rng /\ rng[j] = range[j]
    BY <1>1, <2>1, <2>2
  <2> QED
    BY <2>1, <2>3, UnpinnedIs
<1>9. ASSUME NEW p \in Unpinned(rng, a) PROVE p \notin start .. end
  <2> SUFFICES ASSUME p \in start .. end PROVE FALSE
    OBVIOUS
  <2>1. PICK j \in DOMAIN rng : rng[j].asma = a /\ p \in rng[j].pgstart .. rng[j].pgend
    BY UnpinnedIs
  <2>2. j \in DOMAIN range /\ range[j].asma = a /\ p \in range[j].pgstart .. range[j].pgend
    BY <1>4, <1>6, <2>1
  <2>3. j \in P
    BY <2>2, PinFinds DEF P
  <2>4. rng[j] = Left(range[j], start, end) /\ ~page_range_subsumes_range(range[j], start, end)
    BY <1>1, <2>1, <2>3
  <2> QED
    BY <1>2, <1>3, <2>1, <2>2, <2>3, <2>4, LeftPages
<1>10. ASSUME NEW p \in Unpinned(range, a) \ Unpinned(rng, a), p \notin start .. end
       PROVE  \E h \in P : Hole(range[h], start, end) /\ p \in end + 1 .. range[h].pgend
  <2>1. PICK j \in DOMAIN range : range[j].asma = a /\ p \in range[j].pgstart .. range[j].pgend
    BY UnpinnedIs
  <2>2. j \in P
    <3> SUFFICES ASSUME j \notin P PROVE FALSE
      OBVIOUS
    <3>1. j \in DOMAIN rng /\ rng[j] = range[j]
      BY <1>1, <2>1
    <3> QED
      BY <1>10, <2>1, <3>1, UnpinnedIs
  <2>3. ~page_range_subsumes_range(range[j], start, end)
    <3> DEFINE o == range[j].pgstart
               q == range[j].pgend
    <3>1. o \in Nat /\ q \in Nat /\ p \in o .. q
      BY <1>3, <2>1
    <3> HIDE DEF o, q
    <3>2. ~(o >= start /\ q <= end)
      BY <1>10, <3>1
    <3> QED
      BY <3>2 DEF page_range_subsumes_range, o, q
  <2>4. j \in DOMAIN rng /\ rng[j] = Left(range[j], start, end)
    BY <1>1, <2>1, <2>2, <2>3
  <2>5. p \notin rng[j].pgstart .. rng[j].pgend
    BY <1>4, <1>10, <2>1, <2>4, UnpinnedIs
  <2>6. Hole(range[j], start, end) /\ p \in end + 1 .. range[j].pgend
    BY <1>2, <1>3, <1>10, <2>1, <2>2, <2>3, <2>4, <2>5, LeftPages
  <2> QED
    BY <2>2, <2>6
<1> QED
  BY <1>7, <1>8, <1>9, <1>10 DEF P

Sized ==
  /\ \A a \in Areas : size[a] \in Sizes[a] \cup {0}
  /\ setting # <<>> => setting[2] \in Sizes[setting[1]]

(* Range i of a is purged, and has page p. *)
Lost(rng, i, a, p) ==
  rng[i].asma = a /\ rng[i].purged /\ p \in rng[i].pgstart .. rng[i].pgend

(* A page that was truncated is in a range that says so. *)
DropInv == \A a \in Areas : \A p \in dropped[a] : \E i \in DOMAIN range : Lost(range, i, a, p)

PagesInv == Inv /\ Sized /\ DropInv

(* Losses in pages that stay unpinned are not forgotten. *)
Keeps(rng) ==
  \A a \in Areas : \A p \in Unpinned(rng, a) : \A i \in DOMAIN range :
    Lost(range, i, a, p) => \E j \in DOMAIN rng : Lost(rng, j, a, p)

LEMMA DropKept ==
  ASSUME Inv, DropInv, NEW s, Becomes(s, Nothing), Keeps(s.range)
  PROVE  DropInv'
<1>1. /\ range' = s.range
      /\ \A a \in Areas : dropped'[a] \subseteq dropped[a] \cap Unpinned(s.range, a)
  BY DEF Becomes, Nothing
<1> SUFFICES ASSUME NEW a \in Areas, NEW p \in dropped'[a]
             PROVE  \E i \in DOMAIN range' : Lost(range', i, a, p)
  BY DEF DropInv
<1>2. p \in dropped[a] /\ p \in Unpinned(s.range, a)
  BY <1>1
<1>3. PICK i \in DOMAIN range : Lost(range, i, a, p)
  BY <1>2 DEF DropInv
<1> QED
  BY <1>1, <1>2, <1>3 DEF Keeps

LEMMA DroppedUnpinned ==
  ASSUME DropInv, NEW a \in Areas
  PROVE  dropped[a] \subseteq Unpinned(range, a)
BY UnpinnedIs DEF DropInv, Lost

(* The pages that are unpinned, as the abstract specification has them. *)
UnpinnedPages == [a \in Areas |-> Unpinned(range, a)]

(* Area a has the pages X pinned in rng, and the others have the same. *)
Taken(rng, a, X) ==
  /\ \A b \in Areas \ {a} : Unpinned(rng, b) = Unpinned(range, b)
  /\ Unpinned(rng, a) = Unpinned(range, a) \ X

(* The step takes the pages X of a from those that are unpinned. *)
Forgotten(a, X) ==
  /\ UnpinnedPages' = [UnpinnedPages EXCEPT ![a] = @ \ X]
  /\ dropped' = [dropped EXCEPT ![a] = @ \ X]

LEMMA Forgets ==
  ASSUME Inv, DropInv, NEW s, Becomes(s, Nothing), NEW a \in Areas,
         NEW X, Taken(s.range, a, X)
  PROVE  Forgotten(a, X)
<1>0. /\ \A b \in Areas \ {a} : Unpinned(s.range, b) = Unpinned(range, b)
      /\ Unpinned(s.range, a) = Unpinned(range, a) \ X
  BY DEF Taken
<1>1. /\ range' = s.range
      /\ dropped' = [b \in Areas |-> dropped[b] \cap Unpinned(s.range, b)]
  BY DEF Becomes, Nothing
<1>2. dropped \in [Areas -> SUBSET Nat] /\ \A b \in Areas : dropped[b] \subseteq Unpinned(range, b)
  BY DroppedUnpinned DEF Inv, ListsInv
<1>3. UnpinnedPages' = [b \in Areas |-> Unpinned(s.range, b)]
  BY <1>1 DEF UnpinnedPages
<1>4. UnpinnedPages' = [UnpinnedPages EXCEPT ![a] = @ \ X]
  BY <1>0, <1>3 DEF UnpinnedPages
<1>5. dropped' = [dropped EXCEPT ![a] = @ \ X]
  <2>1. \A b \in Areas : dropped[b] \cap Unpinned(s.range, b) =
                           IF b = a THEN dropped[a] \ X ELSE dropped[b]
    BY <1>0, <1>2
  <2> QED
    BY <1>1, <1>2, <2>1
<1> QED
  BY <1>4, <1>5 DEF Forgotten

LEMMA RequestPages ==
  ASSUME Inv, Sized, NEW a \in Areas, NEW q \in Requests(a)
  PROVE  q[1] .. q[2] \in PagesSpec!Intervals \cup {{}}
<1> DEFINE n == size[a]
           Q == UNION {0 .. k - 1 : k \in UNION {Sizes[b] : b \in Areas}}
<1>1. n \in Nat /\ n \in Sizes[a] \cup {0}
  BY DEF Inv, AreasInv, Sized
<1>2. /\ q[1] \in 0 .. n /\ q[2] \in 0 .. n - 1
      /\ q[1] <= q[2] \/ (q[1] = n /\ q[2] = n - 1)
  BY DEF Requests
<1> HIDE DEF n
<1>3. n \in Sizes[a]
  BY <1>1, <1>2
<1>4. CASE q[1] <= q[2]
  <2>1. q[1] \in 0 .. n - 1 /\ q[2] \in 0 .. n - 1
    BY <1>1, <1>2, <1>4
  <2>2. 0 .. n - 1 \subseteq Q
    BY <1>3
  <2>3. q[1] \in Q /\ q[2] \in Q
    BY <2>1, <2>2
  <2> HIDE DEF Q
  <2>4. q[1] .. q[2] \in {x .. y : x \in Q, y \in Q}
    BY <2>3
  <2> QED
    BY <2>4 DEF PagesSpec!Intervals, Q
<1>5. CASE q[1] = n /\ q[2] = n - 1
  <2>1. q[1] .. q[2] = {}
    BY <1>1, <1>5
  <2> QED
    BY <2>1
<1> QED
  BY <1>2, <1>4, <1>5

(* Two holes for the same pages are one. *)
LEMMA OneHole ==
  ASSUME Good(Lists), NEW a \in Areas, NEW start \in Nat, NEW end \in Nat, start <= end + 1,
         NEW g \in Pinned(a, start, end), Hole(range[g], start, end),
         NEW h \in Pinned(a, start, end), Hole(range[h], start, end)
  PROVE  g = h
<1>1. \A i \in {g, h} : /\ i \in DOMAIN range /\ IsRange(range[i]) /\ range[i].asma = a
                        /\ range[i].pgstart \in Nat /\ range[i].pgend \in Nat
  BY PinnedHit, RangeTypes
<1>2. \A i \in {g, h} : end \in range[i].pgstart .. range[i].pgend
  BY <1>1 DEF Hole
<1> QED
  BY <1>1, <1>2, OneOwner

(* The ranges that ashmem_pin leaves come from ranges that were there. *)
LEMMA PinKeeps ==
  ASSUME Good(Lists), NEW a \in Areas, NEW start \in Nat, NEW end \in Nat, start <= end + 1,
         NEW rng, PinResult(rng, Pinned(a, start, end), start, end)
  PROVE  Keeps(rng)
<1> SUFFICES ASSUME NEW b \in Areas, NEW p \in Unpinned(rng, b), NEW i \in DOMAIN range,
                    Lost(range, i, b, p)
             PROVE  \E j \in DOMAIN rng : Lost(rng, j, b, p)
  BY DEF Keeps
<1>1. PICK j \in DOMAIN rng : rng[j].asma = b /\ p \in rng[j].pgstart .. rng[j].pgend
  BY UnpinnedIs
<1>2. /\ j \in DOMAIN range /\ rng[j].asma = range[j].asma /\ rng[j].purged = range[j].purged
      /\ rng[j].pgstart >= range[j].pgstart /\ rng[j].pgend <= range[j].pgend
  BY PinShrinks
<1>3. range[j].pgstart \in Nat /\ range[j].pgend \in Nat
  BY <1>2, ListsIs, RangeTypes DEF Good, IsLists
<1>4. p \in range[j].pgstart .. range[j].pgend
  <2>1. IsRange(range[j])
    BY <1>2, ListsIs DEF Good, IsLists
  <2>2. rng[j].pgstart \in Nat /\ rng[j].pgend \in Nat
    <3> DEFINE P == Pinned(a, start, end)
    <3>1. /\ rng[j] = IF j \in P THEN Left(range[j], start, end) ELSE range[j]
          /\ ~(j \in P /\ page_range_subsumes_range(range[j], start, end))
      BY DEF PinResult
    <3>2. CASE j \notin P
      BY <1>3, <3>1, <3>2
    <3>3. CASE j \in P
      <4>1. page_range_in_range(range[j], start, end)
        BY <3>3, PinnedHit
      <4>2. IsRange(Left(range[j], start, end))
        BY <2>1, <3>1, <3>3, <4>1, LeftIs
      <4> QED
        BY <3>1, <3>3, <4>2, RangeTypes
    <3> QED
      BY <3>2, <3>3
  <2> QED
    BY <1>1, <1>2, <1>3, <2>2
<1>5. i = j
  BY <1>1, <1>2, <1>4, OneOwner DEF Lost
<1> QED
  BY <1>1, <1>2, <1>5 DEF Lost

LEMMA AddedPages ==
  ASSUME NEW old, NEW i, i \notin DOMAIN old, NEW r, NEW rng, Added(rng, old, i, r), NEW b
  PROVE  Unpinned(rng, b) =
           Unpinned(old, b) \cup (IF b = r.asma THEN r.pgstart .. r.pgend ELSE {})
<1>1. /\ DOMAIN rng = DOMAIN old \cup {i} /\ rng[i] = r
      /\ \A j \in DOMAIN old : rng[j] = old[j]
  BY DEF Added
<1>2. ASSUME NEW p
      PROVE  p \in Unpinned(rng, b) <=>
               p \in Unpinned(old, b) \/ (b = r.asma /\ p \in r.pgstart .. r.pgend)
  <2>1. p \in Unpinned(rng, b) =>
          p \in Unpinned(old, b) \/ (b = r.asma /\ p \in r.pgstart .. r.pgend)
    BY <1>1, UnpinnedIs
  <2>2. p \in Unpinned(old, b) => p \in Unpinned(rng, b)
    BY <1>1, UnpinnedIs
  <2>3. b = r.asma /\ p \in r.pgstart .. r.pgend => p \in Unpinned(rng, b)
    BY <1>1, UnpinnedIs
  <2> QED
    BY <2>1, <2>2, <2>3
<1> QED
  BY <1>2

(* A new range in which no loss is forgotten. *)
LEMMA KeepsAdded ==
  ASSUME NEW old, Keeps(old), NEW i, i \notin DOMAIN old, NEW r,
         NEW rng, Added(rng, old, i, r),
         \A p \in r.pgstart .. r.pgend : \A k \in DOMAIN range :
           Lost(range, k, r.asma, p) =>
             r.purged \/ \E j \in DOMAIN old : Lost(old, j, r.asma, p)
  PROVE  Keeps(rng)
<1>1. /\ DOMAIN rng = DOMAIN old \cup {i} /\ rng[i] = r
      /\ \A j \in DOMAIN old : rng[j] = old[j]
  BY DEF Added
<1> SUFFICES ASSUME NEW b \in Areas, NEW p \in Unpinned(rng, b), NEW k \in DOMAIN range,
                    Lost(range, k, b, p)
             PROVE  \E j \in DOMAIN rng : Lost(rng, j, b, p)
  BY DEF Keeps
<1>2. ASSUME NEW j \in DOMAIN old, Lost(old, j, b, p)
      PROVE  \E x \in DOMAIN rng : Lost(rng, x, b, p)
  BY <1>1, <1>2 DEF Lost
<1>3. CASE p \in Unpinned(old, b)
  BY <1>2, <1>3 DEF Keeps
<1>4. CASE b = r.asma /\ p \in r.pgstart .. r.pgend
  <2>1. CASE r.purged
    <3>1. i \in DOMAIN rng /\ Lost(rng, i, b, p)
      BY <1>1, <1>4, <2>1 DEF Lost
    <3> QED
      BY <3>1
  <2>2. CASE ~r.purged
    BY <1>2, <1>4, <2>2
  <2> QED
    BY <2>1, <2>2
<1>5. p \in Unpinned(old, b) \/ (b = r.asma /\ p \in r.pgstart .. r.pgend)
  BY AddedPages
<1> QED
  BY <1>3, <1>4, <1>5

(* The answers of ashmem_pin. *)
LEMMA PinAnswers ==
  ASSUME NEW a, NEW start, NEW end, ashmem_pin(a, start, end),
         NEW s, s = PinRanges(a, start, end)
  PROVE  /\ ret' \in {"NOT_PURGED", "WAS_PURGED"}
         /\ (\E i \in Pinned(a, start, end) : range[i].purged) => ret' = "WAS_PURGED"
         /\ nomem' \in BOOLEAN
         /\ \/ /\ Becomes(s, Nothing)
               /\ (\E h \in Pinned(a, start, end) : Hole(range[h], start, end)) => nomem'
            \/ \E h \in Pinned(a, start, end), new \in Free(s) :
                 /\ Hole(range[h], start, end)
                 /\ Becomes(range_alloc(s, new, SelectInSeq(s.list[a], LAMBDA i : i = h),
                                        Upper(range[h], end)), Nothing)
<1> DEFINE P == Pinned(a, start, end)
           hole == {i \in P : Hole(range[i], start, end)}
<1>1. ret' = IF \E i \in P : range[i].purged THEN "WAS_PURGED" ELSE "NOT_PURGED"
  BY DEF ashmem_pin
<1>2. \/ /\ Becomes(s, Nothing)
         /\ nomem' = (hole # {})
      \/ /\ \E h \in hole, new \in Free(s) :
              Becomes(range_alloc(s, new, SelectInSeq(s.list[a], LAMBDA i : i = h),
                                  Upper(range[h], end)), Nothing)
         /\ nomem' = FALSE
  BY DEF ashmem_pin, Upper
<1> QED
  BY <1>1, <1>2

(* The abstract PIN. *)
LEMMA PinPagesStep ==
  ASSUME Inv, DropInv, NEW a \in Areas, NEW start \in Nat, NEW end \in Nat,
         start <= end + 1, ashmem_pin(a, start, end)
  PROVE  DropInv' /\ PagesSpec!Pin(a, start .. end)
<1> DEFINE s == PinRanges(a, start, end)
           P == Pinned(a, start, end)
           S == start .. end
           T == (Unpinned(range, a) \ Unpinned(s.range, a)) \ S
<1>1. Good(Lists)
  BY DEF Inv, ListsInv
<1>2. /\ ret' \in {"NOT_PURGED", "WAS_PURGED"}
      /\ (\E i \in P : range[i].purged) => ret' = "WAS_PURGED"
      /\ nomem' \in BOOLEAN
      /\ \/ /\ Becomes(s, Nothing)
            /\ (\E h \in P : Hole(range[h], start, end)) => nomem'
         \/ \E h \in P, new \in Free(s) :
              /\ Hole(range[h], start, end)
              /\ Becomes(range_alloc(s, new, SelectInSeq(s.list[a], LAMBDA i : i = h),
                                     Upper(range[h], end)), Nothing)
  BY PinAnswers
<1>3. Good(s) /\ PinResult(s.range, P, start, end)
  BY <1>1, PinRangesGood
<1>4. /\ \A b \in Areas : Unpinned(s.range, b) \subseteq Unpinned(range, b)
      /\ \A b \in Areas \ {a} : Unpinned(s.range, b) = Unpinned(range, b)
      /\ \A p \in Unpinned(s.range, a) : p \notin S
      /\ \A p \in Unpinned(range, a) \ Unpinned(s.range, a) :
           \/ p \in S
           \/ \E h \in P : Hole(range[h], start, end) /\ p \in end + 1 .. range[h].pgend
  BY <1>1, <1>3, PinPages
<1>5. Keeps(s.range)
  BY <1>1, <1>3, PinKeeps
<1>6. \A h \in P : /\ h \in DOMAIN range /\ IsRange(range[h]) /\ range[h].asma = a
                   /\ range[h].pgstart \in Nat /\ range[h].pgend \in Nat
  BY <1>1, PinnedHit, RangeTypes
<1>7. ASSUME NEW h \in P, Hole(range[h], start, end), NEW p \in end + 1 .. range[h].pgend
      PROVE  p \in range[h].pgstart .. range[h].pgend /\ p \notin S /\ p \in Unpinned(range, a)
  <2> DEFINE u == range[h].pgstart
             v == range[h].pgend
  <2>1. u \in Nat /\ v \in Nat /\ u < start
    BY <1>6, <1>7 DEF Hole
  <2>2. p \in end + 1 .. v
    BY <1>7
  <2> HIDE DEF u, v
  <2>3. p \in u .. v /\ p \notin start .. end
    BY <2>1, <2>2
  <2>4. p \in range[h].pgstart .. range[h].pgend
    BY <2>3 DEF u, v
  <2>5. p \in Unpinned(range, a)
    BY <1>6, <2>4, UnpinnedIs
  <2> QED
    BY <2>3, <2>4, <2>5
<1>8. ASSUME NEW p \in dropped[a], p \in S \cup T PROVE ret' # "NOT_PURGED"
  <2>1. PICK i \in DOMAIN range : Lost(range, i, a, p)
    BY <1>8 DEF DropInv
  <2>2. /\ range[i].asma = a /\ range[i].purged
        /\ p \in range[i].pgstart .. range[i].pgend
    BY <2>1 DEF Lost
  <2>3. i \in P
    <3>1. CASE p \in S
      BY <1>1, <2>2, <3>1, PinFinds
    <3>2. CASE p \notin S
      <4>1. PICK h \in P : Hole(range[h], start, end) /\ p \in end + 1 .. range[h].pgend
        BY <1>4, <1>8, <3>2
      <4>2. p \in range[h].pgstart .. range[h].pgend
        BY <1>7, <4>1
      <4>3. i = h
        BY <1>1, <1>6, <2>2, <4>2, OneOwner
      <4> QED
        BY <4>3
    <3> QED
      BY <3>1, <3>2
  <2> QED
    BY <1>2, <2>2, <2>3
<1> HIDE DEF s, P
<1>9. CASE /\ Becomes(s, Nothing)
           /\ (\E h \in P : Hole(range[h], start, end)) => nomem'
  <2>1. DropInv'
    BY <1>5, <1>9, DropKept
  <2>2. Unpinned(s.range, a) = Unpinned(range, a) \ (S \cup T)
    <3> HIDE DEF S
    <3> QED
      BY <1>4
  <2> DEFINE X == S \cup T
  <2> HIDE DEF X, T
  <2>3. /\ UnpinnedPages' = [UnpinnedPages EXCEPT ![a] = @ \ X]
        /\ dropped' = [dropped EXCEPT ![a] = @ \ X]
    <3>1. Taken(s.range, a, X)
      BY <1>4, <2>2 DEF Taken, X
    <3>2. Forgotten(a, X)
      BY <1>9, <3>1, Forgets
    <3> QED
      BY <3>2 DEF Forgotten
  <2>4. T \in SUBSET {p \in UnpinnedPages[a] : \A q \in S : q < p}
    <3>1. UnpinnedPages[a] = Unpinned(range, a)
      BY DEF UnpinnedPages
    <3>2. ASSUME NEW p \in T PROVE p \in Unpinned(range, a) /\ \A q \in S : q < p
      <4>1. /\ p \in Unpinned(range, a)
            /\ \E h \in P : Hole(range[h], start, end) /\ p \in end + 1 .. range[h].pgend
        BY <1>4 DEF T
      <4> QED
        BY <1>6, <4>1
    <3> QED
      BY <3>1, <3>2
  <2>5. T # {} => nomem'
    BY <1>4, <1>9 DEF T
  <2>6. dropped[a] \cap X # {} => ret' # "NOT_PURGED"
    BY <1>8 DEF X
  <2> HIDE DEF S
  <2> QED
    BY <1>2, <2>1, <2>3, <2>4, <2>5, <2>6 DEF PagesSpec!Pin, PagesSpec!Told, UnpinnedPages, X, S
<1>10. ASSUME NEW h \in P, NEW new \in Free(s), Hole(range[h], start, end),
              Becomes(range_alloc(s, new, SelectInSeq(s.list[a], LAMBDA i : i = h),
                                  Upper(range[h], end)), Nothing)
       PROVE  DropInv' /\ PagesSpec!Pin(a, S)
  <2> DEFINE u == Upper(range[h], end)
             at == SelectInSeq(s.list[a], LAMBDA i : i = h)
             t == range_alloc(s, new, at, u)
  <2>1. Good(t) /\ Added(t.range, s.range, new, u)
    BY <1>1, <1>10, PinAllocGood DEF P, s
  <2>2. Becomes(t, Nothing)
    BY <1>10
  <2>3. /\ u.asma = a /\ u.pgstart = end + 1 /\ u.pgend = range[h].pgend
        /\ u.purged = range[h].purged
    <3>1. range[h].pgend > end
      BY <1>10 DEF Hole
    <3> QED
      BY <1>6, <3>1, UpperIs
  <2>4. new \notin DOMAIN s.range
    BY DEF Free
  <2> HIDE DEF t, u, at
  <2>5. \A b \in Areas : Unpinned(t.range, b) =
          Unpinned(s.range, b) \cup (IF b = a THEN end + 1 .. range[h].pgend ELSE {})
    BY <2>1, <2>3, <2>4, AddedPages
  <2>6. \A b \in Areas \ {a} : Unpinned(t.range, b) = Unpinned(range, b)
    BY <1>4, <2>5
  <2>7. Unpinned(t.range, a) = Unpinned(range, a) \ S
    <3>1. ASSUME NEW p \in Unpinned(range, a) \ S PROVE p \in Unpinned(t.range, a)
      <4>1. CASE p \in Unpinned(s.range, a)
        BY <2>5, <4>1
      <4>2. CASE p \notin Unpinned(s.range, a)
        <5>1. PICK g \in P : Hole(range[g], start, end) /\ p \in end + 1 .. range[g].pgend
          BY <1>4, <3>1, <4>2
        <5>2. g = h
          BY <1>1, <1>10, <5>1, OneHole DEF P
        <5> QED
          BY <2>5, <5>1, <5>2
      <4> QED
        BY <4>1, <4>2
    <3>2. ASSUME NEW p \in Unpinned(t.range, a) PROVE p \in Unpinned(range, a) \ S
      <4>1. p \in Unpinned(s.range, a) \/ p \in end + 1 .. range[h].pgend
        BY <2>5
      <4> QED
        BY <1>4, <1>7, <1>10, <4>1
    <3> QED
      BY <3>1, <3>2
  <2>8. Keeps(t.range)
    <3>1. ASSUME NEW p \in u.pgstart .. u.pgend, NEW k \in DOMAIN range,
                 Lost(range, k, u.asma, p)
          PROVE  u.purged
      <4>1. p \in range[h].pgstart .. range[h].pgend
        BY <1>7, <1>10, <2>3, <3>1
      <4>2. /\ range[k].asma = a /\ range[k].purged
            /\ p \in range[k].pgstart .. range[k].pgend
        BY <2>3, <3>1 DEF Lost
      <4>3. k = h
        BY <1>1, <1>6, <4>1, <4>2, OneOwner
      <4> QED
        BY <2>3, <4>2, <4>3
    <3> QED
      BY <1>5, <2>1, <2>4, <3>1, KeepsAdded
  <2>9. DropInv'
    BY <2>2, <2>8, DropKept
  <2>10. /\ UnpinnedPages' = [UnpinnedPages EXCEPT ![a] = @ \ S]
         /\ dropped' = [dropped EXCEPT ![a] = @ \ S]
    <3> HIDE DEF S
    <3>1. Taken(t.range, a, S)
      BY <2>6, <2>7 DEF Taken
    <3>2. Forgotten(a, S)
      BY <2>2, <3>1, Forgets
    <3> QED
      BY <3>2 DEF Forgotten
  <2> HIDE DEF S
  <2>11. dropped[a] \cap S # {} => ret' # "NOT_PURGED"
    BY <1>8
  <2>12. /\ {} \in SUBSET {p \in UnpinnedPages[a] : \A q \in S : q < p}
         /\ S \cup {} = S
    OBVIOUS
  <2>13. PagesSpec!Pin(a, S)
    BY <1>2, <2>10, <2>11, <2>12 DEF PagesSpec!Pin, PagesSpec!Told, UnpinnedPages
  <2> QED
    BY <2>9, <2>13
<1> QED
  BY <1>2, <1>9, <1>10

-----------------------------------------------------------------------------
(* UNPIN, page by page *)

(* What is left of the ranges when some of area a are gone. *)
LEMMA FewerPages ==
  ASSUME NEW a \in Areas, NEW rng, Fewer(rng, a)
  PROVE  /\ \A b \in Areas : Unpinned(rng, b) \subseteq Unpinned(range, b)
         /\ \A b \in Areas \ {a} : Unpinned(rng, b) = Unpinned(range, b)
         /\ \A p \in Unpinned(range, a) \ Unpinned(rng, a) :
              \E k \in DOMAIN range \ DOMAIN rng : p \in range[k].pgstart .. range[k].pgend
<1>1. /\ DOMAIN rng \subseteq DOMAIN range /\ \A j \in DOMAIN rng : rng[j] = range[j]
      /\ \A j \in DOMAIN range \ DOMAIN rng : range[j].asma = a
  BY DEF Fewer
<1>2. \A b \in Areas : Unpinned(rng, b) \subseteq Unpinned(range, b)
  BY <1>1, UnpinnedIs
<1>3. ASSUME NEW b \in Areas, NEW p \in Unpinned(range, b), p \notin Unpinned(rng, b)
      PROVE  b = a /\ \E k \in DOMAIN range \ DOMAIN rng : p \in range[k].pgstart .. range[k].pgend
  <2>1. PICK k \in DOMAIN range : range[k].asma = b /\ p \in range[k].pgstart .. range[k].pgend
    BY UnpinnedIs
  <2>2. k \notin DOMAIN rng
    BY <1>1, <1>3, <2>1, UnpinnedIs
  <2> QED
    BY <1>1, <2>1, <2>2
<1>4. ASSUME NEW b \in Areas \ {a} PROVE Unpinned(rng, b) = Unpinned(range, b)
  BY <1>2, <1>3
<1> QED
  BY <1>2, <1>3, <1>4

LEMMA FewerKeeps ==
  ASSUME Good(Lists), NEW a \in Areas, NEW rng, Fewer(rng, a)
  PROVE  Keeps(rng)
<1> SUFFICES ASSUME NEW b \in Areas, NEW p \in Unpinned(rng, b), NEW i \in DOMAIN range,
                    Lost(range, i, b, p)
             PROVE  \E j \in DOMAIN rng : Lost(rng, j, b, p)
  BY DEF Keeps
<1>1. PICK j \in DOMAIN rng : rng[j].asma = b /\ p \in rng[j].pgstart .. rng[j].pgend
  BY UnpinnedIs
<1>2. j \in DOMAIN range /\ rng[j] = range[j]
  BY DEF Fewer
<1>3. range[i].asma = b /\ range[i].purged /\ p \in range[i].pgstart .. range[i].pgend
  BY DEF Lost
<1>4. i = j
  BY <1>1, <1>2, <1>3, OneOwner
<1> QED
  BY <1>1, <1>2, <1>3, <1>4 DEF Lost

(* Area a has the pages X unpinned in rng as well. *)
Given(rng, a, X) ==
  /\ \A b \in Areas \ {a} : Unpinned(rng, b) = Unpinned(range, b)
  /\ Unpinned(rng, a) = Unpinned(range, a) \cup X

(* The step adds them. *)
Noted(a, X) ==
  /\ UnpinnedPages' = [UnpinnedPages EXCEPT ![a] = @ \cup X]
  /\ dropped' = dropped

LEMMA Notes ==
  ASSUME Inv, DropInv, NEW s, Becomes(s, Nothing), NEW a \in Areas,
         NEW X, Given(s.range, a, X)
  PROVE  Noted(a, X)
<1>0. /\ \A b \in Areas \ {a} : Unpinned(s.range, b) = Unpinned(range, b)
      /\ Unpinned(s.range, a) = Unpinned(range, a) \cup X
  BY DEF Given
<1>1. /\ range' = s.range
      /\ dropped' = [b \in Areas |-> dropped[b] \cap Unpinned(s.range, b)]
  BY DEF Becomes, Nothing
<1>2. dropped \in [Areas -> SUBSET Nat] /\ \A b \in Areas : dropped[b] \subseteq Unpinned(range, b)
  BY DroppedUnpinned DEF Inv, ListsInv
<1>3. UnpinnedPages' = [b \in Areas |-> Unpinned(s.range, b)]
  BY <1>1 DEF UnpinnedPages
<1>4. UnpinnedPages' = [UnpinnedPages EXCEPT ![a] = @ \cup X]
  BY <1>0, <1>3 DEF UnpinnedPages
<1>5. \A b \in Areas : dropped[b] \cap Unpinned(s.range, b) = dropped[b]
  BY <1>0, <1>2
<1>6. dropped' = dropped
  BY <1>1, <1>2, <1>5
<1> QED
  BY <1>4, <1>6 DEF Noted

(* When nothing more is hit, no range that is left has a page of the new   *)
(* one.                                                                    *)
LEMMA NotHit ==
  ASSUME NEW m, IsMerge(m), NEW a \in Areas, MergeHits(m, a) = {},
         NEW p \in Unpinned(m.lists.range, a)
  PROVE  p \notin m.pgstart .. m.pgend
<1> DEFINE rng == m.lists.range
           l == m.lists.list[a]
<1>1. /\ l \in Seq(Ids) /\ Listed(rng, l, a) /\ \A j \in DOMAIN rng : IsRange(rng[j])
      /\ m.pgstart \in Nat /\ m.pgend \in Nat
  BY DEF IsMerge, Good, IsLists, Sorted
<1> SUFFICES ASSUME p \in m.pgstart .. m.pgend PROVE FALSE
  OBVIOUS
<1>2. PICK i \in DOMAIN rng : rng[i].asma = a /\ p \in rng[i].pgstart .. rng[i].pgend
  BY UnpinnedIs
<1>3. Hits(rng, l, m.pgstart, m.pgend) = {}
  BY DEF MergeHits
<1> HIDE DEF rng, l
<1>4. PICK k \in 1 .. Len(l) : l[k] = i
  BY <1>1, <1>2 DEF Listed
<1>5. k \in Hits(rng, l, m.pgstart, m.pgend)
  BY <1>1, <1>2, <1>4, ScanFinds
<1> QED
  BY <1>3, <1>5

(* The answers of ashmem_unpin. *)
LEMMA UnpinAnswers ==
  ASSUME NEW a, NEW start, NEW end, ashmem_unpin(a, start, end),
         NEW m, m = Merged(a, start, end)
  PROVE  \/ /\ m.inside /\ Becomes(m.lists, Nothing)
            /\ ret' = "NOT_PURGED" /\ nomem' = FALSE
         \/ /\ ~m.inside /\ Becomes(m.lists, Nothing)
            /\ ret' = "ENOMEM" /\ nomem' = TRUE
         \/ /\ ~m.inside
            /\ \E i \in Free(m.lists) :
                 Becomes(range_alloc(m.lists, i, Place(m, a), NewRange(m, a)), Nothing)
            /\ ret' = "NOT_PURGED" /\ nomem' = FALSE
BY DEF ashmem_unpin, Place, NewRange

(* The pages lie inside a range that is there. *)
LEMMA UnpinInside ==
  ASSUME Inv, NEW a \in Areas, NEW start, NEW end,
         NEW m, MergeInv(m, a, start, end), m.inside
  PROVE  Given(m.lists.range, a, start .. end)
<1> DEFINE rng == m.lists.range
           M == m.pgstart .. m.pgend
           S == start .. end
<1>1. Fewer(rng, a) /\ Covers(m, a, start, end)
  BY DEF MergeInv
<1>2. /\ S \subseteq M
      /\ \A k \in DOMAIN range \ DOMAIN rng : range[k].pgstart .. range[k].pgend \subseteq M
  BY <1>1 DEF Covers
<1>3. PICK j \in DOMAIN rng : rng[j].asma = a /\ M \subseteq rng[j].pgstart .. rng[j].pgend
  BY <1>1 DEF Covers
<1>4. M \subseteq Unpinned(rng, a)
  BY <1>3, UnpinnedIs
<1>5. /\ \A b \in Areas : Unpinned(rng, b) \subseteq Unpinned(range, b)
      /\ \A b \in Areas \ {a} : Unpinned(rng, b) = Unpinned(range, b)
      /\ \A p \in Unpinned(range, a) \ Unpinned(rng, a) :
           \E k \in DOMAIN range \ DOMAIN rng : p \in range[k].pgstart .. range[k].pgend
  BY <1>1, FewerPages
<1> HIDE DEF M, S
<1>6. \A p \in Unpinned(range, a) \ Unpinned(rng, a) : p \in M
  BY <1>2, <1>5
<1> HIDE DEF rng
<1>7. Unpinned(rng, a) = Unpinned(range, a) \cup S
  BY <1>2, <1>4, <1>5, <1>6
<1>8. Given(rng, a, S)
  BY <1>5, <1>7 DEF Given
<1> QED
  BY <1>8 DEF rng, S

(* There is memory for the merged range. *)
LEMMA UnpinAllocated ==
  ASSUME Inv, NEW a \in Areas, NEW start, NEW end,
         NEW m, MergeInv(m, a, start, end), MergeHits(m, a) = {},
         NEW i \in Free(m.lists), NEW t,
         t = range_alloc(m.lists, i, Place(m, a), NewRange(m, a))
  PROVE  Given(t.range, a, start .. end) /\ Keeps(t.range)
<1> DEFINE rng == m.lists.range
           M == m.pgstart .. m.pgend
           S == start .. end
           r == NewRange(m, a)
<1>1. Fewer(rng, a) /\ Covers(m, a, start, end) /\ IsMerge(m) /\ i \notin DOMAIN rng
  BY DEF MergeInv, Free
<1>2. /\ S \subseteq M /\ M \subseteq S \cup Unpinned(range, a)
      /\ \A k \in DOMAIN range \ DOMAIN rng :
           range[k].pgstart .. range[k].pgend \subseteq M /\ (range[k].purged => m.purged)
  BY <1>1 DEF Covers
<1>3. /\ r.asma = a /\ r.purged = m.purged /\ r.pgstart = m.pgstart /\ r.pgend = m.pgend
  BY <1>1, NewRangeIs
<1>4. Added(t.range, rng, i, r)
  BY <1>1, UnpinAllocGood
<1> HIDE DEF r, rng
<1>5. \A b \in Areas : Unpinned(t.range, b) = Unpinned(rng, b) \cup (IF b = a THEN M ELSE {})
  BY <1>1, <1>3, <1>4, AddedPages
<1>6. /\ \A b \in Areas : Unpinned(rng, b) \subseteq Unpinned(range, b)
      /\ \A b \in Areas \ {a} : Unpinned(rng, b) = Unpinned(range, b)
      /\ \A p \in Unpinned(range, a) \ Unpinned(rng, a) :
           \E k \in DOMAIN range \ DOMAIN rng : p \in range[k].pgstart .. range[k].pgend
  BY <1>1, FewerPages
<1>7. Keeps(t.range)
  <2>1. Keeps(rng)
    BY <1>1, FewerKeeps DEF Inv, ListsInv
  <2>2. ASSUME NEW p \in r.pgstart .. r.pgend, NEW k \in DOMAIN range, Lost(range, k, r.asma, p)
        PROVE  r.purged \/ \E j \in DOMAIN rng : Lost(rng, j, r.asma, p)
    <3>1. CASE k \in DOMAIN rng
      BY <1>1, <2>2, <3>1 DEF Fewer, Lost
    <3>2. CASE k \notin DOMAIN rng
      <4>1. range[k].purged
        BY <2>2 DEF Lost
      <4>2. m.purged
        BY <1>2, <3>2, <4>1
      <4> QED
        BY <1>3, <4>2
    <3> QED
      BY <3>1, <3>2
  <2> QED
    BY <1>1, <1>4, <2>1, <2>2, KeepsAdded
<1> HIDE DEF M, S
<1>8. \A p \in Unpinned(range, a) \ Unpinned(rng, a) : p \in M
  BY <1>2, <1>6
<1>9. Unpinned(t.range, a) = Unpinned(rng, a) \cup M
  BY <1>5
<1>10. \A b \in Areas \ {a} : Unpinned(t.range, b) = Unpinned(rng, b)
  BY <1>5
<1>11. Unpinned(t.range, a) = Unpinned(range, a) \cup S
  BY <1>2, <1>6, <1>8, <1>9
<1>12. Given(t.range, a, S)
  BY <1>6, <1>10, <1>11 DEF Given
<1> QED
  BY <1>7, <1>12 DEF S

(* There is none: the pages asked for are pinned, and those of the ranges  *)
(* that were to be merged.                                                 *)
LEMMA UnpinFailed ==
  ASSUME Inv, NEW a \in Areas, NEW start, NEW end,
         NEW m, MergeInv(m, a, start, end), MergeHits(m, a) = {},
         NEW T, T = Unpinned(range, a) \cap (m.pgstart .. m.pgend)
  PROVE  Taken(m.lists.range, a, (start .. end) \cup T)
<1> DEFINE rng == m.lists.range
           M == m.pgstart .. m.pgend
           S == start .. end
<1>1. Fewer(rng, a) /\ Covers(m, a, start, end) /\ IsMerge(m)
  BY DEF MergeInv
<1>2. /\ S \subseteq M
      /\ \A k \in DOMAIN range \ DOMAIN rng : range[k].pgstart .. range[k].pgend \subseteq M
  BY <1>1 DEF Covers
<1>3. \A p \in Unpinned(rng, a) : p \notin M
  BY <1>1, NotHit
<1>4. /\ \A b \in Areas : Unpinned(rng, b) \subseteq Unpinned(range, b)
      /\ \A b \in Areas \ {a} : Unpinned(rng, b) = Unpinned(range, b)
      /\ \A p \in Unpinned(range, a) \ Unpinned(rng, a) :
           \E k \in DOMAIN range \ DOMAIN rng : p \in range[k].pgstart .. range[k].pgend
  BY <1>1, FewerPages
<1>5. T = Unpinned(range, a) \cap M
  OBVIOUS
<1> HIDE DEF M, S
<1>6. \A p \in Unpinned(range, a) \ Unpinned(rng, a) : p \in M
  BY <1>2, <1>4
<1> HIDE DEF rng
<1>7. Unpinned(rng, a) = Unpinned(range, a) \ (S \cup T)
  BY <1>2, <1>3, <1>4, <1>5, <1>6
<1>8. Taken(rng, a, S \cup T)
  BY <1>4, <1>7 DEF Taken
<1> QED
  BY <1>8 DEF rng, S

LEMMA UnpinPagesStep ==
  ASSUME Inv, DropInv, NEW a \in Areas, NEW start \in Nat, NEW end \in Nat,
         start <= end + 1, ashmem_unpin(a, start, end)
  PROVE  DropInv' /\ (PagesSpec!Unpin(a, start .. end) \/ PagesSpec!UnpinFails(a, start .. end))
<1> DEFINE m == Merged(a, start, end)
           s == m.lists
           S == start .. end
<1>1. Good(Lists)
  BY DEF Inv, ListsInv
<1>2. MergeInv(m, a, start, end) /\ Stopped(m, a)
  BY <1>1, MergedGood
<1>3. \/ /\ m.inside /\ Becomes(m.lists, Nothing)
         /\ ret' = "NOT_PURGED" /\ nomem' = FALSE
      \/ /\ ~m.inside /\ Becomes(m.lists, Nothing)
         /\ ret' = "ENOMEM" /\ nomem' = TRUE
      \/ /\ ~m.inside
         /\ \E i \in Free(m.lists) :
              Becomes(range_alloc(m.lists, i, Place(m, a), NewRange(m, a)), Nothing)
         /\ ret' = "NOT_PURGED" /\ nomem' = FALSE
  BY UnpinAnswers
<1> HIDE DEF m
<1>4. Keeps(s.range)
  BY <1>1, <1>2, FewerKeeps DEF MergeInv
<1>5. ASSUME Noted(a, S), ret' = "NOT_PURGED", nomem' = FALSE PROVE PagesSpec!Unpin(a, S)
  <2>1. /\ UnpinnedPages' = [UnpinnedPages EXCEPT ![a] = @ \cup S]
        /\ dropped' = dropped
    BY <1>5 DEF Noted
  <2> HIDE DEF S
  <2> QED
    BY <1>5, <2>1 DEF PagesSpec!Unpin, UnpinnedPages
<1>6. CASE m.inside /\ Becomes(s, Nothing) /\ ret' = "NOT_PURGED" /\ nomem' = FALSE
  <2>1. Given(s.range, a, S)
    BY <1>2, <1>6, UnpinInside
  <2> HIDE DEF S
  <2>2. Noted(a, S)
    BY <1>6, <2>1, Notes
  <2>3. DropInv'
    BY <1>4, <1>6, DropKept
  <2> QED
    BY <1>5, <1>6, <2>2, <2>3 DEF S
<1>7. CASE ~m.inside /\ Becomes(s, Nothing) /\ ret' = "ENOMEM" /\ nomem' = TRUE
  <2> DEFINE T == Unpinned(range, a) \cap (m.pgstart .. m.pgend)
             X == S \cup T
  <2>1. MergeHits(m, a) = {}
    BY <1>2, <1>7 DEF Stopped
  <2>2. Taken(s.range, a, X)
    BY <1>2, <2>1, UnpinFailed
  <2> HIDE DEF S, X
  <2>3. Forgotten(a, X)
    BY <1>7, <2>2, Forgets
  <2>4. DropInv'
    BY <1>4, <1>7, DropKept
  <2>5. /\ UnpinnedPages' = [UnpinnedPages EXCEPT ![a] = @ \ (S \cup T)]
        /\ dropped' = [dropped EXCEPT ![a] = @ \ (S \cup T)]
    BY <2>3 DEF Forgotten, X
  <2>6. T \in SUBSET UnpinnedPages[a]
    BY DEF UnpinnedPages
  <2> HIDE DEF T
  <2>7. PagesSpec!UnpinFails(a, S)
    BY <1>7, <2>5, <2>6 DEF PagesSpec!UnpinFails, UnpinnedPages
  <2> QED
    BY <2>4, <2>7 DEF S
<1>8. ASSUME ~m.inside, NEW i \in Free(s),
             Becomes(range_alloc(s, i, Place(m, a), NewRange(m, a)), Nothing),
             ret' = "NOT_PURGED", nomem' = FALSE
      PROVE  DropInv' /\ PagesSpec!Unpin(a, S)
  <2> DEFINE t == range_alloc(s, i, Place(m, a), NewRange(m, a))
  <2>1. MergeHits(m, a) = {}
    BY <1>2, <1>8 DEF Stopped
  <2>2. Given(t.range, a, S) /\ Keeps(t.range)
    BY <1>2, <1>8, <2>1, UnpinAllocated
  <2>3. Becomes(t, Nothing)
    BY <1>8
  <2> HIDE DEF S, t
  <2>4. Noted(a, S)
    BY <2>2, <2>3, Notes
  <2>5. DropInv'
    BY <2>2, <2>3, DropKept
  <2> QED
    BY <1>5, <1>8, <2>4, <2>5
<1> QED
  BY <1>3, <1>6, <1>7, <1>8

-----------------------------------------------------------------------------
(* The other operations, page by page *)

LEMMA ReleaseStep ==
  ASSUME Inv, DropInv, NEW a \in Areas, ashmem_release(a)
  PROVE  DropInv' /\ PagesSpec!Release(a)
<1> DEFINE s == Released(a)
           X == Unpinned(range, a)
<1>1. /\ DOMAIN s.range = {j \in DOMAIN range : range[j].asma # a}
      /\ \A j \in DOMAIN s.range : s.range[j] = range[j]
  BY ReleasedGood DEF Inv, ListsInv
<1>2. Becomes(s, Nothing) /\ NoAnswer
  BY DEF ashmem_release
<1> HIDE DEF s
<1>3. Fewer(s.range, a)
  BY <1>1 DEF Fewer
<1>4. Keeps(s.range)
  BY <1>3, FewerKeeps DEF Inv, ListsInv
<1>5. DropInv'
  BY <1>2, <1>4, DropKept
<1>6. Unpinned(s.range, a) = {}
  BY <1>1, UnpinnedIs
<1>7. Taken(s.range, a, X)
  BY <1>3, <1>6, FewerPages DEF Taken
<1>8. Forgotten(a, X)
  BY <1>2, <1>7, Forgets
<1>9. UnpinnedPages[a] = X /\ dropped[a] \subseteq X
  BY DroppedUnpinned DEF UnpinnedPages
<1> HIDE DEF X
<1>10. UnpinnedPages[a] \ X = {} /\ dropped[a] \ X = {}
  BY <1>9
<1>11. /\ UnpinnedPages' = [UnpinnedPages EXCEPT ![a] = {}]
       /\ dropped' = [dropped EXCEPT ![a] = {}]
  BY <1>8, <1>10 DEF Forgotten
<1>12. PagesSpec!Release(a)
  BY <1>2, <1>11 DEF PagesSpec!Release, PagesSpec!NoAnswer, NoAnswer, UnpinnedPages
<1> QED
  BY <1>5, <1>12

LEMMA ShrinkStep ==
  ASSUME Inv, DropInv, NEW n \in Scans, ashmem_shrink(n)
  PROVE  DropInv' /\ PagesSpec!Purge
<1> DEFINE s == PurgeRanges(n)
           rng == s.range
           gone == {i \in DOMAIN range : rng[i].purged /\ ~range[i].purged}
           P == [a \in Areas |-> Unpinned(Restrict(range, gone), a)]
<1>1. Good(Lists) /\ n \in Int /\ \A j \in DOMAIN range : IsRange(range[j])
  BY AshmemAssumption, ListsIs DEF Inv, ListsInv, Good, IsLists
<1>2. PurgeResult(rng, {j \in DOMAIN range : ~range[j].purged})
  BY <1>1, PurgeRangesGood
<1>3. Becomes(s, P) /\ NoAnswer
  BY DEF ashmem_shrink
<1> HIDE DEF s
<1>4. /\ range' = rng
      /\ dropped' = [a \in Areas |-> (dropped[a] \cup P[a]) \cap Unpinned(rng, a)]
  BY <1>3 DEF Becomes
<1>5. DOMAIN rng = DOMAIN range
  BY <1>2 DEF PurgeResult
<1>6. \A j \in DOMAIN range : /\ rng[j].asma = range[j].asma
                              /\ rng[j].pgstart = range[j].pgstart /\ rng[j].pgend = range[j].pgend
                              /\ range[j].purged => rng[j].purged
  <2>1. \A j \in DOMAIN range : rng[j] = range[j] \/ rng[j] = Truncated(range[j])
    BY <1>2 DEF PurgeResult
  <2> HIDE DEF rng
  <2> QED
    BY <1>1, <2>1, TruncatedIs
<1>7. ASSUME NEW a \in Areas, NEW p \in P[a]
      PROVE  \E i \in DOMAIN rng : Lost(rng, i, a, p)
  <2> DEFINE R == Restrict(range, gone)
  <2>1. DOMAIN R = gone /\ \A i \in gone : R[i] = range[i]
    BY DEF Restrict
  <2>2. p \in Unpinned(R, a)
    BY <1>7
  <2> HIDE DEF R, gone
  <2>3. PICK i \in DOMAIN R : R[i].asma = a /\ p \in R[i].pgstart .. R[i].pgend
    BY <2>2, UnpinnedIs
  <2>4. i \in DOMAIN range /\ rng[i].purged /\ R[i] = range[i]
    BY <2>1, <2>3 DEF gone
  <2> QED
    BY <1>5, <1>6, <2>3, <2>4 DEF Lost
<1> HIDE DEF P, rng
<1>8. ASSUME NEW a \in Areas PROVE Unpinned(rng, a) = Unpinned(range, a)
  <2>1. \A p : p \in Unpinned(rng, a) <=> p \in Unpinned(range, a)
    BY <1>5, <1>6, UnpinnedIs
  <2> QED
    BY <2>1
<1>9. ASSUME NEW a \in Areas, NEW p \in dropped[a]
      PROVE  \E i \in DOMAIN rng : Lost(rng, i, a, p)
  <2>1. PICK i \in DOMAIN range : Lost(range, i, a, p)
    BY <1>9 DEF DropInv
  <2> QED
    BY <1>5, <1>6, <2>1 DEF Lost
<1>10. DropInv'
  <2> SUFFICES ASSUME NEW a \in Areas, NEW p \in dropped'[a]
               PROVE  \E i \in DOMAIN range' : Lost(range', i, a, p)
    BY DEF DropInv
  <2>1. p \in dropped[a] \/ p \in P[a]
    BY <1>4
  <2> QED
    BY <1>4, <1>7, <1>9, <2>1
<1>11. /\ DOMAIN dropped' = Areas
       /\ \A a \in Areas : dropped[a] \subseteq dropped'[a] /\ dropped'[a] \subseteq UnpinnedPages[a]
  <2>1. \A a \in Areas : /\ dropped'[a] = (dropped[a] \cup P[a]) \cap Unpinned(range, a)
                         /\ UnpinnedPages[a] = Unpinned(range, a)
    BY <1>4, <1>8 DEF UnpinnedPages
  <2>2. \A a \in Areas : dropped[a] \subseteq Unpinned(range, a)
    BY DroppedUnpinned
  <2>3. DOMAIN dropped' = Areas
    BY <1>4
  <2> QED
    BY <2>1, <2>2, <2>3
<1>12. UnpinnedPages' = UnpinnedPages
  BY <1>4, <1>8 DEF UnpinnedPages
<1>13. PagesSpec!Purge
  BY <1>3, <1>11, <1>12 DEF PagesSpec!Purge, PagesSpec!NoAnswer, NoAnswer, UnpinnedPages
<1> QED
  BY <1>10, <1>13

(* A step that leaves the ranges alone. *)
LEMMA QuietStep ==
  ASSUME Inv, DropInv, UNCHANGED ranges
  PROVE  DropInv' /\ (NoAnswer => PagesSpec!Purge)
<1>1. range' = range /\ dropped' = dropped
  BY DEF ranges
<1>2. DropInv'
  BY <1>1 DEF DropInv
<1>3. /\ DOMAIN dropped = Areas
      /\ \A a \in Areas : dropped[a] \subseteq UnpinnedPages[a]
  BY DroppedUnpinned DEF Inv, ListsInv, UnpinnedPages
<1>4. UnpinnedPages' = UnpinnedPages
  BY <1>1 DEF UnpinnedPages
<1>5. NoAnswer => PagesSpec!Purge
  BY <1>1, <1>3, <1>4 DEF PagesSpec!Purge, PagesSpec!NoAnswer, NoAnswer, UnpinnedPages
<1> QED
  BY <1>2, <1>5

LEMMA SizedStep == Inv /\ Sized /\ [Next]_vars => Sized'
<1> SUFFICES ASSUME Inv, Sized, [Next]_vars PROVE Sized'
  OBVIOUS
<1>1. size \in [Areas -> Nat] /\ setting \in {<<>>} \cup Areas \X Nat
  BY DEF Inv, AreasInv
<1>2. /\ \A a \in Areas : size[a] \in Sizes[a] \cup {0}
      /\ setting # <<>> => setting[2] \in Sizes[setting[1]]
  BY DEF Sized
<1>3. CASE UNCHANGED <<size, setting>>
  BY <1>2, <1>3 DEF Sized
<1>4. ASSUME NEW a \in Areas, ashmem_release(a) PROVE Sized'
  <2>1. size' = [size EXCEPT ![a] = 0] /\ setting' = setting
    BY <1>4 DEF ashmem_release
  <2> QED
    BY <1>1, <1>2, <2>1 DEF Sized
<1>5. ASSUME NEW a \in Areas, NEW n \in Sizes[a], set_size_check(a, n) PROVE Sized'
  <2>1. size' = size /\ setting' = <<a, n>>
    BY <1>5 DEF set_size_check
  <2> QED
    BY <1>2, <2>1 DEF Sized
<1>6. ASSUME set_size PROVE Sized'
  <2>1. /\ setting # <<>> /\ setting' = <<>>
        /\ size' = [size EXCEPT ![setting[1]] = setting[2]]
    BY <1>6 DEF set_size
  <2>2. \A a \in Areas : size'[a] \in Sizes[a] \cup {0}
    BY <1>1, <1>2, <2>1
  <2> QED
    BY <2>1, <2>2 DEF Sized
<1>7. \/ UNCHANGED <<size, setting>> \/ set_size
      \/ \E a \in Areas : ashmem_release(a) \/ \E n \in Sizes[a] : set_size_check(a, n)
  BY DEF Next, vars, areas, ashmem_open, ashmem_mmap, ashmem_pin_unpin, ashmem_pin,
         ashmem_unpin, ashmem_shrink
<1> QED
  BY <1>3, <1>4, <1>5, <1>6, <1>7

(* Every step of the ranges is a step of the pages, or changes none.       *)
LEMMA PagesStep ==
  PagesInv /\ [Next]_vars => DropInv' /\ [PagesSpec!Next]_(PagesSpec!apvars)
<1> SUFFICES ASSUME Inv, Sized, DropInv, [Next]_vars
             PROVE  DropInv' /\ [PagesSpec!Next]_(PagesSpec!apvars)
  BY DEF PagesInv
<1>1. ASSUME UNCHANGED ranges, NoAnswer PROVE DropInv' /\ PagesSpec!Next
  BY <1>1, QuietStep DEF PagesSpec!Next
<1>2. ASSUME NEW a \in Areas, ashmem_release(a) PROVE DropInv' /\ PagesSpec!Next
  BY <1>2, ReleaseStep DEF PagesSpec!Next
<1>3. ASSUME NEW a \in Areas, ashmem_pin_unpin(a) PROVE DropInv' /\ PagesSpec!Next
  <2>1. PICK q \in Requests(a) : ashmem_pin(a, q[1], q[2]) \/ ashmem_unpin(a, q[1], q[2])
    BY <1>3 DEF ashmem_pin_unpin
  <2> DEFINE start == q[1]
             end == q[2]
             S == start .. end
  <2>2. start \in Nat /\ end \in Nat /\ start <= end + 1
    BY <1>3, RequestIs DEF Inv, AreasInv, ashmem_pin_unpin
  <2>3. S \in PagesSpec!Intervals \cup {{}}
    BY RequestPages
  <2>4. ashmem_pin(a, start, end) \/ ashmem_unpin(a, start, end)
    BY <2>1
  <2> HIDE DEF start, end
  <2>5. DropInv' /\ (PagesSpec!Pin(a, S) \/ PagesSpec!Unpin(a, S) \/ PagesSpec!UnpinFails(a, S))
    BY <2>2, <2>4, PinPagesStep, UnpinPagesStep
  <2> HIDE DEF S
  <2> QED
    BY <2>3, <2>5 DEF PagesSpec!Next
<1>4. ASSUME NEW n \in Scans, ashmem_shrink(n) PROVE DropInv' /\ PagesSpec!Next
  BY <1>4, ShrinkStep DEF PagesSpec!Next
<1>5. CASE UNCHANGED vars
  <2>1. UNCHANGED ranges /\ range' = range /\ dropped' = dropped /\ ret' = ret /\ nomem' = nomem
    BY <1>5 DEF vars, ranges, answer
  <2>2. DropInv'
    BY <2>1, QuietStep
  <2>3. UNCHANGED PagesSpec!apvars
    BY <2>1 DEF PagesSpec!apvars
  <2> QED
    BY <2>2, <2>3
<1>6. \/ UNCHANGED vars \/ (UNCHANGED ranges /\ NoAnswer)
      \/ \E a \in Areas : ashmem_release(a) \/ ashmem_pin_unpin(a)
      \/ \E n \in Scans : ashmem_shrink(n)
  BY DEF Next, ashmem_open, ashmem_mmap, set_size_check, set_size
<1> QED
  BY <1>1, <1>2, <1>3, <1>4, <1>5, <1>6

(* The ranges, however they are merged, split, shrunk and purged, keep the *)
(* promise made for pages: who pins a page that was truncated is told.     *)
THEOREM PagesTheorem == Spec => ImplementsPages
<1>1. Init => PagesInv /\ PagesSpec!Init
  <2> SUFFICES ASSUME Init PROVE PagesInv /\ PagesSpec!Init
    OBVIOUS
  <2>1. Inv
    BY InitInv
  <2>2. Sized
    BY DEF Init, Sized
  <2>3. DOMAIN range = {} /\ dropped = [a \in Areas |-> {}]
    BY DEF Init, Nothing
  <2>4. DropInv
    BY <2>3 DEF DropInv
  <2>5. \A a \in Areas : Unpinned(range, a) = {}
    BY <2>3, UnpinnedIs
  <2>6. PagesSpec!Init
    BY <2>3, <2>5 DEF PagesSpec!Init, Init
  <2> QED
    BY <2>1, <2>2, <2>4, <2>6 DEF PagesInv
<1>2. PagesInv /\ [Next]_vars => PagesInv'
  BY NextInv, SizedStep, PagesStep DEF PagesInv
<1>3. PagesInv /\ [Next]_vars => [PagesSpec!Next]_(PagesSpec!apvars)
  BY PagesStep
<1> QED
  BY <1>1, <1>2, <1>3, PTL DEF Spec, ImplementsPages, PagesSpec!Spec
=============================================================================
