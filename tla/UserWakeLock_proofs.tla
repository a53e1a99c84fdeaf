------------------------- MODULE UserWakeLock_proofs -------------------------
(***************************************************************************)
(* The names of user wake locks, for any names in ASCII, any numbers of    *)
(* them and any balance of the tree, and the conversion of time-outs for   *)
(* any widths.                                                             *)
(***************************************************************************)
EXTENDS UserWakeLock, NaturalsInduction, WellFoundedInduction, SequenceTheorems, TLAPS

-----------------------------------------------------------------------------
(* Induction and sequences *)

(* A set of numbers that is not empty has a least one. *)
LEMMA Least ==
  ASSUME NEW S \in SUBSET Nat, S # {}
  PROVE  \E n \in S : \A m \in S : n <= m
<1>1. PICK n \in S : \A m \in S : ~(<<m, n>> \in OpToRel(<, Nat))
  BY NatLessThanWellFounded, WFMin
<1>2. \A i, j \in Nat : i < j => <<i, j>> \in OpToRel(<, Nat)
  BY DEF OpToRel
<1>3. \A m \in S : ~(m < n)
  BY <1>1, <1>2
<1> QED
  BY <1>3

(* The operator Min on numbers. *)
LEMMA MinIs ==
  ASSUME NEW S \in SUBSET Nat, S # {}
  PROVE  Min(S) \in S /\ \A m \in S : Min(S) <= m
BY Least DEF Min

(* Steps from 0 up to N. *)
LEMMA Upward ==
  ASSUME NEW N \in Nat, NEW T, 0 \in T, \A n \in 1 .. N : n - 1 \in T => n \in T
  PROVE  \A n \in 0 .. N : n \in T
<1> DEFINE Bad == {n \in 0 .. N : n \notin T}
<1> SUFFICES ASSUME Bad # {} PROVE FALSE
  OBVIOUS
<1>1. Bad \in SUBSET Nat
  OBVIOUS
<1>2. PICK n \in Bad : \A m \in Bad : n <= m
  BY <1>1, Least
<1>3. n # 0 /\ n \in 1 .. N /\ n - 1 \in 0 .. N
  BY <1>2
<1>4. n - 1 \notin Bad
  BY <1>2, <1>3
<1> QED
  BY <1>2, <1>3, <1>4

(* u is q with the name e more, at p. *)
Inserted(q, p, e, u) ==
  /\ u \in Seq(Names) /\ Len(u) = Len(q) + 1
  /\ \A k \in 1 .. Len(q) + 1 : u[k] = IF k < p THEN q[k] ELSE IF k = p THEN e ELSE q[k - 1]

LEMMA InsertAtIs ==
  ASSUME NEW q \in Seq(Names), NEW p \in 1 .. Len(q) + 1, NEW e \in Names
  PROVE  Inserted(q, p, e, InsertAt(q, p, e))
<1> DEFINE u == SubSeq(q, 1, p - 1)
           v == SubSeq(q, p, Len(q))
<1>1. Len(q) \in Nat /\ p \in Nat /\ p >= 1 /\ p <= Len(q) + 1
  OBVIOUS
<1>2. u \in Seq(Names) /\ Len(u) = p - 1 /\ \A k \in 1 .. p - 1 : u[k] = q[k]
  BY <1>1, SubSeqProperties
<1>3. /\ v \in Seq(Names) /\ Len(v) = Len(q) - p + 1
      /\ \A k \in 1 .. Len(q) - p + 1 : v[k] = q[p + k - 1]
  BY <1>1, SubSeqProperties
<1>4. InsertAt(q, p, e) = u \o <<e>> \o v
  BY DEF InsertAt
<1> HIDE DEF u, v
<1> DEFINE w == u \o <<e>>
<1>5. /\ w \in Seq(Names) /\ Len(w) = p
      /\ \A k \in 1 .. p : w[k] = IF k <= p - 1 THEN u[k] ELSE e
  BY <1>1, <1>2
<1> HIDE DEF w
<1>6. /\ w \o v \in Seq(Names) /\ Len(w \o v) = Len(q) + 1
      /\ \A k \in 1 .. Len(q) + 1 : (w \o v)[k] = IF k <= p THEN w[k] ELSE v[k - p]
  <2>1. Len(w) + Len(v) = Len(q) + 1
    BY <1>1, <1>3, <1>5
  <2>2. /\ w \o v \in Seq(Names) /\ Len(w \o v) = Len(w) + Len(v)
        /\ \A k \in 1 .. Len(w) + Len(v) :
             (w \o v)[k] = IF k <= Len(w) THEN w[k] ELSE v[k - Len(w)]
    BY <1>3, <1>5, ConcatProperties
  <2> QED
    BY <1>5, <2>1, <2>2
<1>7. ASSUME NEW k \in 1 .. Len(q) + 1
      PROVE  (w \o v)[k] = IF k < p THEN q[k] ELSE IF k = p THEN e ELSE q[k - 1]
  <2>1. CASE k <= p
    <3>1. /\ k \in 1 .. p /\ (k <= p - 1 <=> k < p) /\ (k < p => k \in 1 .. p - 1)
          /\ (~(k < p) => k = p)
      BY <1>1, <2>1
    <3>2. (w \o v)[k] = w[k] /\ w[k] = IF k <= p - 1 THEN u[k] ELSE e
      BY <1>5, <1>6, <2>1, <3>1
    <3> QED
      BY <1>2, <3>1, <3>2
  <2>2. CASE ~(k <= p)
    <3>1. k - p \in 1 .. Len(q) - p + 1 /\ p + (k - p) - 1 = k - 1
      BY <1>1, <2>2
    <3> QED
      BY <1>1, <1>3, <1>6, <2>2, <3>1
  <2> QED
    BY <2>1, <2>2
<1> QED
  BY <1>4, <1>6, <1>7 DEF w, Inserted

-----------------------------------------------------------------------------
(* Names *)

(* A name is before another where they differ first. *)
Before(s, t, k) ==
  Char(s, k) < Char(t, k) /\ \A i \in 1 .. k - 1 : Char(s, i) = Char(t, i)
Less(s, t) == \E k \in Nat \ {0} : Before(s, t, k)

LEMMA ElementsOf ==
  ASSUME NEW S, NEW s \in Seq(S)
  PROVE  Len(s) \in Nat /\ \A i \in 1 .. Len(s) : s[i] \in S
OBVIOUS

LEMMA CharIs ==
  ASSUME NEW s \in Names
  PROVE  /\ Len(s) \in Nat
         /\ \A i \in Nat \ {0} : Char(s, i) \in Nat
         /\ \A i \in 1 .. Len(s) : Char(s, i) = s[i] /\ Char(s, i) # 0
         /\ \A i \in Nat : i > Len(s) => Char(s, i) = 0
<1>1. s \in Seq(1 .. 255)
  BY UserWakeLockAssumption
<1>0. Len(s) \in Nat /\ \A i \in 1 .. Len(s) : s[i] \in 1 .. 255
  BY <1>1, ElementsOf, Zenon
<1>2. Len(s) \in Nat /\ \A i \in 1 .. Len(s) : s[i] \in Nat \ {0}
  <2>1. \A c \in 1 .. 255 : c \in Nat \ {0}
    OBVIOUS
  <2> QED
    BY <1>0, <2>1, Zenon
<1>3. \A i \in 1 .. Len(s) : Char(s, i) = s[i]
  BY <1>2 DEF Char
<1>4. \A i \in Nat : i > Len(s) => Char(s, i) = 0
  BY <1>2 DEF Char
<1>5. \A i \in Nat \ {0} : i \in 1 .. Len(s) \/ i > Len(s)
  BY <1>2
<1> QED
  BY <1>2, <1>3, <1>4, <1>5

LEMMA LessIrreflexive ==
  ASSUME NEW s \in Names
  PROVE  ~Less(s, s)
BY CharIs DEF Less, Before

LEMMA LessTransitive ==
  ASSUME NEW s \in Names, NEW t \in Names, NEW u \in Names, Less(s, t), Less(t, u)
  PROVE  Less(s, u)
<1>1. PICK j \in Nat \ {0} : Before(s, t, j)
  BY DEF Less
<1>2. PICK k \in Nat \ {0} : Before(t, u, k)
  BY DEF Less
<1> DEFINE m == IF j <= k THEN j ELSE k
<1>3. m \in Nat \ {0} /\ m <= j /\ m <= k /\ (m = j \/ m = k)
  OBVIOUS
<1>4. \A i \in Nat \ {0} : Char(s, i) \in Nat /\ Char(t, i) \in Nat /\ Char(u, i) \in Nat
  BY CharIs
<1> HIDE DEF m
<1>5. \A i \in 1 .. m - 1 : i \in 1 .. j - 1 /\ i \in 1 .. k - 1
  BY <1>3
<1>6. \A i \in 1 .. m - 1 : Char(s, i) = Char(u, i)
  BY <1>1, <1>2, <1>5 DEF Before
<1>7. Char(s, m) <= Char(t, m) /\ Char(t, m) <= Char(u, m)
  <2>1. m = j \/ m \in 1 .. j - 1
    BY <1>3
  <2>2. m = k \/ m \in 1 .. k - 1
    BY <1>3
  <2>3. Char(s, m) <= Char(t, m)
    BY <1>1, <1>3, <1>4, <2>1 DEF Before
  <2>4. Char(t, m) <= Char(u, m)
    BY <1>2, <1>3, <1>4, <2>2 DEF Before
  <2> QED
    BY <2>3, <2>4
<1>8. Char(s, m) < Char(t, m) \/ Char(t, m) < Char(u, m)
  BY <1>1, <1>2, <1>3 DEF Before
<1>9. Char(s, m) < Char(u, m)
  BY <1>3, <1>4, <1>7, <1>8
<1> QED
  BY <1>3, <1>6, <1>9 DEF Less, Before

(* In ASCII the signed char does not matter. *)
LEMMA SignedCharIs ==
  ASSUME NEW a \in 0 .. 127, NEW b \in 0 .. 127
  PROVE  SignedChar(a - b) < 0 <=> a < b
<1>1. a < b => (a - b) % 256 = (a - b) + 256
  OBVIOUS
<1>2. ~(a < b) => (a - b) % 256 = a - b
  OBVIOUS
<1> QED
  BY <1>1, <1>2 DEF SignedChar

LEMMA CharIsAscii ==
  ASSUME AsciiNames, NEW s \in Names, NEW i \in Nat \ {0}
  PROVE  Char(s, i) \in 0 .. 127
<1>1. s \in Seq(1 .. 127)
  BY DEF AsciiNames
<1>2. Len(s) \in Nat /\ \A k \in 1 .. Len(s) : s[k] \in 1 .. 127
  BY <1>1, ElementsOf, Zenon
<1> QED
  BY <1>2 DEF Char

(* strncmp and the test of the next character compare whole names. *)
LEMMA CompareIs ==
  ASSUME AsciiNames, NEW buf \in Names, NEW name \in Names
  PROVE  \/ Compare(buf, name) = -1 /\ Less(buf, name)
         \/ Compare(buf, name) = 1 /\ Less(name, buf)
         \/ Compare(buf, name) = 0 /\ buf = name
<1> DEFINE B == Len(buf)
           differ == {i \in 1 .. B : Char(buf, i) # Char(name, i)}
<1>1. /\ B \in Nat /\ Len(name) \in Nat
      /\ \A i \in Nat \ {0} : Char(buf, i) \in Nat /\ Char(name, i) \in Nat
      /\ \A i \in 1 .. B : Char(buf, i) = buf[i] /\ Char(buf, i) # 0
      /\ \A i \in 1 .. Len(name) : Char(name, i) = name[i] /\ Char(name, i) # 0
      /\ \A i \in Nat : i > B => Char(buf, i) = 0
      /\ \A i \in Nat : i > Len(name) => Char(name, i) = 0
  BY CharIs
<1>2. CASE differ # {}
  <2> DEFINE k == Min(differ)
  <2>1. differ \in SUBSET Nat
    BY <1>1
  <2>2. k \in differ /\ \A i \in differ : k <= i
    <3> HIDE DEF differ
    <3> QED
      BY <1>2, <2>1, MinIs
  <2>8. strncmp(buf, name) =
          IF SignedChar(Char(buf, k) - Char(name, k)) < 0 THEN -1 ELSE 1
    BY <1>2 DEF strncmp
  <2> HIDE DEF k
  <2>3. Compare(buf, name) = IF Char(buf, k) < Char(name, k) THEN -1 ELSE 1
    <3>1. Char(buf, k) \in 0 .. 127 /\ Char(name, k) \in 0 .. 127
      BY <1>1, <2>2, CharIsAscii
    <3>2. strncmp(buf, name) = IF Char(buf, k) < Char(name, k) THEN -1 ELSE 1
      BY <2>8, <3>1, SignedCharIs
    <3> QED
      BY <3>2 DEF Compare
  <2>4. k \in 1 .. B /\ k \in Nat \ {0} /\ Char(buf, k) # Char(name, k)
    BY <1>1, <2>2
  <2>5. \A i \in 1 .. k - 1 : Char(buf, i) = Char(name, i)
    <3>1. \A i \in 1 .. k - 1 : i \in 1 .. B /\ ~(k <= i)
      BY <1>1, <2>4
    <3> QED
      BY <2>2, <3>1
  <2>6. CASE Char(buf, k) < Char(name, k)
    BY <2>3, <2>4, <2>5, <2>6 DEF Less, Before
  <2>7. CASE ~(Char(buf, k) < Char(name, k))
    <3>1. Char(name, k) < Char(buf, k)
      BY <1>1, <2>4, <2>7
    <3> QED
      BY <2>3, <2>4, <2>5, <2>7, <3>1 DEF Less, Before
  <2> QED
    BY <2>6, <2>7
<1>3. CASE differ = {}
  <2>1. \A i \in 1 .. B : Char(buf, i) = Char(name, i)
    BY <1>3
  <2>2. Compare(buf, name) = IF Char(name, B + 1) # 0 THEN -1 ELSE 0
    BY <1>3 DEF Compare, strncmp
  <2> HIDE DEF differ
  <2>3. B + 1 \in Nat \ {0} /\ B + 1 > B /\ (B + 1) - 1 = B
    BY <1>1
  <2>4. CASE Char(name, B + 1) # 0
    <3>1. Char(buf, B + 1) < Char(name, B + 1)
      BY <1>1, <2>3, <2>4
    <3> QED
      BY <2>1, <2>2, <2>3, <2>4, <3>1 DEF Less, Before
  <2>5. CASE Char(name, B + 1) = 0
    <3>1. ~(B + 1 \in 1 .. Len(name))
      BY <1>1, <2>5
    <3>2. Len(name) <= B
      BY <1>1, <3>1
    <3>3. CASE Len(name) < B
      <4>1. Len(name) + 1 \in 1 .. B /\ Len(name) + 1 > Len(name) /\ Len(name) + 1 \in Nat
        BY <1>1, <3>3
      <4> QED
        BY <1>1, <2>1, <4>1
    <3>4. CASE Len(name) = B
      <4>1. \A i \in 1 .. B : buf[i] = name[i]
        BY <1>1, <2>1, <3>4
      <4>2. buf \in Seq(1 .. 255) /\ name \in Seq(1 .. 255)
        BY UserWakeLockAssumption
      <4>3. buf = name
        BY <3>4, <4>1, <4>2, SeqEqual
      <4> QED
        BY <2>2, <2>5, <4>3
    <3> QED
      BY <1>1, <3>2, <3>3, <3>4
  <2> QED
    BY <2>4, <2>5
<1> QED
  BY <1>2, <1>3

-----------------------------------------------------------------------------
(* The search *)

(* One step of a search between w[1] and w[2], by what f says of less. *)
Search(f, w, buf) ==
  IF w[1] > w[2] THEN {[found |-> FALSE, pos |-> w[1]]}
  ELSE UNION {CASE Compare(buf, tree[m]) < 0 -> f[<<w[1], m - 1>>]
                [] Compare(buf, tree[m]) > 0 -> f[<<m + 1, w[2]>>]
                [] OTHER -> {[found |-> TRUE, pos |-> m]}
              : m \in w[1] .. w[2]}

Between == (1 .. Len(tree) + 1) \X (0 .. Len(tree))

(* Functions that agree on what is narrower give the same step. *)
LEMMA SearchNarrower ==
  ASSUME NEW f, NEW g, NEW buf, NEW w \in (1 .. Len(tree) + 1) \X (0 .. Len(tree)),
         Len(tree) \in Nat,
         \A v \in Between : v[2] - v[1] < w[2] - w[1] => f[v] = g[v]
  PROVE  Search(f, w, buf) = Search(g, w, buf)
<1> DEFINE Part(h, m) == CASE Compare(buf, tree[m]) < 0 -> h[<<w[1], m - 1>>]
                           [] Compare(buf, tree[m]) > 0 -> h[<<m + 1, w[2]>>]
                           [] OTHER -> {[found |-> TRUE, pos |-> m]}
<1>1. ASSUME NEW m \in w[1] .. w[2]
      PROVE  f[<<w[1], m - 1>>] = g[<<w[1], m - 1>>] /\ f[<<m + 1, w[2]>>] = g[<<m + 1, w[2]>>]
  <2>1. /\ w[1] \in 1 .. Len(tree) + 1 /\ w[2] \in 0 .. Len(tree) /\ m \in Int
        /\ w[1] <= m /\ m <= w[2]
    BY <1>1
  <2> DEFINE u == <<w[1], m - 1>>
             v == <<m + 1, w[2]>>
  <2>2. /\ u \in Between /\ u[2] - u[1] < w[2] - w[1]
        /\ v \in Between /\ v[2] - v[1] < w[2] - w[1]
    BY <2>1 DEF Between
  <2> HIDE DEF u, v
  <2>3. f[u] = g[u] /\ f[v] = g[v]
    BY <2>2
  <2> QED
    BY <2>3 DEF u, v
<1>2. \A m \in w[1] .. w[2] : Part(f, m) = Part(g, m)
  BY <1>1
<1>3. \A h : Search(h, w, buf) = IF w[1] > w[2] THEN {[found |-> FALSE, pos |-> w[1]]}
                                ELSE UNION {Part(h, m) : m \in w[1] .. w[2]}
  BY DEF Search
<1> HIDE DEF Part
<1>4. UNION {Part(f, m) : m \in w[1] .. w[2]} = UNION {Part(g, m) : m \in w[1] .. w[2]}
  BY <1>2
<1> QED
  BY <1>3, <1>4

(* The ends of searches, as the equation that defines them. *)
LEMMA LookupIs ==
  ASSUME Len(tree) \in Nat, NEW buf
  PROVE  \E f : /\ Lookup(buf) = f[<<1, Len(tree)>>]
                /\ \A w \in Between : f[w] = Search(f, w, buf)
<1> DEFINE D == Between
           N == Len(tree)
           Step(f, w) == Search(f, w, buf)
           Upto(n, f) == \A w \in D : w[2] - w[1] < n => f[w] = Step(f, w)
           T == {n \in 0 .. N : \E f : Upto(n, f)}
<1>0. \A w \in D : /\ w \in (1 .. Len(tree) + 1) \X (0 .. Len(tree))
                   /\ w[1] \in 1 .. N + 1 /\ w[2] \in 0 .. N /\ w[2] - w[1] \in Int
                   /\ w[2] - w[1] < N
  BY DEF Between
<1>1. 0 \in T
  <2> DEFINE f == [w \in D |-> {[found |-> FALSE, pos |-> w[1]]}]
  <2>1. ASSUME NEW w \in D, w[2] - w[1] < 0 PROVE f[w] = Step(f, w)
    <3>1. w[1] > w[2]
      BY <1>0, <2>1
    <3> QED
      BY <2>1, <3>1 DEF Search
  <2> HIDE DEF f, Step, D
  <2>2. Upto(0, f)
    BY <2>1
  <2> HIDE DEF Upto
  <2> QED
    BY <2>2
<1>2. ASSUME NEW n \in 1 .. N, n - 1 \in T PROVE n \in T
  <2>1. PICK f : Upto(n - 1, f)
    BY <1>2
  <2> DEFINE g == [w \in D |-> IF w[2] - w[1] < n - 1 THEN f[w] ELSE Step(f, w)]
  <2>2. ASSUME NEW w \in D, w[2] - w[1] < n PROVE g[w] = Step(g, w)
    <3>1. \A v \in D : v[2] - v[1] < w[2] - w[1] => v[2] - v[1] < n - 1
      BY <1>0, <2>2
    <3>2. \A v \in D : v[2] - v[1] < w[2] - w[1] => g[v] = f[v]
      <4> HIDE DEF Step, D
      <4> QED
        BY <3>1
    <3>3. Step(g, w) = Step(f, w)
      <4> HIDE DEF g
      <4> QED
        BY <1>0, <2>2, <3>2, SearchNarrower
    <3>4. g[w] = Step(f, w)
      <4> HIDE DEF Step, D
      <4> QED
        BY <2>1, <2>2
    <3> QED
      BY <3>3, <3>4
  <2> HIDE DEF g, Step, D
  <2>3. Upto(n, g)
    BY <2>2
  <2> HIDE DEF Upto
  <2> QED
    BY <2>3
<1>3. \A n \in 0 .. N : n \in T
  <2> HIDE DEF T
  <2> QED
    BY <1>1, <1>2, Upward
<1>4. PICK f0 : Upto(N, f0)
  <2> HIDE DEF Upto
  <2>1. N \in 0 .. N
    OBVIOUS
  <2> QED
    BY <1>3, <2>1
<1> DEFINE f == [w \in D |-> f0[w]]
<1>5. f = [w \in D |-> Step(f, w)]
  <2>1. \A w \in D : f[w] = f0[w]
    OBVIOUS
  <2> HIDE DEF f
  <2>2. ASSUME NEW w \in D PROVE Step(f0, w) = Step(f, w)
    BY <1>0, <2>1, <2>2, SearchNarrower
  <2> HIDE DEF Step, D
  <2>3. \A w \in D : f0[w] = Step(f, w)
    BY <1>0, <1>4, <2>2
  <2> QED
    BY <2>3 DEF f
<1> DEFINE ends == CHOOSE h : h = [w \in D |-> Step(h, w)]
<1>6. ends = [w \in D |-> Step(ends, w)]
  <2> HIDE DEF Step, D, f
  <2> QED
    BY <1>5
<1>7. Lookup(buf) = ends[<<1, N>>]
  BY DEF Lookup, Search, Between
<1> HIDE DEF ends
<1>8. \A w \in D : ends[w] = Step(ends, w)
  <2> HIDE DEF Step, D
  <2> QED
    BY <1>6
<1> QED
  BY <1>7, <1>8

(* The names in the tree are in order, as names in ASCII are. *)
TreeInv ==
  /\ AsciiNames
  /\ tree \in Seq(Names)
  /\ \A i, j \in 1 .. Len(tree) : i < j => Less(tree[i], tree[j])

(* buf is behind the entries before w[1], and before those behind w[2]. *)
Around(w, buf) ==
  /\ \A j \in 1 .. Len(tree) : j < w[1] => Less(tree[j], buf)
  /\ \A j \in 1 .. Len(tree) : j > w[2] => Less(buf, tree[j])

(* The entry of buf, or the only place that keeps the order. *)
RightEnd(e, buf) ==
  \/ e.found /\ e.pos \in 1 .. Len(tree) /\ tree[e.pos] = buf
  \/ /\ ~e.found /\ e.pos \in 1 .. Len(tree) + 1
     /\ Around(<<e.pos, e.pos - 1>>, buf)

LEMMA TreeIs ==
  ASSUME TreeInv
  PROVE  /\ Len(tree) \in Nat
         /\ \A i \in 1 .. Len(tree) : tree[i] \in Names
BY DEF TreeInv

(* The search keeps buf around, whichever entry it looks at. *)
LEMMA AroundNarrower ==
  ASSUME TreeInv, NEW buf \in Names, NEW w \in Between, Around(w, buf), NEW m \in w[1] .. w[2]
  PROVE  /\ m \in 1 .. Len(tree)
         /\ Less(buf, tree[m]) => Around(<<w[1], m - 1>>, buf)
         /\ Less(tree[m], buf) => Around(<<m + 1, w[2]>>, buf)
<1>1. /\ Len(tree) \in Nat /\ \A i \in 1 .. Len(tree) : tree[i] \in Names
      /\ \A i, j \in 1 .. Len(tree) : i < j => Less(tree[i], tree[j])
  BY TreeIs DEF TreeInv
<1>2. w[1] \in 1 .. Len(tree) + 1 /\ w[2] \in 0 .. Len(tree) /\ m \in 1 .. Len(tree)
  BY <1>1 DEF Between
<1>3. /\ \A j \in 1 .. Len(tree) : j < w[1] => Less(tree[j], buf)
      /\ \A j \in 1 .. Len(tree) : j > w[2] => Less(buf, tree[j])
  BY DEF Around
<1>4. ASSUME Less(buf, tree[m]), NEW j \in 1 .. Len(tree), j > m - 1
      PROVE  Less(buf, tree[j])
  <2>1. j = m \/ m < j
    BY <1>2, <1>4
  <2> QED
    BY <1>1, <1>2, <1>4, <2>1, LessTransitive
<1>5. ASSUME Less(tree[m], buf), NEW j \in 1 .. Len(tree), j < m + 1
      PROVE  Less(tree[j], buf)
  <2>1. j = m \/ j < m
    BY <1>2, <1>5
  <2> QED
    BY <1>1, <1>2, <1>5, <2>1, LessTransitive
<1> QED
  BY <1>2, <1>3, <1>4, <1>5 DEF Around

(* Every search tree leads to the right end. *)
LEMMA LookupRight ==
  ASSUME TreeInv, NEW buf \in Names, NEW e \in Lookup(buf)
  PROVE  RightEnd(e, buf)
<1> DEFINE N == Len(tree)
<1>1. N \in Nat /\ \A i \in 1 .. N : tree[i] \in Names
  BY TreeIs
<1>2. PICK f : /\ Lookup(buf) = f[<<1, N>>]
               /\ \A w \in Between : f[w] = Search(f, w, buf)
  BY <1>1, LookupIs
<1> DEFINE R(n) == \A w \in Between :
                     (w[1] <= w[2] + 1 /\ w[2] - w[1] < n /\ Around(w, buf)) =>
                       \A x \in f[w] : RightEnd(x, buf)
           T == {n \in 0 .. N : R(n)}
<1>3. ASSUME NEW w \in Between, w[1] = w[2] + 1, Around(w, buf), NEW x \in f[w]
      PROVE  RightEnd(x, buf)
  <2>1. w[1] \in 1 .. N + 1 /\ w[2] \in 0 .. N /\ w[1] > w[2] /\ w[2] = w[1] - 1
    BY <1>1, <1>3 DEF Between
  <2>2. x = [found |-> FALSE, pos |-> w[1]]
    BY <1>2, <1>3, <2>1 DEF Search
  <2>3. ~x.found /\ x.pos = w[1]
    BY <2>2
  <2>4. Around(<<x.pos, x.pos - 1>>, buf)
    BY <1>3, <2>1, <2>3 DEF Around
  <2> QED
    BY <2>1, <2>3, <2>4 DEF RightEnd
<1>4. 0 \in T
  <2> SUFFICES ASSUME NEW w \in Between, w[1] <= w[2] + 1, w[2] - w[1] < 0, Around(w, buf),
                      NEW x \in f[w]
               PROVE  RightEnd(x, buf)
    BY <1>1
  <2>1. w[1] = w[2] + 1
    BY <1>1 DEF Between
  <2> QED
    BY <1>3, <2>1
<1>5. ASSUME NEW n \in 1 .. N, n - 1 \in T PROVE n \in T
  <2>1. R(n - 1)
    BY <1>5
  <2> SUFFICES ASSUME NEW w \in Between, w[1] <= w[2] + 1, w[2] - w[1] < n, Around(w, buf),
                      NEW x \in f[w]
               PROVE  RightEnd(x, buf)
    BY <1>1
  <2>2. w[1] \in 1 .. N + 1 /\ w[2] \in 0 .. N
    BY DEF Between
  <2>3. CASE w[1] = w[2] + 1
    BY <1>3, <2>3
  <2>4. CASE w[1] <= w[2]
    <3>1. f[w] = Search(f, w, buf) /\ ~(w[1] > w[2])
      BY <1>1, <1>2, <2>2, <2>4
    <3>2. PICK m \in w[1] .. w[2] :
            x \in CASE Compare(buf, tree[m]) < 0 -> f[<<w[1], m - 1>>]
                    [] Compare(buf, tree[m]) > 0 -> f[<<m + 1, w[2]>>]
                    [] OTHER -> {[found |-> TRUE, pos |-> m]}
      BY <3>1 DEF Search
    <3>3. /\ m \in 1 .. N
          /\ Less(buf, tree[m]) => Around(<<w[1], m - 1>>, buf)
          /\ Less(tree[m], buf) => Around(<<m + 1, w[2]>>, buf)
      BY <3>2, AroundNarrower
    <3>4. \/ Compare(buf, tree[m]) = -1 /\ Less(buf, tree[m])
          \/ Compare(buf, tree[m]) = 1 /\ Less(tree[m], buf)
          \/ Compare(buf, tree[m]) = 0 /\ buf = tree[m]
      BY <1>1, <3>3, CompareIs DEF TreeInv
    <3>5. CASE Compare(buf, tree[m]) = -1 /\ Less(buf, tree[m])
      <4> DEFINE v == <<w[1], m - 1>>
      <4>1. v \in Between /\ v[1] <= v[2] + 1 /\ v[2] - v[1] < n - 1
        BY <1>1, <2>2, <2>4, <3>2, <3>3 DEF Between
      <4>2. x \in f[v] /\ Around(v, buf)
        BY <3>2, <3>3, <3>5
      <4> HIDE DEF v
      <4> QED
        BY <2>1, <4>1, <4>2
    <3>6. CASE Compare(buf, tree[m]) = 1 /\ Less(tree[m], buf)
      <4> DEFINE v == <<m + 1, w[2]>>
      <4>1. v \in Between /\ v[1] <= v[2] + 1 /\ v[2] - v[1] < n - 1
        BY <1>1, <2>2, <2>4, <3>2, <3>3 DEF Between
      <4>2. x \in f[v] /\ Around(v, buf)
        BY <3>2, <3>3, <3>6
      <4> HIDE DEF v
      <4> QED
        BY <2>1, <4>1, <4>2
    <3>7. CASE Compare(buf, tree[m]) = 0 /\ buf = tree[m]
      <4>1. x = [found |-> TRUE, pos |-> m]
        BY <3>2, <3>7
      <4> QED
        BY <3>3, <3>7, <4>1 DEF RightEnd
    <3> QED
      BY <3>4, <3>5, <3>6, <3>7
  <2> QED
    BY <1>1, <2>2, <2>3, <2>4
<1>6. \A n \in 0 .. N : n \in T
  <2> HIDE DEF T
  <2> QED
    BY <1>1, <1>4, <1>5, Upward
<1>7. R(N)
  <2>1. N \in 0 .. N
    BY <1>1
  <2> QED
    BY <1>6, <2>1
<1> DEFINE w == <<1, N>>
<1>8. w \in Between /\ w[1] <= w[2] + 1 /\ w[2] - w[1] < N /\ Around(w, buf)
  BY <1>1 DEF Between, Around
<1> HIDE DEF w, N
<1> QED
  BY <1>2, <1>7, <1>8 DEF w

-----------------------------------------------------------------------------
(* The steps *)

InTree(n) == \E i \in 1 .. Len(tree) : tree[i] = n

(* How a time-out is held. *)
HeldFor(ns) == IF ToJiffies(ns) # 0 THEN Timed(ToJiffies(ns)) ELSE Forever

LockInv ==
  /\ held = [n \in Names |-> held[n]] /\ asked = [n \in Names |-> asked[n]]
  /\ \A n \in Names :
       /\ held[n] = Free <=> asked[n] = Free
       /\ held[n] # Free => InTree(n)
       /\ \/ asked[n] \in {Free, Forever}
          \/ \E ns \in Timeouts : asked[n] = Timed(ns) /\ held[n] = HeldFor(ns)

Inv == TreeInv /\ LockInv

LEMMA Kinds ==
  ASSUME NEW t
  PROVE  /\ Free.kind = "free" /\ Forever.kind = "forever"
         /\ Timed(t).kind = "timed" /\ Timed(t).time = t
         /\ Free # Forever /\ Timed(t) # Free
BY DEF Free, Forever, Timed

LEMMA PlacedInOrder ==
  ASSUME TreeInv, NEW buf \in Names, NEW p \in 1 .. Len(tree) + 1, Around(<<p, p - 1>>, buf),
         tree' = InsertAt(tree, p, buf)
  PROVE  /\ TreeInv' /\ InTree(buf)'
         /\ \A n : InTree(n) => InTree(n)'
<1> DEFINE N == Len(tree)
           u == tree'
<1>1. /\ N \in Nat /\ tree \in Seq(Names)
      /\ \A i, j \in 1 .. N : i < j => Less(tree[i], tree[j])
  BY TreeIs DEF TreeInv
<1>2. /\ u \in Seq(Names) /\ Len(u) = N + 1
      /\ \A k \in 1 .. N + 1 : u[k] = IF k < p THEN tree[k] ELSE IF k = p THEN buf ELSE tree[k - 1]
  <2>1. Inserted(tree, p, buf, u)
    BY <1>1, InsertAtIs
  <2> QED
    BY <2>1 DEF Inserted
<1>3. /\ \A j \in 1 .. N : j < p => Less(tree[j], buf)
      /\ \A j \in 1 .. N : j > p - 1 => Less(buf, tree[j])
  BY DEF Around
<1>4. p \in Nat /\ p >= 1 /\ p <= N + 1
  BY <1>1
<1> HIDE DEF u, N
<1>5. ASSUME NEW i \in 1 .. N + 1, NEW j \in 1 .. N + 1, i < j
      PROVE  Less(u[i], u[j])
  <2>0. i \in Nat /\ j \in Nat /\ i >= 1 /\ j <= N + 1 /\ i < j
    BY <1>1, <1>5
  <2>1. CASE j < p
    <3>1. u[i] = tree[i] /\ u[j] = tree[j] /\ i \in 1 .. N /\ j \in 1 .. N
      BY <1>1, <1>2, <1>4, <2>0, <2>1
    <3> QED
      BY <1>1, <1>5, <3>1
  <2>2. CASE j = p
    <3>1. u[i] = tree[i] /\ u[j] = buf /\ i \in 1 .. N /\ i < p
      BY <1>1, <1>2, <1>4, <2>0, <2>2
    <3> QED
      BY <1>3, <3>1
  <2>3. CASE j > p /\ i < p
    <3>1. u[i] = tree[i] /\ u[j] = tree[j - 1] /\ i \in 1 .. N /\ j - 1 \in 1 .. N /\ i < j - 1
      BY <1>1, <1>2, <1>4, <2>0, <2>3
    <3> QED
      BY <1>1, <3>1
  <2>4. CASE j > p /\ i = p
    <3>1. u[i] = buf /\ u[j] = tree[j - 1] /\ j - 1 \in 1 .. N /\ j - 1 > p - 1
      BY <1>1, <1>2, <1>4, <2>0, <2>4
    <3> QED
      BY <1>3, <3>1
  <2>5. CASE i > p
    <3>1. /\ u[i] = tree[i - 1] /\ u[j] = tree[j - 1]
          /\ i - 1 \in 1 .. N /\ j - 1 \in 1 .. N /\ i - 1 < j - 1
      BY <1>1, <1>2, <1>4, <2>0, <2>5
    <3> QED
      BY <1>1, <3>1
  <2> QED
    BY <1>4, <2>0, <2>1, <2>2, <2>3, <2>4, <2>5
<1>6. TreeInv'
  BY <1>2, <1>5 DEF TreeInv, AsciiNames, u
<1>7. InTree(buf)'
  <2>1. p \in 1 .. N + 1 /\ u[p] = buf
    BY <1>1, <1>2, <1>4
  <2> QED
    BY <1>2, <2>1 DEF InTree, u
<1>8. ASSUME NEW n, InTree(n) PROVE InTree(n)'
  <2>1. PICK i \in 1 .. N : tree[i] = n
    BY <1>8 DEF InTree, N
  <2>2. CASE i < p
    <3>1. i \in 1 .. N + 1 /\ u[i] = n
      BY <1>1, <1>2, <2>1, <2>2
    <3> QED
      BY <1>2, <3>1 DEF InTree, u
  <2>3. CASE ~(i < p)
    <3>1. i + 1 \in 1 .. N + 1 /\ ~(i + 1 < p) /\ i + 1 # p /\ (i + 1) - 1 = i
      BY <1>1, <1>4, <2>1, <2>3
    <3>2. u[i + 1] = n
      BY <1>2, <2>1, <3>1
    <3> QED
      BY <1>2, <3>1, <3>2 DEF InTree, u
  <2> QED
    BY <2>2, <2>3
<1> QED
  BY <1>6, <1>7, <1>8

(* A write reaches the lock of its own name. *)
Reaches(buf, h) ==
  /\ TreeInv' /\ held' = [held EXCEPT ![buf] = h]
  /\ InTree(buf)' /\ \A n : InTree(n) => InTree(n)'

LEMMA SetLockIs ==
  ASSUME TreeInv, NEW buf \in Names, NEW h, NEW e \in Lookup(buf), SetLock(e, buf, h)
  PROVE  Reaches(buf, h)
<1>1. RightEnd(e, buf)
  BY LookupRight
<1>2. CASE e.found
  <2>1. e.pos \in 1 .. Len(tree) /\ tree[e.pos] = buf
    BY <1>1, <1>2 DEF RightEnd
  <2>2. held' = [held EXCEPT ![buf] = h] /\ tree' = tree
    BY <1>2, <2>1 DEF SetLock
  <2>3. TreeInv'
    BY <2>2 DEF TreeInv
  <2>4. InTree(buf)' /\ \A n : InTree(n) => InTree(n)'
    BY <2>1, <2>2 DEF InTree
  <2> QED
    BY <2>2, <2>3, <2>4 DEF Reaches
<1>3. CASE ~e.found
  <2>1. e.pos \in 1 .. Len(tree) + 1 /\ Around(<<e.pos, e.pos - 1>>, buf)
    BY <1>1, <1>3 DEF RightEnd
  <2>2. held' = [held EXCEPT ![buf] = h] /\ tree' = InsertAt(tree, e.pos, buf)
    BY <1>3 DEF SetLock
  <2>3. /\ TreeInv' /\ InTree(buf)'
        /\ \A n : InTree(n) => InTree(n)'
    BY <2>1, <2>2, PlacedInOrder
  <2> QED
    BY <2>2, <2>3 DEF Reaches
<1> QED
  BY <1>2, <1>3

LEMMA NotFound ==
  ASSUME TreeInv, NEW buf \in Names, NEW e \in Lookup(buf), ~e.found
  PROVE  ~InTree(buf)
<1>1. RightEnd(e, buf)
  BY LookupRight
<1>2. /\ e.pos \in 1 .. Len(tree) + 1 /\ Len(tree) \in Nat
      /\ \A j \in 1 .. Len(tree) : j < e.pos => Less(tree[j], buf)
      /\ \A j \in 1 .. Len(tree) : j > e.pos - 1 => Less(buf, tree[j])
  BY <1>1, TreeIs DEF RightEnd, Around
<1>3. \A j \in 1 .. Len(tree) : j < e.pos \/ j > e.pos - 1
  BY <1>2
<1> QED
  BY <1>2, <1>3, LessIrreflexive DEF InTree

(* What was asked for is noted with the lock. *)
LEMMA LockStep ==
  ASSUME Inv, NEW buf \in Names, NEW h, NEW x, Reaches(buf, h),
         asked' = [asked EXCEPT ![buf] = x], h = Free <=> x = Free,
         x \in {Free, Forever} \/ \E ns \in Timeouts : x = Timed(ns) /\ h = HeldFor(ns)
  PROVE  Inv'
<1>1. /\ TreeInv' /\ held' = [held EXCEPT ![buf] = h]
      /\ InTree(buf)' /\ \A n : InTree(n) => InTree(n)'
  BY DEF Reaches
<1>2. held = [n \in Names |-> held[n]] /\ asked = [n \in Names |-> asked[n]]
  BY DEF Inv, LockInv
<1>3. /\ held' = [n \in Names |-> held'[n]] /\ asked' = [n \in Names |-> asked'[n]]
      /\ held'[buf] = h /\ asked'[buf] = x
      /\ \A n \in Names \ {buf} : held'[n] = held[n] /\ asked'[n] = asked[n]
  BY <1>1, <1>2
<1>4. ASSUME NEW n \in Names
      PROVE  /\ held'[n] = Free <=> asked'[n] = Free
             /\ held'[n] # Free => InTree(n)'
             /\ \/ asked'[n] \in {Free, Forever}
                \/ \E ns \in Timeouts : asked'[n] = Timed(ns) /\ held'[n] = HeldFor(ns)
  <2>1. CASE n = buf
    BY <1>1, <1>3, <2>1
  <2>2. CASE n # buf
    <3>1. held'[n] = held[n] /\ asked'[n] = asked[n]
      BY <1>3, <2>2
    <3> QED
      BY <1>1, <3>1 DEF Inv, LockInv
  <2> QED
    BY <2>1, <2>2
<1>5. LockInv'
  BY <1>3, <1>4 DEF LockInv, HeldFor, ToJiffies, ToLong, Timed, Free, Forever
<1> QED
  BY <1>1, <1>5 DEF Inv

LEMMA InitInv ==
  ASSUME AsciiNames PROVE Init => Inv
<1> SUFFICES ASSUME Init PROVE Inv
  OBVIOUS
<1>1. tree = <<>> /\ held = [n \in Names |-> Free] /\ asked = [n \in Names |-> Free]
  BY DEF Init
<1>2. TreeInv
  BY <1>1 DEF TreeInv
<1>3. LockInv
  BY <1>1 DEF LockInv
<1> QED
  BY <1>2, <1>3 DEF Inv

LEMMA NextInv == Inv /\ [Next]_vars => Inv'
<1> SUFFICES ASSUME Inv, [Next]_vars PROVE Inv'
  OBVIOUS
<1>0. TreeInv
  BY DEF Inv
<1>1. ASSUME NEW buf \in Names, wake_lock_store(buf) PROVE Inv'
  <2>1. PICK e \in Lookup(buf) : SetLock(e, buf, Forever)
    BY <1>1 DEF wake_lock_store
  <2>2. Reaches(buf, Forever)
    BY <1>0, <2>1, SetLockIs
  <2>3. asked' = [asked EXCEPT ![buf] = Forever]
    BY <1>1 DEF wake_lock_store
  <2> QED
    BY <2>2, <2>3, LockStep
<1>2. ASSUME NEW buf \in Names, wake_unlock_store(buf) PROVE Inv'
  <2>1. PICK e \in Lookup(buf) :
          IF e.found THEN SetLock(e, buf, Free) ELSE UNCHANGED <<tree, held>>
    BY <1>2 DEF wake_unlock_store
  <2>2. asked' = [asked EXCEPT ![buf] = Free]
    BY <1>2 DEF wake_unlock_store
  <2>3. CASE e.found
    <3>1. Reaches(buf, Free)
      BY <1>0, <2>1, <2>3, SetLockIs
    <3> QED
      BY <2>2, <3>1, LockStep
  <2>4. CASE ~e.found
    <3>1. ~InTree(buf)
      BY <1>0, <2>4, NotFound
    <3>2. held[buf] = Free /\ asked[buf] = Free /\ asked = [n \in Names |-> asked[n]]
      BY <3>1 DEF Inv, LockInv
    <3>3. tree' = tree /\ held' = held /\ asked' = asked
      BY <2>1, <2>2, <2>4, <3>2
    <3> QED
      BY <3>3 DEF Inv, TreeInv, AsciiNames, LockInv, InTree
  <2> QED
    BY <2>3, <2>4
<1>3. ASSUME NEW buf \in Names, NEW ns \in Timeouts, wake_lock_store_timeout(buf, ns) PROVE Inv'
  <2>1. PICK e \in Lookup(buf) : SetLock(e, buf, HeldFor(ns))
    BY <1>3 DEF wake_lock_store_timeout, HeldFor
  <2>2. Reaches(buf, HeldFor(ns))
    BY <1>0, <2>1, SetLockIs
  <2>3. asked' = [asked EXCEPT ![buf] = Timed(ns)]
    BY <1>3 DEF wake_lock_store_timeout
  <2>4. HeldFor(ns) # Free /\ Timed(ns) # Free
    BY Kinds DEF HeldFor
  <2> QED
    BY <2>2, <2>3, <2>4, LockStep
<1>4. CASE UNCHANGED vars
  BY <1>4 DEF vars, Inv, TreeInv, AsciiNames, LockInv, InTree
<1> QED
  BY <1>1, <1>2, <1>3, <1>4 DEF Next

LEMMA InvAlways ==
  ASSUME AsciiNames PROVE Spec => []Inv
<1>1. Init => Inv
  BY InitInv
<1>2. Inv /\ [Next]_vars => Inv'
  BY NextInv
<1> QED
  BY <1>1, <1>2, PTL DEF Spec

-----------------------------------------------------------------------------
(* The properties *)

(* Whatever names in ASCII user space writes and however the tree is       *)
(* balanced, a write reaches the lock of its name and of no other.         *)
THEOREM OwnLockTheorem ==
  ASSUME AsciiNames
  PROVE  Spec => []EachNameItsOwnLock
<1>1. Inv => EachNameItsOwnLock
  <2> SUFFICES ASSUME Inv PROVE EachNameItsOwnLock
    OBVIOUS
  <2>1. /\ Len(tree) \in Nat /\ \A i \in 1 .. Len(tree) : tree[i] \in Names
        /\ \A i, j \in 1 .. Len(tree) : i < j => Less(tree[i], tree[j])
    BY TreeIs DEF Inv, TreeInv
  <2>2. ASSUME NEW i \in 1 .. Len(tree), NEW j \in 1 .. Len(tree), tree[i] = tree[j]
        PROVE  i = j
    <3>1. ~(i < j) /\ ~(j < i)
      BY <2>1, <2>2, LessIrreflexive
    <3> QED
      BY <2>1, <3>1
  <2>3. \A n \in Names : held[n] = Free <=> asked[n] = Free
    BY DEF Inv, LockInv
  <2> QED
    BY <2>2, <2>3 DEF EachNameItsOwnLock
<1> QED
  BY <1>1, InvAlways, PTL

(* The time-outs that the conversion has room for: neither the sum in a    *)
(* u64 nor the number of jiffies in a long wraps.                          *)
TimeoutsFit ==
  \A ns \in Timeouts : /\ ns + NsecPerJiffy - 1 < 2^U64Bits
                       /\ (ns + NsecPerJiffy - 1) \div NsecPerJiffy < 2^(LongBits - 1)

LEMMA SmallModulo ==
  ASSUME NEW m \in Nat, NEW x \in Nat, x < m
  PROVE  x % m = x
<1>1. m > 0
  OBVIOUS
<1>2. x \div m \in Int /\ x = m * (x \div m) + (x % m) /\ x % m \in 0 .. m - 1
  BY <1>1
<1> DEFINE q == x \div m
           r == x % m
<1>3. q \in Int /\ r \in Int /\ x = m * q + r /\ 0 <= r /\ r < m
  BY <1>2
<1> HIDE DEF q, r
<1>4. q < 1
  <2> SUFFICES ASSUME q >= 1 PROVE FALSE
    BY <1>3
  <2>1. m * q >= m /\ m * q \in Int
    BY <1>3
  <2> QED
    BY <1>3, <2>1
<1>5. q > -1
  <2> SUFFICES ASSUME q <= -1 PROVE FALSE
    BY <1>3
  <2>1. m * q <= -m /\ m * q \in Int
    BY <1>3
  <2> QED
    BY <1>3, <2>1
<1>6. q = 0
  BY <1>3, <1>4, <1>5
<1>7. r = x
  BY <1>3, <1>6
<1> QED
  BY <1>7 DEF r

LEMMA RoundedUp ==
  ASSUME NEW d \in Nat, d > 0, NEW ns \in Nat, NEW j, j = (ns + d - 1) \div d
  PROVE  /\ j \in Nat /\ j * d >= ns
         /\ ns = 0 => j = 0
         /\ ns # 0 => j > 0 /\ (j - 1) * d < ns
<1> DEFINE x == ns + d - 1
           r == x % d
<1>1. x \in Nat
  OBVIOUS
<1> HIDE DEF x
<1>2. j \in Int /\ x = d * j + r /\ r \in 0 .. d - 1
  BY <1>1 DEF x
<1>3. r \in Int /\ 0 <= r /\ r <= d - 1 /\ d * j \in Int /\ d * j = j * d /\ (j - 1) * d = j * d - d
  BY <1>2
<1> HIDE DEF r
<1>4. j * d \in Int /\ j * d = ns + d - 1 - r
  BY <1>2, <1>3 DEF x
<1>5. j * d >= ns /\ (j - 1) * d < ns
  BY <1>3, <1>4
<1>6. j > -1
  <2> SUFFICES ASSUME j <= -1 PROVE FALSE
    BY <1>2
  <2>1. j * d <= -d
    BY <1>2
  <2> QED
    BY <1>4, <1>5, <2>1
<1>7. ns # 0 => j > 0
  <2> SUFFICES ASSUME j = 0, ns # 0 PROVE FALSE
    BY <1>2, <1>6
  <2>1. j * d = 0
    OBVIOUS
  <2> QED
    BY <1>5, <2>1
<1>8. ns = 0 => j = 0
  <2> SUFFICES ASSUME j >= 1, ns = 0 PROVE FALSE
    BY <1>2, <1>6
  <2>1. j * d >= d
    BY <1>2
  <2> QED
    BY <1>3, <1>4, <2>1
<1> QED
  BY <1>2, <1>5, <1>6, <1>7, <1>8

LEMMA ToJiffiesIs ==
  ASSUME TimeoutsFit, NEW ns \in Timeouts, NEW j, j = ToJiffies(ns)
  PROVE  /\ ns \in Nat /\ j \in Nat \ {0} /\ j * NsecPerJiffy >= ns
         /\ ns = 0 => j = 1
         /\ ns # 0 => (j - 1) * NsecPerJiffy < ns
<1> DEFINE d == NsecPerJiffy
           U == 2^U64Bits
           L == 2^LongBits
           H == 2^(LongBits - 1)
           x == ns + d - 1
           k == x \div d
           y == IF k <= 0 THEN 1 ELSE k
<1>1. /\ d \in Nat /\ d > 0 /\ U \in Nat /\ L \in Nat /\ H \in Nat /\ H > 1 /\ L = H + H
      /\ ns \in 0 .. U - 1
  BY UserWakeLockAssumption, PowersAssumption
<1>2. x < U /\ k < H
  BY DEF TimeoutsFit
<1>3. j = ToLong(IF (x % U) \div d <= 0 THEN 1 ELSE (x % U) \div d)
  BY DEF ToJiffies
<1>4. \A z : ToLong(z) = IF z % L < H THEN z % L ELSE (z % L) - L
  BY DEF ToLong
<1> HIDE DEF d, U, L, H
<1>5. ns \in Nat /\ x \in Nat
  BY <1>1
<1>6. x % U = x
  <2> HIDE DEF x
  <2> QED
    BY <1>1, <1>2, <1>5, SmallModulo
<1>7. /\ k \in Nat /\ k * d >= ns
      /\ ns = 0 => k = 0
      /\ ns # 0 => k > 0 /\ (k - 1) * d < ns
  BY <1>1, <1>5, RoundedUp
<1>8. j = ToLong(y)
  <2> HIDE DEF x
  <2> QED
    BY <1>3, <1>6
<1> HIDE DEF k, x
<1>9. /\ y \in Nat /\ y > 0 /\ (k > 0 => y = k) /\ (k = 0 => y = 1)
  BY <1>7
<1>10. y < H
  BY <1>1, <1>2, <1>7, <1>9
<1> HIDE DEF y
<1>11. y < L
  BY <1>1, <1>9, <1>10
<1>12. y % L = y
  BY <1>1, <1>9, <1>11, SmallModulo
<1>13. j = y
  BY <1>4, <1>8, <1>10, <1>12
<1>14. CASE ns = 0
  <2>1. j = 1 /\ j * d = d
    BY <1>1, <1>7, <1>9, <1>13, <1>14
  <2> QED
    BY <1>1, <1>14, <2>1 DEF d
<1>15. CASE ns # 0
  <2>1. j = k
    BY <1>7, <1>9, <1>13, <1>15
  <2> QED
    BY <1>5, <1>7, <1>15, <2>1 DEF d
<1> QED
  BY <1>14, <1>15

(* A time-out that fits is never cut short, and runs over by less than a   *)
(* jiffy, for any widths of u64 and long and any length of a jiffy, under  *)
(* any names in ASCII.                                                     *)
THEOREM RoundedTheorem ==
  ASSUME TimeoutsFit, AsciiNames
  PROVE  Spec => []TimeoutIsRoundedUp
<1>1. Inv => TimeoutIsRoundedUp
  <2> SUFFICES ASSUME Inv, NEW n \in Names, asked[n].kind = "timed"
               PROVE  LET ns == asked[n].time
                          jiffies == held[n].time
                      IN  /\ held[n].kind = "timed"
                          /\ jiffies * NsecPerJiffy >= ns
                          /\ IF ns = 0 THEN jiffies = 1 ELSE (jiffies - 1) * NsecPerJiffy < ns
    BY DEF TimeoutIsRoundedUp
  <2>1. PICK ns \in Timeouts : asked[n] = Timed(ns) /\ held[n] = HeldFor(ns)
    <3>1. asked[n] \notin {Free, Forever}
      BY Kinds
    <3> QED
      BY <3>1 DEF Inv, LockInv
  <2> DEFINE j == ToJiffies(ns)
  <2>2. /\ ns \in Nat /\ j \in Nat \ {0} /\ j * NsecPerJiffy >= ns
        /\ ns = 0 => j = 1
        /\ ns # 0 => (j - 1) * NsecPerJiffy < ns
    BY ToJiffiesIs
  <2>3. held[n] = IF j # 0 THEN Timed(j) ELSE Forever
    BY <2>1 DEF HeldFor
  <2> HIDE DEF j
  <2>4. held[n] = Timed(j)
    BY <2>2, <2>3
  <2>5. held[n].kind = "timed" /\ held[n].time = j /\ asked[n].time = ns
    BY <2>1, <2>4, Kinds
  <2> QED
    BY <2>2, <2>5
<1> QED
  BY <1>1, InvAlways, PTL
=============================================================================
