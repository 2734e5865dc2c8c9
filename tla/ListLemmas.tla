------------------------------ MODULE ListLemmas ------------------------------
(***************************************************************************)
(* Facts about the lists that the clients keep: what removing an entry     *)
(* leaves, what listing a set gives, how often an entry occurs; and how a  *)
(* list is gone through, by induction.                                     *)
(***************************************************************************)
EXTENDS SequencesExt, FiniteSetTheorems, TLAPS

\* The entry that is number k once number i is removed.
Before(i, k) == IF k < i THEN k ELSE k + 1

\* Removing an entry shortens the list by one and keeps the order of the others.
LEMMA RemoveAtProperties ==
  ASSUME NEW S, NEW s \in Seq(S), NEW i \in DOMAIN s
  PROVE  /\ RemoveAt(s, i) \in Seq(S)
         /\ Len(RemoveAt(s, i)) = Len(s) - 1
         /\ \A k \in DOMAIN RemoveAt(s, i) : /\ Before(i, k) \in DOMAIN s \ {i}
                                             /\ RemoveAt(s, i)[k] = s[Before(i, k)]
<1>. DEFINE front == SubSeq(s, 1, i - 1)
            back == SubSeq(s, i + 1, Len(s))
<1>1. i \in 1 .. Len(s) /\ Len(s) \in Nat
  OBVIOUS
<1>2. /\ front \in Seq(S) /\ Len(front) = i - 1
      /\ \A k \in 1 .. i - 1 : front[k] = s[k]
  BY <1>1
<1>3. /\ back \in Seq(S) /\ Len(back) = Len(s) - i
      /\ \A k \in 1 .. Len(s) - i : back[k] = s[i + k]
  BY <1>1
<1>. HIDE DEF front, back
<1>4. /\ front \o back \in Seq(S) /\ Len(front \o back) = Len(s) - 1
      /\ \A k \in 1 .. Len(s) - 1 :
           (front \o back)[k] = IF k <= i - 1 THEN front[k] ELSE back[k - (i - 1)]
  BY <1>1, <1>2, <1>3
<1>5. RemoveAt(s, i) = front \o back
  BY DEF RemoveAt, front, back
<1>6. ASSUME NEW k \in 1 .. Len(s) - 1
      PROVE  /\ Before(i, k) \in DOMAIN s \ {i}
             /\ (front \o back)[k] = s[Before(i, k)]
  <2>1. CASE k < i
    BY <1>1, <1>2, <1>4, <2>1 DEF Before
  <2>2. CASE ~(k < i)
    <3>1. k - (i - 1) \in 1 .. Len(s) - i /\ i + (k - (i - 1)) = k + 1
      BY <1>1, <2>2
    <3>2. ~(k <= i - 1)
      BY <1>1, <2>2
    <3>3. (front \o back)[k] = back[k - (i - 1)]
      BY <1>4, <3>2, Zenon
    <3>4. back[k - (i - 1)] = s[i + (k - (i - 1))]
      BY <1>3, <3>1
    <3>5. Before(i, k) = k + 1 /\ k + 1 \in DOMAIN s \ {i}
      BY <1>1, <2>2 DEF Before
    <3>. QED
      BY <3>1, <3>3, <3>4, <3>5
  <2>. QED
    BY <2>1, <2>2
<1>. QED
  BY <1>4, <1>5, <1>6

\* Every other entry is still in the list.
LEMMA RemoveAtKeeps ==
  ASSUME NEW S, NEW s \in Seq(S), NEW i \in DOMAIN s, NEW j \in DOMAIN s \ {i}
  PROVE  \E k \in DOMAIN RemoveAt(s, i) : RemoveAt(s, i)[k] = s[j] /\ Before(i, k) = j
<1>1. /\ RemoveAt(s, i) \in Seq(S)
      /\ Len(RemoveAt(s, i)) = Len(s) - 1
      /\ \A k \in DOMAIN RemoveAt(s, i) : RemoveAt(s, i)[k] = s[Before(i, k)]
  BY RemoveAtProperties
<1>2. CASE j < i
  <2>1. j \in DOMAIN RemoveAt(s, i) /\ Before(i, j) = j
    BY <1>1, <1>2 DEF Before
  <2>. QED
    BY <1>1, <2>1
<1>3. CASE ~(j < i)
  <2>1. j - 1 \in DOMAIN RemoveAt(s, i) /\ Before(i, j - 1) = j
    BY <1>1, <1>3 DEF Before
  <2>. QED
    BY <1>1, <2>1
<1>. QED
  BY <1>2, <1>3

\* Two entries of what is left are two entries of the list.
LEMMA BeforeInjective ==
  ASSUME NEW S, NEW s \in Seq(S), NEW i \in DOMAIN s
  PROVE  \A k, l \in DOMAIN RemoveAt(s, i) : k # l => Before(i, k) # Before(i, l)
<1>1. RemoveAt(s, i) \in Seq(S)
  BY RemoveAtProperties
<1>2. DOMAIN RemoveAt(s, i) \subseteq Nat
  BY <1>1
<1>. QED
  BY <1>2 DEF Before

\* Replacing an entry of a list.
LEMMA UpdateProperties ==
  ASSUME NEW S, NEW s \in Seq(S), NEW i \in DOMAIN s, NEW v \in S
  PROVE  /\ [s EXCEPT ![i] = v] \in Seq(S)
         /\ DOMAIN [s EXCEPT ![i] = v] = DOMAIN s
         /\ \A k \in DOMAIN s : [s EXCEPT ![i] = v][k] = IF k = i THEN v ELSE s[k]
  OBVIOUS

\* Adding an entry to a list.
LEMMA AppendProperties ==
  ASSUME NEW S, NEW s \in Seq(S), NEW v \in S
  PROVE  /\ Append(s, v) \in Seq(S)
         /\ DOMAIN Append(s, v) = DOMAIN s \union {Len(s) + 1}
         /\ Len(s) + 1 \notin DOMAIN s
         /\ \A k \in DOMAIN s : Append(s, v)[k] = s[k]
         /\ Append(s, v)[Len(s) + 1] = v
  OBVIOUS

\* A finite set is listed without repetition, and entirely.
LEMMA SetToSeqProperties ==
  ASSUME NEW S, IsFiniteSet(S)
  PROVE  /\ Cardinality(S) \in Nat
         /\ SetToSeq(S) \in Seq(S) /\ Len(SetToSeq(S)) = Cardinality(S)
         /\ \A n, m \in 1 .. Cardinality(S) : SetToSeq(S)[n] = SetToSeq(S)[m] => n = m
         /\ \A x \in S : \E n \in 1 .. Cardinality(S) : SetToSeq(S)[n] = x
<1>1. Cardinality(S) \in Nat /\ ExistsBijection(1 .. Cardinality(S), S)
  BY FS_CardinalityType
<1>2. PICK f \in [1 .. Cardinality(S) -> S] : IsInjective(f)
  BY <1>1 DEF ExistsBijection, Bijection, Injection, IsInjective
<1>3. SetToSeq(S) \in [1 .. Cardinality(S) -> S] /\ IsInjective(SetToSeq(S))
  BY <1>2 DEF SetToSeq
<1>4. SetToSeq(S) \in Injection(1 .. Cardinality(S), S)
  BY <1>3 DEF IsInjective, Injection
<1>5. Cardinality(1 .. Cardinality(S)) = Cardinality(S)
  BY <1>1, FS_Interval
<1>6. SetToSeq(S) \in Surjection(1 .. Cardinality(S), S)
  BY <1>4, <1>5, FS_Injection
<1>7. \A x \in S : \E n \in 1 .. Cardinality(S) : SetToSeq(S)[n] = x
  BY <1>6 DEF Surjection
<1>. QED
  BY <1>1, <1>3, <1>7 DEF IsInjective
----------------------------------------------------------------------------
(* Induction and recursion.  The library states them with an operator for a parameter; here *)
(* they are about a set of numbers, and about functions.                                    *)

\* A set of numbers with zero and with the successors of all it has holds every number: were n
\* missing, the missing numbers up to n would inject into themselves without n.
LEMMA Induction ==
  ASSUME NEW S, 0 \in S, \A n \in Nat : n \in S => n + 1 \in S
  PROVE  Nat \subseteq S
<1>. SUFFICES ASSUME NEW n \in Nat, n \notin S PROVE FALSE
  OBVIOUS
<1>. DEFINE V == {m \in 0 .. n : m \notin S}  W == V \ {n}
<1>1. IsFiniteSet(V) /\ n \in V
  <2>1. IsFiniteSet(0 .. n)
    BY FS_Interval
  <2>2. V \in SUBSET (0 .. n)
    OBVIOUS
  <2>3. n \in V
    OBVIOUS
  <2>. HIDE DEF V
  <2>. QED BY <2>1, <2>2, <2>3, FS_Subset
<1>2. IsFiniteSet(W) /\ Cardinality(W) < Cardinality(V)
  <2>. HIDE DEF V
  <2>1. IsFiniteSet(W) /\ Cardinality(W) = Cardinality(V) - 1
    BY <1>1, FS_RemoveElement
  <2>2. Cardinality(V) \in Nat
    BY <1>1, FS_CardinalityType
  <2>. HIDE DEF W
  <2>. QED BY <2>1, <2>2
<1>3. \A x \in V : x - 1 \in W
  <2>. TAKE x \in V
  <2>1. x # 0 /\ x \in 0 .. n /\ x \notin S
    OBVIOUS
  <2>2. x - 1 \in Nat /\ x - 1 + 1 = x
    BY <2>1
  <2>3. x - 1 \notin S
    BY <2>1, <2>2
  <2>. QED BY <2>1, <2>3
<1>. DEFINE f == [x \in V |-> x - 1]
<1>4. f \in [V -> W]
  BY <1>3
<1>5. \A x \in V : x \in Int /\ f[x] = x - 1
  OBVIOUS
<1>. HIDE DEF W, V, f
<1>6. PICK x, y \in V : x # y /\ f[x] = f[y]
  BY <1>1, <1>2, <1>4, FS_PigeonHole
<1>. QED BY <1>5, <1>6

\* Some numbers, the least of them.
LEMMA Least ==
  ASSUME NEW T \in SUBSET Nat, T # {}
  PROVE  \E n \in T : \A m \in T : n <= m
<1>. SUFFICES ASSUME \A n \in T : \E m \in T : ~(n <= m)
              PROVE  FALSE
  OBVIOUS
<1>. DEFINE S == {n \in Nat : \A m \in 0 .. n : m \notin T}
<1>1. 0 \notin T
  OBVIOUS
<1>2. 0 \in S
  BY <1>1
<1>3. ASSUME NEW n \in Nat, n \in S PROVE n + 1 \in S
  <2>1. ASSUME n + 1 \in T PROVE FALSE
    <3>1. PICK m \in T : ~(n + 1 <= m)
      BY <2>1
    <3>. QED
      BY <1>3, <3>1
  <2>. QED
    BY <1>3, <2>1
<1>4. Nat \subseteq S
  <2>. HIDE DEF S
  <2>. QED
    BY <1>2, <1>3, Induction
<1>5. PICK t \in T : TRUE
  OBVIOUS
<1>6. t \in Nat /\ t \in 0 .. t /\ t \in S
  BY <1>4
<1>. QED
  BY <1>6

\* From x on, each value of h is what g makes of the one before.
Recurs(h, N, x, g) == h[0] = x /\ \A k \in 1 .. N : h[k] = g[k][h[k - 1]]

\* There is such a function.
LEMMA Recursion ==
  ASSUME NEW D, NEW N \in Nat, NEW x \in D, NEW g \in [1 .. N -> [D -> D]]
  PROVE  \E h \in [0 .. N -> D] : Recurs(h, N, x, g)
<1>. DEFINE S == {n \in Nat : n <= N => \E h \in [0 .. n -> D] : Recurs(h, n, x, g)}
<1>1. 0 \in S
  <2>. DEFINE h == [k \in 0 .. 0 |-> x]
  <2>1. h \in [0 .. 0 -> D] /\ h[0] = x /\ 1 .. 0 = {}
    OBVIOUS
  <2>2. Recurs(h, 0, x, g)
    BY <2>1 DEF Recurs
  <2>. QED
    BY <2>1, <2>2
<1>2. ASSUME NEW n \in Nat, n \in S PROVE n + 1 \in S
  <2>1. CASE n + 1 <= N
    <3>1. PICK h \in [0 .. n -> D] : Recurs(h, n, x, g)
      BY <1>2, <2>1
    <3>. DEFINE i == [k \in 0 .. n + 1 |-> IF k <= n THEN h[k] ELSE g[n + 1][h[n]]]
    <3>2. n + 1 \in 1 .. N /\ n \in 0 .. n
      BY <2>1
    <3>3. g[n + 1] \in [D -> D] /\ h[n] \in D
      BY <3>2
    <3>4. g[n + 1][h[n]] \in D
      BY <3>3
    <3>5. i \in [0 .. n + 1 -> D]
      BY <3>4
    <3>6. i[0] = x
      BY <3>1 DEF Recurs
    <3>7. ASSUME NEW k \in 1 .. n + 1 PROVE i[k] = g[k][i[k - 1]]
      <4>1. k - 1 \in 0 .. n /\ i[k - 1] = h[k - 1]
        OBVIOUS
      <4>2. CASE k <= n
        BY <3>1, <4>1, <4>2 DEF Recurs
      <4>3. CASE k = n + 1
        BY <4>1, <4>3
      <4>. QED
        BY <4>2, <4>3
    <3>. HIDE DEF i
    <3>. QED
      BY <3>5, <3>6, <3>7 DEF Recurs
  <2>2. CASE ~(n + 1 <= N)
    BY <2>2
  <2>. QED
    BY <2>1, <2>2
<1>3. N \in S
  <2>. HIDE DEF S
  <2>. QED
    BY <1>1, <1>2, Induction
<1>4. PICK h \in [0 .. N -> D] : Recurs(h, N, x, g)
  BY <1>3
<1>. QED
  BY <1>4

----------------------------------------------------------------------------
(* How often an entry occurs. *)

\* Where v is in the list.
Spots(s, v) == {k \in DOMAIN s : s[k] = v}

\* There are finitely many such places.
LEMMA SpotsFinite ==
  ASSUME NEW S, NEW s \in Seq(S), NEW v
  PROVE  IsFiniteSet(Spots(s, v)) /\ Cardinality(Spots(s, v)) \in Nat
<1>1. IsFiniteSet(1 .. Len(s))
  BY FS_Interval
<1>2. Spots(s, v) \in SUBSET (1 .. Len(s))
  BY DEF Spots
<1>. QED
  BY <1>1, <1>2, FS_Subset, FS_CardinalityType

\* One more occurs if it is what is added.
LEMMA SpotsAppend ==
  ASSUME NEW S, NEW s \in Seq(S), NEW e \in S, NEW v
  PROVE  Cardinality(Spots(Append(s, e), v)) = Cardinality(Spots(s, v)) + IF e = v THEN 1 ELSE 0
<1>1. /\ DOMAIN Append(s, e) = DOMAIN s \union {Len(s) + 1} /\ Len(s) + 1 \notin DOMAIN s
      /\ \A k \in DOMAIN s : Append(s, e)[k] = s[k]
      /\ Append(s, e)[Len(s) + 1] = e
  BY AppendProperties
<1>2. IsFiniteSet(Spots(s, v)) /\ Cardinality(Spots(s, v)) \in Nat
  BY SpotsFinite
<1>3. CASE e = v
  <2>1. Spots(Append(s, e), v) = Spots(s, v) \union {Len(s) + 1} /\ Len(s) + 1 \notin Spots(s, v)
    BY <1>1, <1>3 DEF Spots
  <2>. QED
    BY <1>2, <1>3, <2>1, FS_AddElement
<1>4. CASE e # v
  <2>1. Spots(Append(s, e), v) = Spots(s, v)
    BY <1>1, <1>4 DEF Spots
  <2>. QED
    BY <1>2, <1>4, <2>1
<1>. QED
  BY <1>3, <1>4

\* One less occurs if it is what is removed.
LEMMA SpotsRemoved ==
  ASSUME NEW S, NEW s \in Seq(S), NEW i \in DOMAIN s, NEW v
  PROVE  Cardinality(Spots(RemoveAt(s, i), v)) = Cardinality(Spots(s, v)) - IF s[i] = v THEN 1 ELSE 0
<1>. DEFINE old == Spots(s, v)
            new == Spots(RemoveAt(s, i), v)
            f == [k \in new |-> Before(i, k)]
<1>1. /\ RemoveAt(s, i) \in Seq(S)
      /\ \A k \in DOMAIN RemoveAt(s, i) : /\ Before(i, k) \in DOMAIN s \ {i}
                                          /\ RemoveAt(s, i)[k] = s[Before(i, k)]
  BY RemoveAtProperties
<1>2. f \in [new -> old \ {i}]
  BY <1>1 DEF Spots
<1>3. \A k, l \in new : f[k] = f[l] => k = l
  <2>1. \A k, l \in new : k # l => Before(i, k) # Before(i, l)
    BY BeforeInjective DEF Spots
  <2>. QED
    BY <2>1
<1>4. \A j \in old \ {i} : \E k \in new : f[k] = j
  <2>. TAKE j \in old \ {i}
  <2>1. j \in DOMAIN s \ {i} /\ s[j] = v
    BY DEF Spots
  <2>2. PICK k \in DOMAIN RemoveAt(s, i) : RemoveAt(s, i)[k] = s[j] /\ Before(i, k) = j
    BY <2>1, RemoveAtKeeps
  <2>. QED
    BY <2>1, <2>2 DEF Spots
<1>5. IsFiniteSet(old) /\ Cardinality(old) \in Nat /\ IsFiniteSet(new) /\ Cardinality(new) \in Nat
  BY <1>1, SpotsFinite
<1>6. i \in old <=> s[i] = v
  BY DEF Spots
<1>. HIDE DEF old, new, f
<1>7. f \in Bijection(new, old \ {i})
  BY <1>2, <1>3, <1>4 DEF Bijection, Injection, Surjection, IsInjective
<1>8. Cardinality(old \ {i}) = Cardinality(new)
  BY <1>5, <1>7, FS_Bijection DEF ExistsBijection
<1>9. Cardinality(old \ {i}) = IF i \in old THEN Cardinality(old) - 1 ELSE Cardinality(old)
  BY <1>5, FS_RemoveElement
<1>. QED
  BY <1>5, <1>6, <1>8, <1>9 DEF old, new
=============================================================================
