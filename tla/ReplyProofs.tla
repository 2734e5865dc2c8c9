---------------------------- MODULE ReplyProofs ----------------------------
(***************************************************************************)
(* What the clients make of a reply, for every text, every symbol, every   *)
(* kind of line and every stream: proofs about ReplyBlocks and about       *)
(* EventStream, each as a specification of its own.                        *)
(*                                                                         *)
(* The texts grow step by step, but the blocks are cut out of the whole    *)
(* text by loops, and the frames out of what was read.  Each loop is a     *)
(* recursive function here, and what it keeps is shown turn by turn        *)
(* (Recursion, Induction).                                                 *)
(***************************************************************************)
EXTENDS EventStream, ReplyBlocks, ListLemmas

----------------------------------------------------------------------------
(* Lists of lists. *)

\* Lists of the same length with the same entries are the same.
LEMMA SameList ==
  ASSUME NEW S, NEW s \in Seq(S), NEW t \in Seq(S), Len(s) = Len(t),
         \A i \in 1 .. Len(s) : s[i] = t[i]
  PROVE  s = t
  OBVIOUS

\* Joining lists.
LEMMA Joining ==
  ASSUME NEW S, NEW s \in Seq(S), NEW t \in Seq(S)
  PROVE  /\ s \o t \in Seq(S) /\ Len(s \o t) = Len(s) + Len(t)
         /\ \A i \in 1 .. Len(s) + Len(t) : (s \o t)[i] = IF i <= Len(s) THEN s[i] ELSE t[i - Len(s)]
         /\ s \o <<>> = s /\ <<>> \o s = s
         /\ \A v \in S : Append(s, v) = s \o <<v>>
  OBVIOUS

\* It does not matter in which order they are joined.
LEMMA JoiningAssociates ==
  ASSUME NEW S, NEW s \in Seq(S), NEW t \in Seq(S), NEW u \in Seq(S)
  PROVE  (s \o t) \o u = s \o (t \o u)
<1>1. /\ (s \o t) \o u \in Seq(S) /\ s \o (t \o u) \in Seq(S)
      /\ Len((s \o t) \o u) = Len(s) + Len(t) + Len(u) /\ Len(s \o (t \o u)) = Len(s) + Len(t) + Len(u)
  BY Joining
<1>. QED
  OBVIOUS

\* A list, from its first n entries and the others.
LEMMA Splitting ==
  ASSUME NEW S, NEW s \in Seq(S), NEW n \in 0 .. Len(s)
  PROVE  /\ SubSeq(s, 1, n) \in Seq(S) /\ Len(SubSeq(s, 1, n)) = n
         /\ SubSeq(s, n + 1, Len(s)) \in Seq(S) /\ Len(SubSeq(s, n + 1, Len(s))) = Len(s) - n
         /\ \A i \in 1 .. n : SubSeq(s, 1, n)[i] = s[i]
         /\ SubSeq(s, 1, n) \o SubSeq(s, n + 1, Len(s)) = s
         /\ n < Len(s) => SubSeq(s, 1, n + 1) = Append(SubSeq(s, 1, n), s[n + 1])
<1>. DEFINE a == SubSeq(s, 1, n)
            b == SubSeq(s, n + 1, Len(s))
<1>1. a \in Seq(S) /\ Len(a) = n /\ \A i \in 1 .. n : a[i] = s[i]
  OBVIOUS
<1>2. b \in Seq(S) /\ Len(b) = Len(s) - n /\ \A i \in 1 .. Len(s) - n : b[i] = s[n + i]
  OBVIOUS
<1>3. a \o b = s
  <2>. HIDE DEF a, b
  <2>1. /\ a \o b \in Seq(S) /\ Len(a \o b) = Len(s)
        /\ \A i \in 1 .. Len(s) : (a \o b)[i] = IF i <= n THEN a[i] ELSE b[i - n]
    BY <1>1, <1>2, Joining
  <2>2. ASSUME NEW i \in 1 .. Len(s) PROVE (a \o b)[i] = s[i]
    <3>1. CASE i <= n
      BY <1>1, <2>1, <3>1
    <3>2. CASE ~(i <= n)
      <4>1. i - n \in 1 .. Len(s) - n /\ n + (i - n) = i
        BY <3>2
      <4>. QED
        BY <1>2, <2>1, <3>2, <4>1
    <3>. QED
      BY <3>1, <3>2
  <2>. QED
    BY <2>1, <2>2, SameList
<1>4. ASSUME n < Len(s) PROVE SubSeq(s, 1, n + 1) = Append(a, s[n + 1])
  <2>1. /\ SubSeq(s, 1, n + 1) \in Seq(S) /\ Len(SubSeq(s, 1, n + 1)) = n + 1
        /\ \A i \in 1 .. n + 1 : SubSeq(s, 1, n + 1)[i] = s[i]
    BY <1>4
  <2>. HIDE DEF a
  <2>2. s[n + 1] \in S
    BY <1>4
  <2>3. /\ Append(a, s[n + 1]) \in Seq(S) /\ Len(Append(a, s[n + 1])) = n + 1
        /\ \A i \in 1 .. n + 1 : Append(a, s[n + 1])[i] = s[i]
    BY <1>1, <2>2
  <2>. QED
    BY <2>1, <2>3, SameList
<1>. QED
  BY <1>1, <1>2, <1>3, <1>4

\* Lists that are joined one by one.
LEMMA FlattenSteps ==
  ASSUME NEW S, NEW ss \in Seq(Seq(S))
  PROVE  \E h \in [0 .. Len(ss) -> Seq(S)] :
           /\ h[0] = <<>> /\ FlattenSeq(ss) = h[Len(ss)]
           /\ \A n \in 1 .. Len(ss) : h[n] = h[n - 1] \o ss[n]
<1>. DEFINE N == Len(ss)
            D == Seq(S)
            g == [n \in 1 .. N |-> [y \in D |-> y \o ss[n]]]
            Is(f) == f = [i \in 1 .. N |-> IF i = 1 THEN ss[i] ELSE f[i - 1] \o ss[i]]
            flatten == CHOOSE f : Is(f)
<1>1. N \in Nat /\ <<>> \in D /\ \A n \in 1 .. N : ss[n] \in D
  OBVIOUS
<1>2. g \in [1 .. N -> [D -> D]]
  BY <1>1
<1>3. PICK h \in [0 .. N -> D] : h[0] = <<>> /\ \A n \in 1 .. N : h[n] = g[n][h[n - 1]]
  <2>. HIDE DEF N, g, D
  <2>1. \E h \in [0 .. N -> D] : Recurs(h, N, <<>>, g)
    BY <1>1, <1>2, Recursion
  <2>. QED
    BY <2>1 DEF Recurs
<1>4. ASSUME NEW n \in 1 .. N PROVE n - 1 \in 0 .. N /\ h[n - 1] \in D /\ h[n] = h[n - 1] \o ss[n]
  <2>1. n - 1 \in 0 .. N
    BY <1>1
  <2>2. h[n - 1] \in D
    BY <1>3, <2>1
  <2>3. g[n] = [y \in D |-> y \o ss[n]]
    OBVIOUS
  <2>4. h[n] = g[n][h[n - 1]]
    BY <1>3
  <2>5. g[n][h[n - 1]] = h[n - 1] \o ss[n]
    <3>. HIDE DEF D, N
    <3>. QED
      BY <2>2
  <2>. QED
    BY <2>1, <2>2, <2>4, <2>5
<1>5. CASE N = 0
  <2>1. FlattenSeq(ss) = <<>>
    BY <1>5 DEF FlattenSeq
  <2>. QED
    BY <1>3, <1>4, <1>5, <2>1
<1>6. CASE N # 0
  <2>. DEFINE k == [i \in 1 .. N |-> h[i]]
  <2>1. ASSUME NEW i \in 1 .. N PROVE h[i] = IF i = 1 THEN ss[i] ELSE k[i - 1] \o ss[i]
    <3>1. CASE i = 1
      <4>1. ss[1] \in D /\ 1 - 1 = 0
        BY <1>1, <3>1
      <4>2. h[1] = h[1 - 1] \o ss[1]
        BY <1>4, <3>1
      <4>3. <<>> \o ss[1] = ss[1]
        BY <4>1, Joining
      <4>. QED
        BY <1>3, <3>1, <4>1, <4>2, <4>3
    <3>2. CASE i # 1
      <4>1. i - 1 \in 1 .. N
        BY <1>1, <3>2
      <4>. QED
        BY <1>4, <3>2, <4>1
    <3>. QED
      BY <3>1, <3>2
  <2>2. Is(k)
    BY <2>1
  <2>3. Is(flatten)
    <3>. HIDE DEF Is, k
    <3>. QED
      BY <2>2
  <2>4. FlattenSeq(ss) = flatten[N]
    BY <1>6 DEF FlattenSeq
  <2>. HIDE DEF flatten, k
  <2>5. \A i \in 1 .. N : flatten[i] = IF i = 1 THEN ss[i] ELSE flatten[i - 1] \o ss[i]
    BY <2>3
  <2>. DEFINE T == {n \in Nat : n + 1 <= N => flatten[n + 1] = h[n + 1]}
  <2>6. 0 \in T
    <3>1. 1 \in 1 .. N /\ ss[1] \in D
      BY <1>1, <1>6
    <3>2. flatten[1] = ss[1]
      BY <2>5, <3>1
    <3>3. h[1] = ss[1]
      BY <2>1, <3>1
    <3>. QED
      BY <3>2, <3>3
  <2>7. ASSUME NEW n \in Nat, n \in T PROVE n + 1 \in T
    <3>. SUFFICES ASSUME (n + 1) + 1 <= N PROVE flatten[(n + 1) + 1] = h[(n + 1) + 1]
      OBVIOUS
    <3>1. /\ (n + 1) + 1 \in 1 .. N /\ n + 1 <= N /\ ((n + 1) + 1) - 1 = n + 1 /\ (n + 1) + 1 # 1
      BY <1>1
    <3>2. flatten[n + 1] = h[n + 1]
      BY <2>7, <3>1
    <3>3. flatten[(n + 1) + 1] = flatten[n + 1] \o ss[(n + 1) + 1]
      BY <2>5, <3>1
    <3>4. h[(n + 1) + 1] = h[n + 1] \o ss[(n + 1) + 1]
      BY <1>4, <3>1
    <3>. QED
      BY <3>2, <3>3, <3>4
  <2>8. Nat \subseteq T
    <3>. HIDE DEF T
    <3>. QED
      BY <2>6, <2>7, Induction
  <2>9. N - 1 \in Nat /\ (N - 1) + 1 = N
    BY <1>1, <1>6
  <2>10. flatten[N] = h[N]
    <3>1. N - 1 \in T
      BY <2>8, <2>9
    <3>2. N - 1 + 1 <= N
      BY <1>1, <2>9
    <3>3. (N - 1) + 1 <= N => flatten[(N - 1) + 1] = h[(N - 1) + 1]
      BY <3>1
    <3>. QED
      BY <2>9, <3>2, <3>3
  <2>. QED
    BY <1>3, <1>4, <2>4, <2>10
<1>. QED
  BY <1>5, <1>6

\* No lists.
LEMMA FlattenNone ==
  FlattenSeq(<<>>) = <<>>
  BY DEF FlattenSeq

\* What is joined is a list.
LEMMA FlattenTyped ==
  ASSUME NEW S, NEW ss \in Seq(Seq(S))
  PROVE  FlattenSeq(ss) \in Seq(S)
<1>1. PICK h \in [0 .. Len(ss) -> Seq(S)] : FlattenSeq(ss) = h[Len(ss)]
  BY FlattenSteps
<1>. QED
  BY <1>1

\* The lists of two lists, one after the other.
LEMMA FlattenJoined ==
  ASSUME NEW S, NEW ss \in Seq(Seq(S)), NEW tt \in Seq(Seq(S))
  PROVE  FlattenSeq(ss \o tt) = FlattenSeq(ss) \o FlattenSeq(tt)
<1>. DEFINE D == Seq(S)
            M == Len(ss)
            N == Len(tt)
            uu == ss \o tt
<1>1. /\ M \in Nat /\ N \in Nat /\ uu \in Seq(D) /\ Len(uu) = M + N
      /\ \A n \in 1 .. M : uu[n] = ss[n] /\ ss[n] \in D
      /\ \A n \in 1 .. N : uu[M + n] = tt[n] /\ tt[n] \in D
  OBVIOUS
<1>2. PICK f \in [0 .. M -> D] : f[0] = <<>> /\ FlattenSeq(ss) = f[M] /\ \A n \in 1 .. M : f[n] = f[n - 1] \o ss[n]
  BY FlattenSteps
<1>3. PICK g \in [0 .. N -> D] : g[0] = <<>> /\ FlattenSeq(tt) = g[N] /\ \A n \in 1 .. N : g[n] = g[n - 1] \o tt[n]
  BY FlattenSteps
<1>4. PICK h \in [0 .. M + N -> D] :
        h[0] = <<>> /\ FlattenSeq(uu) = h[M + N] /\ \A n \in 1 .. M + N : h[n] = h[n - 1] \o uu[n]
  <2>. HIDE DEF uu, M, N
  <2>1. \E h \in [0 .. Len(uu) -> Seq(S)] :
          h[0] = <<>> /\ FlattenSeq(uu) = h[Len(uu)] /\ \A n \in 1 .. Len(uu) : h[n] = h[n - 1] \o uu[n]
    BY <1>1, FlattenSteps
  <2>. QED
    BY <1>1, <2>1
<1>. DEFINE T == {n \in Nat : n <= M => h[n] = f[n]}
            U == {n \in Nat : n <= N => h[M + n] = f[M] \o g[n]}
<1>. HIDE DEF uu, M, N, D
<1>5. Nat \subseteq T
  <2>1. 0 \in T
    BY <1>2, <1>4
  <2>2. ASSUME NEW n \in Nat, n \in T PROVE n + 1 \in T
    <3>. SUFFICES ASSUME n + 1 <= M PROVE h[n + 1] = f[n + 1]
      OBVIOUS
    <3>1. n + 1 \in 1 .. M /\ n + 1 \in 1 .. M + N /\ (n + 1) - 1 = n /\ n <= M
      BY <1>1
    <3>2. h[n] = f[n]
      BY <2>2, <3>1
    <3>3. h[n + 1] = h[n] \o uu[n + 1] /\ f[n + 1] = f[n] \o ss[n + 1] /\ uu[n + 1] = ss[n + 1]
      BY <1>1, <1>2, <1>4, <3>1
    <3>. QED
      BY <3>2, <3>3
  <2>. HIDE DEF T
  <2>. QED
    BY <2>1, <2>2, Induction
<1>6. h[M] = f[M] /\ f[M] \in D /\ h[M] \in D
  <2>1. M \in T /\ M <= M /\ M \in 0 .. M
    BY <1>1, <1>5
  <2>2. h[M] = f[M]
    BY <2>1
  <2>. QED
    BY <1>2, <2>1, <2>2
<1>7. Nat \subseteq U
  <2>1. 0 \in U
    <3>1. M + 0 = M
      BY <1>1
    <3>2. f[M] \o <<>> = f[M]
      BY <1>6, Joining DEF D
    <3>. QED
      BY <1>3, <1>6, <3>1, <3>2
  <2>2. ASSUME NEW n \in Nat, n \in U PROVE n + 1 \in U
    <3>1. n + 1 \in Nat
      OBVIOUS
    <3>2. ASSUME n + 1 <= N PROVE h[M + (n + 1)] = f[M] \o g[n + 1]
      <4>1. /\ n + 1 \in 1 .. N /\ M + (n + 1) \in 1 .. M + N /\ (n + 1) - 1 = n /\ n <= N
            /\ (M + (n + 1)) - 1 = M + n /\ n \in 0 .. N
        BY <1>1, <3>2
      <4>2. h[M + n] = f[M] \o g[n]
        BY <2>2, <4>1
      <4>3. h[M + (n + 1)] = h[M + n] \o uu[M + (n + 1)]
        BY <1>4, <4>1
      <4>4. uu[M + (n + 1)] = tt[n + 1] /\ tt[n + 1] \in D
        BY <1>1, <4>1
      <4>5. g[n + 1] = g[n] \o tt[n + 1] /\ g[n] \in D
        BY <1>3, <4>1
      <4>6. (f[M] \o g[n]) \o tt[n + 1] = f[M] \o (g[n] \o tt[n + 1])
        <5>1. f[M] \in Seq(S) /\ g[n] \in Seq(S) /\ tt[n + 1] \in Seq(S)
          BY <1>6, <4>4, <4>5 DEF D
        <5>2. \A x, y, z \in Seq(S) : (x \o y) \o z = x \o (y \o z)
          BY JoiningAssociates
        <5>. QED
          BY <5>1, <5>2
      <4>. QED
        BY <4>2, <4>3, <4>4, <4>5, <4>6
    <3>. QED
      BY <3>1, <3>2
  <2>. HIDE DEF U
  <2>. QED
    BY <2>1, <2>2, Induction
<1>8. N \in U /\ N <= N
  BY <1>1, <1>7
<1>9. h[M + N] = f[M] \o g[N]
  BY <1>8
<1>. QED
  BY <1>2, <1>3, <1>4, <1>9 DEF uu

\* One more list.
LEMMA FlattenOne ==
  ASSUME NEW S, NEW s \in Seq(S)
  PROVE  <<s>> \in Seq(Seq(S)) /\ FlattenSeq(<<s>>) = s
<1>1. <<s>> \in Seq(Seq(S)) /\ Len(<<s>>) = 1 /\ <<s>>[1] = s
  OBVIOUS
<1>2. PICK h \in [0 .. Len(<<s>>) -> Seq(S)] :
        h[0] = <<>> /\ FlattenSeq(<<s>>) = h[Len(<<s>>)] /\ \A n \in 1 .. Len(<<s>>) : h[n] = h[n - 1] \o <<s>>[n]
  BY <1>1, FlattenSteps
<1>3. 1 - 1 = 0 /\ 1 \in 1 .. Len(<<s>>)
  BY <1>1
<1>4. h[1] = h[1 - 1] \o <<s>>[1]
  BY <1>2, <1>3
<1>5. <<>> \o s = s
  BY Joining
<1>. QED
  BY <1>1, <1>2, <1>3, <1>4, <1>5

\* One more list at the end.
LEMMA FlattenAppend ==
  ASSUME NEW S, NEW ss \in Seq(Seq(S)), NEW s \in Seq(S)
  PROVE  Append(ss, s) \in Seq(Seq(S)) /\ FlattenSeq(Append(ss, s)) = FlattenSeq(ss) \o s
<1>1. Append(ss, s) = ss \o <<s>> /\ Append(ss, s) \in Seq(Seq(S))
  BY Joining
<1>2. <<s>> \in Seq(Seq(S)) /\ FlattenSeq(<<s>>) = s
  BY FlattenOne
<1>3. FlattenSeq(ss \o <<s>>) = FlattenSeq(ss) \o FlattenSeq(<<s>>)
  BY <1>2, FlattenJoined
<1>. QED
  BY <1>1, <1>2, <1>3

\* The last of some lists, and what the others are.
LEMMA TheLast ==
  ASSUME NEW D, NEW bs \in Seq(D), bs # <<>>
  PROVE  /\ Front(bs) \in Seq(D) /\ Last(bs) \in D /\ bs = Append(Front(bs), Last(bs))
         /\ Len(bs) \in Nat \ {0} /\ Len(Front(bs)) = Len(bs) - 1
         /\ \A i \in 1 .. Len(bs) - 1 : Front(bs)[i] = bs[i]
<1>1. Len(bs) \in Nat /\ Len(bs) # 0
  OBVIOUS
<1>. DEFINE n == Len(bs) - 1
<1>2. n \in 0 .. Len(bs) /\ n < Len(bs) /\ n + 1 = Len(bs)
  BY <1>1
<1>3. bs[Len(bs)] \in D
  BY <1>1
<1>4. /\ SubSeq(bs, 1, n) \in Seq(D) /\ Len(SubSeq(bs, 1, n)) = n
      /\ \A i \in 1 .. n : SubSeq(bs, 1, n)[i] = bs[i]
      /\ SubSeq(bs, 1, n + 1) = Append(SubSeq(bs, 1, n), bs[n + 1])
  <2>. HIDE DEF n
  <2>. QED
    BY <1>2, Splitting
<1>5. SubSeq(bs, 1, Len(bs)) = bs
  OBVIOUS
<1>. QED
  BY <1>1, <1>2, <1>3, <1>4, <1>5 DEF Front, Last

\* The last of some lists grows.
LEMMA LastGrows ==
  ASSUME NEW S, NEW bs \in Seq(Seq(S)), bs # <<>>, NEW raw \in Seq(S)
  PROVE  LET now == [bs EXCEPT ![Len(bs)] = @ \o raw]
         IN  now \in Seq(Seq(S)) \ {<<>>} /\ FlattenSeq(now) = FlattenSeq(bs) \o raw
<1>. DEFINE D == Seq(S)
            now == [bs EXCEPT ![Len(bs)] = @ \o raw]
            a == Front(bs)
            l == Last(bs)
            n == Len(bs)
<1>1. /\ a \in Seq(D) /\ l \in D /\ bs = Append(a, l) /\ n \in Nat \ {0} /\ Len(a) = n - 1
      /\ \A i \in 1 .. n - 1 : a[i] = bs[i]
  BY TheLast
<1>2. l \o raw \in D /\ l = bs[n]
  <2>1. \A x, y \in D : x \o y \in D
    BY Joining
  <2>. QED
    BY <1>1, <2>1 DEF Last
<1>3. now = Append(a, l \o raw)
  <2>1. bs \in [1 .. n -> D] /\ n \in 1 .. n
    BY <1>1
  <2>2. now = [bs EXCEPT ![n] = l \o raw]
    BY <1>2
  <2>. HIDE DEF D, n, l, now, a
  <2>3. now = [i \in 1 .. n |-> IF i = n THEN l \o raw ELSE bs[i]]
    BY <2>1, <2>2
  <2>4. now \in Seq(D) /\ Len(now) = n
    BY <1>1, <1>2, <2>1, <2>3
  <2>5. \A i \in 1 .. n : now[i] = IF i = n THEN l \o raw ELSE bs[i]
    BY <2>3
  <2>6. /\ Append(a, l \o raw) \in Seq(D) /\ Len(Append(a, l \o raw)) = n
        /\ \A i \in 1 .. n : Append(a, l \o raw)[i] = IF i = n THEN l \o raw ELSE a[i]
    BY <1>1, <1>2
  <2>7. \A i \in 1 .. n : i # n => i \in 1 .. n - 1
    BY <1>1
  <2>8. \A i \in 1 .. n : now[i] = Append(a, l \o raw)[i]
    BY <1>1, <2>5, <2>6, <2>7
  <2>. QED
    BY <2>4, <2>6, <2>8, SameList
<1>. HIDE DEF a, l, n, now, D
<1>4. /\ FlattenSeq(bs) = FlattenSeq(a) \o l
      /\ now \in Seq(D) /\ FlattenSeq(now) = FlattenSeq(a) \o (l \o raw)
  <2>1. \A ss \in Seq(D), s \in D :
          Append(ss, s) \in Seq(D) /\ FlattenSeq(Append(ss, s)) = FlattenSeq(ss) \o s
    BY FlattenAppend DEF D
  <2>. QED
    BY <1>1, <1>2, <1>3, <2>1
<1>5. (FlattenSeq(a) \o l) \o raw = FlattenSeq(a) \o (l \o raw)
  <2>1. FlattenSeq(a) \in D
    BY <1>1, FlattenTyped DEF D
  <2>2. ASSUME NEW x \in Seq(S), NEW y \in Seq(S), NEW z \in Seq(S)
        PROVE  (x \o y) \o z = x \o (y \o z)
    BY ONLY JoiningAssociates, x \in Seq(S), y \in Seq(S), z \in Seq(S)
  <2>. QED
    BY <1>1, <2>1, <2>2 DEF D
<1>6. now # <<>>
  BY <1>1, <1>2, <1>3
<1>. QED
  BY <1>4, <1>5, <1>6 DEF D, now

----------------------------------------------------------------------------
(* The blocks of a growing text. *)

Text == Seq(Symbols)

\* A symbol is added to the last line, or begins a line.
LEMMA AddSymbolKeeps ==
  ASSUME NEW acc \in Seq(Text), NEW c \in Symbols
  PROVE  AddSymbol(acc, c) \in Seq(Text) /\ FlattenSeq(AddSymbol(acc, c)) = Append(FlattenSeq(acc), c)
<1>1. /\ <<c>> \in Text /\ FlattenSeq(acc) \in Text
      /\ Append(FlattenSeq(acc), c) = FlattenSeq(acc) \o <<c>>
  <2>1. <<c>> \in Text
    BY DEF Text
  <2>2. FlattenSeq(acc) \in Text
    BY FlattenTyped DEF Text
  <2>3. \A s \in Seq(Symbols) : Append(s, c) = s \o <<c>>
    BY Joining
  <2>. QED
    BY <2>1, <2>2, <2>3 DEF Text
<1>2. \A ss \in Seq(Text), s \in Text :
        Append(ss, s) \in Seq(Text) /\ FlattenSeq(Append(ss, s)) = FlattenSeq(ss) \o s
  BY FlattenAppend DEF Text
<1>3. CASE acc # <<>> /\ Last(Last(acc)) # "nl"
  <2>. DEFINE a == Front(acc)
              l == Last(acc)
  <2>1. a \in Seq(Text) /\ l \in Text /\ acc = Append(a, l)
    BY <1>3, TheLast
  <2>2. AddSymbol(acc, c) = Append(a, Append(l, c))
    BY <1>3 DEF AddSymbol
  <2>. HIDE DEF a, l
  <2>3. Append(l, c) \in Text /\ Append(l, c) = l \o <<c>>
    <3>1. \A s \in Seq(Symbols) : Append(s, c) \in Seq(Symbols) /\ Append(s, c) = s \o <<c>>
      BY Joining
    <3>. QED
      BY <2>1, <3>1 DEF Text
  <2>4. /\ FlattenSeq(acc) = FlattenSeq(a) \o l
        /\ FlattenSeq(AddSymbol(acc, c)) = FlattenSeq(a) \o (l \o <<c>>)
        /\ AddSymbol(acc, c) \in Seq(Text)
    BY <1>2, <2>1, <2>2, <2>3
  <2>5. (FlattenSeq(a) \o l) \o <<c>> = FlattenSeq(a) \o (l \o <<c>>)
    <3>1. FlattenSeq(a) \in Text
      BY <2>1, FlattenTyped DEF Text
    <3>2. \A x, y, z \in Text : (x \o y) \o z = x \o (y \o z)
      BY JoiningAssociates DEF Text
    <3>. QED
      BY <1>1, <2>1, <3>1, <3>2
  <2>. QED
    BY <1>1, <2>4, <2>5
<1>4. CASE ~(acc # <<>> /\ Last(Last(acc)) # "nl")
  <2>1. AddSymbol(acc, c) = Append(acc, <<c>>)
    BY <1>4 DEF AddSymbol
  <2>. QED
    BY <1>1, <1>2, <2>1
<1>. QED
  BY <1>3, <1>4

\* A text is cut into lines symbol by symbol.
LEMMA RawLinesSteps ==
  ASSUME NEW s \in Text
  PROVE  \E h \in [0 .. Len(s) -> Seq(Text)] :
           /\ h[0] = <<>> /\ RawLines(s) = h[Len(s)]
           /\ \A n \in 1 .. Len(s) : h[n] = AddSymbol(h[n - 1], s[n])
<1>. DEFINE N == Len(s)
            D == Seq(Text)
            g == [n \in 1 .. N |-> [y \in D |-> AddSymbol(y, s[n])]]
            Is(h) == h = [n \in 0 .. N |-> IF n = 0 THEN <<>> ELSE AddSymbol(h[n - 1], s[n])]
            raw == CHOOSE h : Is(h)
<1>1. N \in Nat /\ <<>> \in D /\ \A n \in 1 .. N : s[n] \in Symbols
  BY DEF Text
<1>2. \A n \in 1 .. N, y \in D : AddSymbol(y, s[n]) \in D
  BY <1>1, AddSymbolKeeps
<1>3. g \in [1 .. N -> [D -> D]]
  BY <1>2
<1>4. PICK h \in [0 .. N -> D] : h[0] = <<>> /\ \A n \in 1 .. N : h[n] = g[n][h[n - 1]]
  <2>. HIDE DEF N, D, g
  <2>1. \E h \in [0 .. N -> D] : Recurs(h, N, <<>>, g)
    BY <1>1, <1>3, Recursion
  <2>. QED
    BY <2>1 DEF Recurs
<1>5. ASSUME NEW n \in 1 .. N PROVE n - 1 \in 0 .. N /\ h[n] = AddSymbol(h[n - 1], s[n])
  <2>1. n - 1 \in 0 .. N
    BY <1>1
  <2>2. h[n - 1] \in D
    BY <1>4, <2>1
  <2>3. h[n] = g[n][h[n - 1]] /\ g[n] = [y \in D |-> AddSymbol(y, s[n])]
    BY <1>4
  <2>. HIDE DEF D, N, g
  <2>. QED
    BY <2>1, <2>2, <2>3
<1>6. Is(h)
  BY <1>1, <1>4, <1>5
<1>7. Is(raw)
  <2>. HIDE DEF Is
  <2>. QED
    BY <1>6
<1>8. RawLines(s) = raw[N]
  BY DEF RawLines
<1>. HIDE DEF raw
<1>9. raw[0] = <<>> /\ \A n \in 1 .. N : raw[n] = AddSymbol(raw[n - 1], s[n])
  BY <1>1, <1>7
<1>. DEFINE T == {n \in Nat : n <= N => raw[n] \in D}
<1>10. Nat \subseteq T
  <2>. HIDE DEF D, N
  <2>1. 0 \in T
    BY <1>1, <1>9
  <2>2. ASSUME NEW n \in Nat, n \in T PROVE n + 1 \in T
    BY <1>1, <1>2, <1>9, <2>2
  <2>. HIDE DEF T
  <2>. QED
    BY <2>1, <2>2, Induction
<1>11. \A n \in 0 .. N : raw[n] \in D
  BY <1>1, <1>10
<1>12. raw \in [0 .. N -> D]
  BY <1>7, <1>11
<1>. QED
  BY <1>8, <1>9, <1>12

\* The lines are the text.
LEMMA RawLinesKeep ==
  ASSUME NEW s \in Text
  PROVE  RawLines(s) \in Seq(Text) /\ FlattenSeq(RawLines(s)) = s
<1>. DEFINE N == Len(s)
<1>1. N \in Nat /\ \A n \in 1 .. N : s[n] \in Symbols
  BY DEF Text
<1>2. PICK h \in [0 .. N -> Seq(Text)] :
        h[0] = <<>> /\ RawLines(s) = h[N] /\ \A n \in 1 .. N : h[n] = AddSymbol(h[n - 1], s[n])
  BY RawLinesSteps
<1>. DEFINE T == {n \in Nat : n <= N => FlattenSeq(h[n]) = SubSeq(s, 1, n)}
<1>. HIDE DEF N
<1>3. Nat \subseteq T
  <2>1. 0 \in T
    <3>1. SubSeq(s, 1, 0) = <<>>
      BY DEF Text
    <3>. QED
      BY <1>2, <3>1, FlattenNone
  <2>2. ASSUME NEW n \in Nat, n \in T PROVE n + 1 \in T
    <3>1. ASSUME n + 1 <= N PROVE FlattenSeq(h[n + 1]) = SubSeq(s, 1, n + 1)
      <4>1. n \in 0 .. N /\ n + 1 \in 1 .. N /\ (n + 1) - 1 = n /\ n <= N /\ n < N
        BY <1>1, <3>1
      <4>2. h[n] \in Seq(Text) /\ s[n + 1] \in Symbols /\ h[n + 1] = AddSymbol(h[n], s[n + 1])
        BY <1>1, <1>2, <4>1
      <4>3. FlattenSeq(h[n + 1]) = Append(FlattenSeq(h[n]), s[n + 1])
        BY <4>2, AddSymbolKeeps
      <4>4. FlattenSeq(h[n]) = SubSeq(s, 1, n)
        BY <2>2, <4>1
      <4>5. SubSeq(s, 1, n + 1) = Append(SubSeq(s, 1, n), s[n + 1])
        BY <4>1, Splitting DEF Text, N
      <4>. QED
        BY <4>3, <4>4, <4>5
    <3>. QED
      BY <3>1
  <2>. HIDE DEF T
  <2>. QED
    BY <2>1, <2>2, Induction
<1>4. FlattenSeq(h[N]) = SubSeq(s, 1, N)
  BY <1>1, <1>3
<1>5. SubSeq(s, 1, N) = s
  BY DEF N, Text
<1>6. h[N] \in Seq(Text)
  BY <1>1, <1>2
<1>. QED
  BY <1>2, <1>4, <1>5, <1>6

\* How often something is repeated is a number.
LEMMA RunIsNumber ==
  ASSUME NEW s \in Text, NEW i \in Int, NEW c
  PROVE  Run(s, i, c) \in Nat
<1>. DEFINE V == {k \in i .. Len(s) : \A j \in i .. k : s[j] = c}
<1>1. IsFiniteSet(i .. Len(s))
  BY FS_Interval DEF Text
<1>2. V \in SUBSET (i .. Len(s))
  OBVIOUS
<1>3. Run(s, i, c) = Cardinality(V)
  BY DEF Run
<1>. HIDE DEF V
<1>4. IsFiniteSet(V)
  BY <1>1, <1>2, FS_Subset
<1>. QED
  BY <1>3, <1>4, FS_CardinalityType

\* The loop.
Laps == [blocks : Seq(Text) \ {<<>>}, fence : Nat, blank : BOOLEAN]

\* The length of the marker of a fence is a number.
LEMMA FenceOpenIsNumber ==
  ASSUME NEW raw \in Text
  PROVE  FenceOpen(raw) \in Nat
<1>. DEFINE spaces == Run(raw, 1, "_")
            open == Run(raw, spaces + 1, "~~~")
<1>1. 1 \in Int
  OBVIOUS
<1>2. spaces \in Nat
  BY ONLY <1>1, raw \in Text, RunIsNumber, Zenon
<1>. HIDE DEF spaces
<1>3. spaces + 1 \in Int
  BY <1>2
<1>4. open \in Nat
  BY ONLY <1>3, raw \in Text, RunIsNumber, Zenon
<1>5. FenceOpen(raw) = IF spaces > 3 THEN 0 ELSE open
  BY DEF FenceOpen, spaces
<1>. HIDE DEF open
<1>. QED
  BY <1>4, <1>5

\* A line is added to the last block, or begins a block.
LEMMA AddRawKeeps ==
  ASSUME NEW acc \in Laps, NEW raw \in Text
  PROVE  AddRaw(acc, raw) \in Laps /\ FlattenSeq(AddRaw(acc, raw).blocks) = FlattenSeq(acc.blocks) \o raw
<1>. DEFINE Into(bs) == [bs EXCEPT ![Len(bs)] = @ \o raw]
<1>1. ASSUME NEW bs \in Seq(Text) \ {<<>>}
      PROVE  Into(bs) \in Seq(Text) \ {<<>>} /\ FlattenSeq(Into(bs)) = FlattenSeq(bs) \o raw
  BY LastGrows DEF Text
<1>2. FenceOpen(raw) \in Nat
  BY FenceOpenIsNumber
<1>3. /\ acc.blocks \in Seq(Text) \ {<<>>} /\ acc.fence \in Nat /\ acc.blank \in BOOLEAN
      /\ DOMAIN acc = {"blocks", "fence", "blank"}
  BY DEF Laps
<1>. DEFINE more == IF acc.blank /\ StartsNewBlock(raw) THEN Append(acc.blocks, <<>>) ELSE acc.blocks
<1>4. more \in Seq(Text) \ {<<>>} /\ FlattenSeq(more) = FlattenSeq(acc.blocks)
  <2>1. <<>> \in Text
    BY DEF Text
  <2>2. Append(acc.blocks, <<>>) \in Seq(Text) /\ Append(acc.blocks, <<>>) # <<>>
    BY <1>3, <2>1
  <2>3. FlattenSeq(Append(acc.blocks, <<>>)) = FlattenSeq(acc.blocks) \o <<>>
    BY <1>3, <2>1, FlattenAppend DEF Text
  <2>4. FlattenSeq(acc.blocks) \o <<>> = FlattenSeq(acc.blocks)
    <3>1. FlattenSeq(acc.blocks) \in Text
      BY <1>3, FlattenTyped DEF Text
    <3>. QED
      BY <3>1, Joining DEF Text
  <2>. QED
    BY <1>3, <2>2, <2>3, <2>4
<1>. DEFINE new == AddRaw(acc, raw)
<1>5. new \in [blocks : {Into(acc.blocks), Into(more)}, fence : Nat, blank : BOOLEAN]
  <2>1. CASE acc.fence > 0
    BY <1>3, <2>1 DEF AddRaw, Laps
  <2>2. CASE ~(acc.fence > 0) /\ IsBlank(raw)
    BY <1>3, <2>2 DEF AddRaw, Laps
  <2>3. CASE ~(acc.fence > 0) /\ ~IsBlank(raw)
    BY <1>2, <1>3, <2>3 DEF AddRaw, Laps
  <2>. QED
    BY <2>1, <2>2, <2>3
<1>. HIDE DEF Into, more, new
<1>6. new.blocks \in {Into(acc.blocks), Into(more)} /\ new \in [blocks : {Into(acc.blocks), Into(more)}, fence : Nat, blank : BOOLEAN]
  BY <1>5
<1>7. new.blocks \in Seq(Text) \ {<<>>} /\ FlattenSeq(new.blocks) = FlattenSeq(acc.blocks) \o raw
  BY <1>1, <1>3, <1>4, <1>6
<1>8. new \in Laps
  BY <1>6, <1>7 DEF Laps
<1>. QED
  BY <1>7, <1>8 DEF new

\* What the loop begins with.
Uncut == [blocks |-> <<<<>>>>, fence |-> 0, blank |-> FALSE]

\* The loop goes line by line.
LEMMA JoinedSteps ==
  ASSUME NEW raws \in Seq(Text)
  PROVE  \E h \in [0 .. Len(raws) -> Laps] :
           /\ h[0] = Uncut /\ Joined(raws) = h[Len(raws)]
           /\ \A n \in 1 .. Len(raws) : h[n] = AddRaw(h[n - 1], raws[n])
<1>. DEFINE N == Len(raws)
            g == [n \in 1 .. N |-> [y \in Laps |-> AddRaw(y, raws[n])]]
            Is(h) == h = [n \in 0 .. N |-> IF n = 0 THEN Uncut ELSE AddRaw(h[n - 1], raws[n])]
            joined == CHOOSE h : Is(h)
<1>1. N \in Nat /\ \A n \in 1 .. N : raws[n] \in Text
  OBVIOUS
<1>2. Uncut \in Laps
  <2>1. <<<<>>>> \in Seq(Text) \ {<<>>}
    BY DEF Text
  <2>. QED
    BY <2>1 DEF Uncut, Laps
<1>3. \A n \in 1 .. N, y \in Laps : AddRaw(y, raws[n]) \in Laps
  BY <1>1, AddRawKeeps
<1>4. g \in [1 .. N -> [Laps -> Laps]]
  BY <1>3
<1>5. PICK h \in [0 .. N -> Laps] : h[0] = Uncut /\ \A n \in 1 .. N : h[n] = g[n][h[n - 1]]
  <2>. HIDE DEF N, g
  <2>1. \E h \in [0 .. N -> Laps] : Recurs(h, N, Uncut, g)
    BY <1>1, <1>2, <1>4, Recursion
  <2>. QED
    BY <2>1 DEF Recurs
<1>6. ASSUME NEW n \in 1 .. N PROVE n - 1 \in 0 .. N /\ h[n] = AddRaw(h[n - 1], raws[n])
  <2>1. n - 1 \in 0 .. N
    BY <1>1
  <2>2. h[n - 1] \in Laps
    BY <1>5, <2>1
  <2>3. h[n] = g[n][h[n - 1]] /\ g[n] = [y \in Laps |-> AddRaw(y, raws[n])]
    BY <1>5
  <2>. HIDE DEF N, g
  <2>. QED
    BY <2>1, <2>2, <2>3
<1>7. Is(h)
  BY <1>1, <1>5, <1>6
<1>8. Is(joined)
  <2>. HIDE DEF Is
  <2>. QED
    BY <1>7
<1>9. Joined(raws) = joined[N]
  BY DEF Joined, Uncut
<1>. HIDE DEF joined
<1>10. joined[0] = Uncut /\ \A n \in 1 .. N : joined[n] = AddRaw(joined[n - 1], raws[n])
  BY <1>1, <1>8
<1>. DEFINE T == {n \in Nat : n <= N => joined[n] \in Laps}
<1>11. Nat \subseteq T
  <2>. HIDE DEF N
  <2>1. 0 \in T
    BY <1>2, <1>10
  <2>2. ASSUME NEW n \in Nat, n \in T PROVE n + 1 \in T
    BY <1>1, <1>3, <1>10, <2>2
  <2>. HIDE DEF T
  <2>. QED
    BY <2>1, <2>2, Induction
<1>12. \A n \in 0 .. N : joined[n] \in Laps
  BY <1>1, <1>11
<1>13. joined \in [0 .. N -> Laps]
  BY <1>8, <1>12
<1>. QED
  BY <1>9, <1>10, <1>13

\* The blocks are the lines.
LEMMA JoinedKeeps ==
  ASSUME NEW raws \in Seq(Text)
  PROVE  FlattenSeq(Joined(raws).blocks) = FlattenSeq(raws)
<1>. DEFINE N == Len(raws)
<1>1. N \in Nat /\ \A n \in 1 .. N : raws[n] \in Text
  OBVIOUS
<1>2. PICK h \in [0 .. N -> Laps] :
        h[0] = Uncut /\ Joined(raws) = h[N] /\ \A n \in 1 .. N : h[n] = AddRaw(h[n - 1], raws[n])
  BY JoinedSteps
<1>3. PICK f \in [0 .. N -> Text] :
        f[0] = <<>> /\ FlattenSeq(raws) = f[N] /\ \A n \in 1 .. N : f[n] = f[n - 1] \o raws[n]
  BY FlattenSteps DEF Text
<1>. DEFINE T == {n \in Nat : n <= N => FlattenSeq(h[n].blocks) = f[n]}
<1>. HIDE DEF N
<1>4. Nat \subseteq T
  <2>1. 0 \in T
    <3>1. <<>> \in Text /\ Uncut.blocks = <<<<>>>>
      BY DEF Uncut, Text
    <3>2. FlattenSeq(<<<<>>>>) = <<>>
      BY <3>1, FlattenOne DEF Text
    <3>. QED
      BY <1>2, <1>3, <3>1, <3>2
  <2>2. ASSUME NEW n \in Nat, n \in T PROVE n + 1 \in T
    <3>1. ASSUME n + 1 <= N PROVE FlattenSeq(h[n + 1].blocks) = f[n + 1]
      <4>1. n \in 0 .. N /\ n + 1 \in 1 .. N /\ (n + 1) - 1 = n /\ n <= N
        BY <1>1, <3>1
      <4>2. h[n] \in Laps /\ raws[n + 1] \in Text /\ h[n + 1] = AddRaw(h[n], raws[n + 1])
        BY <1>1, <1>2, <4>1
      <4>3. FlattenSeq(h[n + 1].blocks) = FlattenSeq(h[n].blocks) \o raws[n + 1]
        BY <4>2, AddRawKeeps
      <4>4. FlattenSeq(h[n].blocks) = f[n]
        BY <2>2, <4>1
      <4>5. f[n + 1] = f[n] \o raws[n + 1]
        BY <1>3, <4>1
      <4>. QED
        BY <4>3, <4>4, <4>5
    <3>. QED
      BY <3>1
  <2>. HIDE DEF T
  <2>. QED
    BY <2>1, <2>2, Induction
<1>5. FlattenSeq(h[N].blocks) = f[N]
  BY <1>1, <1>4
<1>. QED
  BY <1>2, <1>3, <1>5

\* The blocks of a growing text are the text.
LEMMA SplitKeeps ==
  ASSUME NEW s \in Text
  PROVE  FlattenSeq(SplitMarkdownBlocks(s)) = s
<1>1. CASE s = <<>>
  BY <1>1, FlattenNone DEF SplitMarkdownBlocks
<1>2. CASE s # <<>> /\ Possible_reference(s)
  <2>1. FlattenSeq(<<s>>) = s
    BY FlattenOne DEF Text
  <2>. QED
    BY <1>2, <2>1 DEF SplitMarkdownBlocks
<1>3. CASE s # <<>> /\ ~Possible_reference(s)
  <2>1. SplitMarkdownBlocks(s) = Joined(RawLines(s)).blocks
    BY <1>3 DEF SplitMarkdownBlocks
  <2>. QED
    BY <2>1, RawLinesKeep, JoinedKeeps
<1>. QED
  BY <1>1, <1>2, <1>3

----------------------------------------------------------------------------
(* What is drawn of a final text. *)

\* The lines of a final text, and those that are drawn as well.
Words == FinalLines \union {"language", "blank"}

\* What f makes of the entries of a list.
Mapped(f, s) == [k \in DOMAIN s |-> f[s[k]]]

\* It is a list, and one entry of it after the other.
LEMMA MappedJoined ==
  ASSUME NEW S, NEW f, NEW s \in Seq(S), NEW t \in Seq(S)
  PROVE  Mapped(f, s \o t) = Mapped(f, s) \o Mapped(f, t)
<1>. DEFINE D == {f[x] : x \in S}
<1>1. \A r \in Seq(S) : /\ Mapped(f, r) \in Seq(D) /\ Len(Mapped(f, r)) = Len(r)
                        /\ \A i \in 1 .. Len(r) : Mapped(f, r)[i] = f[r[i]]
  BY DEF Mapped
<1>2. /\ s \o t \in Seq(S) /\ Len(s \o t) = Len(s) + Len(t) /\ Len(s) \in Nat /\ Len(t) \in Nat
      /\ \A i \in 1 .. Len(s) + Len(t) : (s \o t)[i] = IF i <= Len(s) THEN s[i] ELSE t[i - Len(s)]
  BY Joining
<1>. DEFINE a == Mapped(f, s)
            b == Mapped(f, t)
            c == Mapped(f, s \o t)
<1>3. /\ a \in Seq(D) /\ b \in Seq(D) /\ c \in Seq(D)
      /\ Len(a) = Len(s) /\ Len(b) = Len(t) /\ Len(c) = Len(s) + Len(t)
      /\ \A i \in 1 .. Len(s) : a[i] = f[s[i]]
      /\ \A i \in 1 .. Len(t) : b[i] = f[t[i]]
      /\ \A i \in 1 .. Len(s) + Len(t) : c[i] = f[(s \o t)[i]]
  BY <1>1, <1>2
<1>. HIDE DEF a, b, c
<1>4. /\ a \o b \in Seq(D) /\ Len(a \o b) = Len(s) + Len(t)
      /\ \A i \in 1 .. Len(s) + Len(t) : (a \o b)[i] = IF i <= Len(s) THEN a[i] ELSE b[i - Len(s)]
  <2>1. /\ a \o b \in Seq(D) /\ Len(a \o b) = Len(a) + Len(b)
        /\ \A i \in 1 .. Len(a) + Len(b) : (a \o b)[i] = IF i <= Len(a) THEN a[i] ELSE b[i - Len(a)]
    <3>1. a \in Seq(D) /\ b \in Seq(D)
      BY <1>3
    <3>. QED
      BY ONLY <3>1, Joining
  <2>. QED
    BY <1>2, <1>3, <2>1
<1>5. ASSUME NEW i \in 1 .. Len(s) + Len(t) PROVE c[i] = (a \o b)[i]
  <2>1. CASE i <= Len(s)
    <3>1. i \in 1 .. Len(s) /\ (s \o t)[i] = s[i] /\ (a \o b)[i] = a[i]
      BY <1>2, <1>4, <2>1
    <3>. QED
      BY <1>3, <3>1
  <2>2. CASE ~(i <= Len(s))
    <3>1. i - Len(s) \in 1 .. Len(t) /\ (s \o t)[i] = t[i - Len(s)] /\ (a \o b)[i] = b[i - Len(s)]
      BY <1>2, <1>4, <2>2
    <3>. QED
      BY <1>3, <3>1
  <2>. QED
    BY <2>1, <2>2
<1>6. c = a \o b
  BY <1>3, <1>4, <1>5, SameList
<1>. QED
  BY <1>6 DEF a, b, c

\* The type.
LEMMA MappedTyped ==
  ASSUME NEW S, NEW D, NEW f \in [S -> D], NEW s \in Seq(S)
  PROVE  Mapped(f, s) \in Seq(D)
  BY DEF Mapped

\* The lists that the entries of a list are drawn as, one after the other.
LEMMA FlattenMapped ==
  ASSUME NEW S, NEW f \in [S -> Seq(Words)], NEW s \in Seq(S), NEW t \in Seq(S)
  PROVE  /\ FlattenSeq(Mapped(f, s)) \in Seq(Words)
         /\ FlattenSeq(Mapped(f, s \o t)) = FlattenSeq(Mapped(f, s)) \o FlattenSeq(Mapped(f, t))
<1>. DEFINE D == Seq(Words)
<1>1. Mapped(f, s) \in Seq(D) /\ Mapped(f, t) \in Seq(D)
  <2>1. f \in [S -> D]
    OBVIOUS
  <2>. HIDE DEF D
  <2>2. Mapped(f, s) \in Seq(D)
    BY <2>1, MappedTyped
  <2>3. Mapped(f, t) \in Seq(D)
    BY <2>1, MappedTyped
  <2>. QED
    BY <2>2, <2>3
<1>2. Mapped(f, s \o t) = Mapped(f, s) \o Mapped(f, t)
  BY ONLY s \in Seq(S), t \in Seq(S), MappedJoined
<1>3. FlattenSeq(Mapped(f, s)) \in Seq(Words)
  BY <1>1, FlattenTyped
<1>4. \A ss \in Seq(D), tt \in Seq(D) : FlattenSeq(ss \o tt) = FlattenSeq(ss) \o FlattenSeq(tt)
  BY FlattenJoined
<1>. HIDE DEF D
<1>5. FlattenSeq(Mapped(f, s) \o Mapped(f, t)) = FlattenSeq(Mapped(f, s)) \o FlattenSeq(Mapped(f, t))
  BY <1>1, <1>4
<1>. QED
  BY <1>2, <1>3, <1>5

\* A single entry.
LEMMA FlattenMappedOne ==
  ASSUME NEW S, NEW f \in [S -> Seq(Words)], NEW v \in S
  PROVE  FlattenSeq(Mapped(f, <<v>>)) = f[v]
<1>1. Mapped(f, <<v>>) = <<f[v]>>
  BY DEF Mapped
<1>2. f[v] \in Seq(Words)
  OBVIOUS
<1>. QED
  BY <1>1, <1>2, FlattenOne

\* One more entry.
LEMMA FlattenMappedAppend ==
  ASSUME NEW S, NEW f \in [S -> Seq(Words)], NEW s \in Seq(S), NEW v \in S
  PROVE  FlattenSeq(Mapped(f, Append(s, v))) = FlattenSeq(Mapped(f, s)) \o f[v]
<1>. DEFINE one == <<v>>
<1>1. Append(s, v) = s \o one /\ one \in Seq(S)
  BY Joining
<1>2. FlattenSeq(Mapped(f, one)) = f[v]
  BY FlattenMappedOne
<1>. HIDE DEF one
<1>3. FlattenSeq(Mapped(f, s \o one)) = FlattenSeq(Mapped(f, s)) \o FlattenSeq(Mapped(f, one))
  BY <1>1, FlattenMapped
<1>. QED
  BY <1>1, <1>2, <1>3

\* Which lines are told.
Kept == [l \in Words |-> IF l \in Marks_of THEN <<>> ELSE <<l>>]

\* What is told, entry by entry.
LEMMA ToldKept ==
  ASSUME NEW s \in Seq(Words)
  PROVE  Kept \in [Words -> Seq(Words)] /\ Said(s) = FlattenSeq(Mapped(Kept, s))
<1>1. Kept \in [Words -> Seq(Words)]
  BY DEF Kept
<1>2. \A k \in DOMAIN s : s[k] \in Words /\ Kept[s[k]] = IF s[k] \in Marks_of THEN <<>> ELSE <<s[k]>>
  BY DEF Kept
<1>3. Mapped(Kept, s) = [k \in DOMAIN s |-> IF s[k] \in Marks_of THEN <<>> ELSE <<s[k]>>]
  BY <1>2 DEF Mapped
<1>. QED
  BY <1>1, <1>3 DEF Said

\* What is told of two lists, and of a mark.
LEMMA ToldJoined ==
  ASSUME NEW s \in Seq(Words), NEW t \in Seq(Words)
  PROVE  Said(s) \in Seq(Words) /\ Said(s \o t) = Said(s) \o Said(t) /\ Said(<<>>) = <<>>
<1>1. s \o t \in Seq(Words) /\ <<>> \in Seq(Words)
  OBVIOUS
<1>2. /\ Kept \in [Words -> Seq(Words)]
      /\ Said(s) = FlattenSeq(Mapped(Kept, s)) /\ Said(t) = FlattenSeq(Mapped(Kept, t))
      /\ Said(s \o t) = FlattenSeq(Mapped(Kept, s \o t)) /\ Said(<<>>) = FlattenSeq(Mapped(Kept, <<>>))
  BY <1>1, ToldKept
<1>3. FlattenSeq(Mapped(Kept, s)) \in Seq(Words)
  BY ONLY <1>2, s \in Seq(Words), FlattenMapped
<1>4. FlattenSeq(Mapped(Kept, s \o t)) = FlattenSeq(Mapped(Kept, s)) \o FlattenSeq(Mapped(Kept, t))
  <2>1. \A f \in [Words -> Seq(Words)] :
          FlattenSeq(Mapped(f, s \o t)) = FlattenSeq(Mapped(f, s)) \o FlattenSeq(Mapped(f, t))
    BY FlattenMapped
  <2>. QED
    BY ONLY <1>2, <2>1
<1>5. FlattenSeq(Mapped(Kept, <<>>)) = <<>>
  BY FlattenNone DEF Mapped
<1>. QED
  BY <1>2, <1>3, <1>4, <1>5

\* Nothing is told of a mark.
LEMMA ToldMark ==
  ASSUME NEW l \in Words \cap Marks_of
  PROVE  Said(<<l>>) = <<>>
<1>1. <<l>> \in Seq(Words)
  OBVIOUS
<1>2. Kept \in [Words -> Seq(Words)] /\ Said(<<l>>) = FlattenSeq(Mapped(Kept, <<l>>))
  BY <1>1, ToldKept
<1>3. FlattenSeq(Mapped(Kept, <<l>>)) = Kept[l]
  BY <1>1, <1>2, FlattenMappedOne
<1>. QED
  BY <1>2, <1>3 DEF Kept

----------------------------------------------------------------------------
(* Lists. *)

\* The runs of items so far.
ItemRuns == [ok : BOOLEAN, columns : Seq(Nat), depths : Seq(0 .. 2)]
Fresh == [ok |-> TRUE, columns |-> <<>>, depths |-> <<>>]

\* How deep a list is: its first item is at the first level, and no item is more than one level
\* below the one before.
Stepwise(d) == (d # <<>> => d[1] = 0) /\ \A k \in 2 .. Len(d) : d[k] <= d[k - 1] + 1

\* The depth of the last item is that of the columns it is nested in.
Nested(acc, n) ==
    acc.ok => /\ Len(acc.depths) = n /\ Stepwise(acc.depths)
              /\ IF n = 0 THEN acc.columns = <<>>
                 ELSE Len(acc.columns) \in 1 .. 3 /\ acc.depths[n] = Len(acc.columns) - 1

\* An item is added: at the level of one of the columns, or one level below the last.
LEMMA AddItemKeeps ==
  ASSUME NEW acc \in ItemRuns, NEW l, NEW n \in Nat, Nested(acc, n)
  PROVE  AddItem(acc, l) \in ItemRuns /\ Nested(AddItem(acc, l), n + 1)
<1>. DEFINE c == acc.columns
            d == acc.depths
            new == AddItem(acc, l)
            to == {i \in DOMAIN c : c[i] = Indents[l]}
            now == IF c = <<>> \/ Indents[l] > Last(c) THEN Append(c, Indents[l])
                   ELSE IF to = {} THEN <<>> ELSE SubSeq(c, 1, CHOOSE i \in to : TRUE)
<1>1. /\ acc.ok \in BOOLEAN /\ c \in Seq(Nat) /\ d \in Seq(0 .. 2)
      /\ acc = [ok |-> acc.ok, columns |-> c, depths |-> d]
  BY DEF ItemRuns
<1>2. CASE ~acc.ok \/ l \notin DOMAIN Indents
  <2>1. new = [acc EXCEPT !.ok = FALSE]
    BY <1>2 DEF AddItem
  <2>2. new \in ItemRuns /\ ~new.ok
    BY <2>1 DEF ItemRuns
  <2>. QED
    BY <2>2 DEF Nested
<1>3. CASE ~(~acc.ok \/ l \notin DOMAIN Indents)
  <2>1. new = IF Len(now) \in 1 .. 3 THEN [acc EXCEPT !.columns = now, !.depths = Append(@, Len(now) - 1)]
              ELSE [acc EXCEPT !.ok = FALSE]
    BY <1>3 DEF AddItem
  <2>2. CASE ~(Len(now) \in 1 .. 3)
    <3>1. new = [acc EXCEPT !.ok = FALSE]
      BY <2>1, <2>2
    <3>2. new \in ItemRuns /\ ~new.ok
      BY <3>1 DEF ItemRuns
    <3>. QED
      BY <3>2 DEF Nested
  <2>3. CASE Len(now) \in 1 .. 3
    <3>1. Indents[l] \in Nat
      BY <1>3 DEF Indents
    <3>2. now \in Seq(Nat) /\ Len(now) <= Len(c) + 1
      <4>1. CASE c = <<>> \/ Indents[l] > Last(c)
        BY <1>1, <3>1, <4>1
      <4>2. CASE ~(c = <<>> \/ Indents[l] > Last(c)) /\ to = {}
        BY <1>1, <4>2
      <4>3. CASE ~(c = <<>> \/ Indents[l] > Last(c)) /\ to # {}
        <5>. DEFINE i == CHOOSE i \in to : TRUE
        <5>1. i \in to /\ to \subseteq DOMAIN c
          BY <4>3
        <5>2. now = SubSeq(c, 1, i)
          BY <4>3
        <5>. HIDE DEF i, now, to
        <5>3. i \in 1 .. Len(c)
          BY <1>1, <5>1
        <5>4. SubSeq(c, 1, i) \in Seq(Nat) /\ Len(SubSeq(c, 1, i)) = i
          BY <1>1, <5>3
        <5>. QED
          BY <1>1, <5>2, <5>3, <5>4
      <4>. QED
        BY <4>1, <4>2, <4>3
    <3>. HIDE DEF now, to
    <3>3. acc.ok /\ Len(d) = n /\ Stepwise(d)
          /\ IF n = 0 THEN c = <<>> ELSE Len(c) \in 1 .. 3 /\ d[n] = Len(c) - 1
      BY <1>3 DEF Nested
    <3>. DEFINE depth == Len(now) - 1
                e == Append(d, depth)
    <3>4. depth \in 0 .. 2 /\ (n = 0 => depth = 0) /\ (n # 0 => depth <= d[n] + 1)
      <4>. DEFINE m == Len(now)
                  k == Len(c)
      <4>1. m \in 1 .. 3 /\ m <= k + 1 /\ k \in Nat /\ depth = m - 1
        BY <1>1, <2>3, <3>2
      <4>2. n = 0 => k = 0
        <5>1. n = 0 => c = <<>>
          BY <3>3
        <5>2. c = <<>> => Len(c) = 0
          OBVIOUS
        <5>. QED
          BY <5>1, <5>2
      <4>3. n # 0 => d[n] = k - 1
        BY <3>3
      <4>. HIDE DEF m, k, depth, d, c
      <4>. QED
        BY <4>1, <4>2, <4>3
    <3>5. new = [ok |-> TRUE, columns |-> now, depths |-> e]
      BY <1>1, <2>1, <2>3, <3>3
    <3>. HIDE DEF depth, new
    <3>6. /\ e \in Seq(0 .. 2) /\ Len(e) = n + 1 /\ e[n + 1] = depth
          /\ \A k \in 1 .. n : e[k] = d[k]
      BY <1>1, <3>3, <3>4
    <3>. HIDE DEF c, d, e
    <3>7. ASSUME NEW k \in 2 .. n + 1 PROVE e[k] <= e[k - 1] + 1
      <4>1. CASE k = n + 1
        <5>1. n # 0 /\ n \in 1 .. n /\ k - 1 = n
          BY <4>1
        <5>. QED
          BY <3>4, <3>6, <4>1, <5>1
      <4>2. CASE k # n + 1
        <5>1. k \in 1 .. n /\ k - 1 \in 1 .. n /\ k \in 2 .. n
          BY <4>2
        <5>2. d[k] <= d[k - 1] + 1
          BY <3>3, <5>1 DEF Stepwise
        <5>. QED
          BY <3>6, <5>1, <5>2
      <4>. QED
        BY <4>1, <4>2
    <3>8. e[1] = 0
      <4>1. CASE n = 0
        BY <3>4, <3>6, <4>1
      <4>2. CASE n # 0
        <5>1. 1 \in 1 .. n /\ d # <<>>
          BY <1>1, <3>3, <4>2
        <5>. QED
          BY <3>3, <3>6, <5>1 DEF Stepwise
      <4>. QED
        BY <4>1, <4>2
    <3>9. Stepwise(e)
      BY <3>6, <3>7, <3>8 DEF Stepwise
    <3>10. depth = Len(now) - 1
      BY DEF depth
    <3>11. new \in ItemRuns
      BY <3>2, <3>5, <3>6 DEF ItemRuns
    <3>12. Nested(new, n + 1)
      BY <2>3, <3>5, <3>6, <3>9, <3>10 DEF Nested
    <3>. QED
      BY <3>11, <3>12 DEF new
  <2>. QED
    BY <2>2, <2>3
<1>. QED
  BY <1>2, <1>3

\* A run of items is read item by item: it is a list, whose depths are as they should, or stays
\* as it was written.
LEMMA ParseListRunKeeps ==
  ASSUME NEW ls \in Seq(FinalLines)
  PROVE  \/ ParseListRun(ls) = [kind |-> "literal", lines |-> ls]
         \/ \E d \in Seq(0 .. 2) : /\ ParseListRun(ls) = [kind |-> "list", lines |-> ls, depths |-> d]
                                   /\ Len(d) = Len(ls) /\ Stepwise(d)
<1>. DEFINE N == Len(ls)
            D == ItemRuns
            g == [n \in 1 .. N |-> [y \in D |-> IF Nested(y, n - 1) THEN AddItem(y, ls[n]) ELSE y]]
            Is(h) == h = [n \in 0 .. N |-> IF n = 0 THEN Fresh ELSE AddItem(h[n - 1], ls[n])]
            item == CHOOSE h : Is(h)
<1>1. N \in Nat
  OBVIOUS
<1>2. Fresh \in D /\ Nested(Fresh, 0)
  BY DEF Fresh, ItemRuns, Nested, Stepwise
<1>3. \A n \in 1 .. N : n - 1 \in 0 .. N /\ n - 1 \in Nat /\ (n - 1) + 1 = n
  BY <1>1
<1>4. \A n \in 1 .. N, y \in D : Nested(y, n - 1) => AddItem(y, ls[n]) \in D /\ Nested(AddItem(y, ls[n]), n)
  <2>. TAKE n \in 1 .. N, y \in D
  <2>. HAVE Nested(y, n - 1)
  <2>1. AddItem(y, ls[n]) \in D /\ Nested(AddItem(y, ls[n]), (n - 1) + 1)
    BY <1>3, AddItemKeeps
  <2>. QED
    BY <1>3, <2>1
<1>5. g \in [1 .. N -> [D -> D]]
  BY <1>4
<1>6. PICK h \in [0 .. N -> D] : h[0] = Fresh /\ \A n \in 1 .. N : h[n] = g[n][h[n - 1]]
  <2>. HIDE DEF N, D, g
  <2>1. \E h \in [0 .. N -> D] : Recurs(h, N, Fresh, g)
    BY <1>1, <1>2, <1>5, Recursion
  <2>. QED
    BY <2>1 DEF Recurs
<1>. DEFINE T == {n \in Nat : n <= N => Nested(h[n], n)}
<1>7. ASSUME NEW n \in 1 .. N
      PROVE  h[n - 1] \in D /\ h[n] = IF Nested(h[n - 1], n - 1) THEN AddItem(h[n - 1], ls[n]) ELSE h[n - 1]
  <2>1. h[n - 1] \in D
    BY <1>3, <1>6
  <2>2. h[n] = g[n][h[n - 1]] /\ g[n] = [y \in D |-> IF Nested(y, n - 1) THEN AddItem(y, ls[n]) ELSE y]
    BY <1>6
  <2>. HIDE DEF N, D, g
  <2>. QED
    BY <2>1, <2>2
<1>8. Nat \subseteq T
  <2>. HIDE DEF N, D, g
  <2>1. 0 \in T
    BY <1>2, <1>6
  <2>2. ASSUME NEW n \in Nat, n \in T PROVE n + 1 \in T
    <3>1. ASSUME n + 1 <= N PROVE Nested(h[n + 1], n + 1)
      <4>1. n + 1 \in 1 .. N /\ (n + 1) - 1 = n /\ n <= N
        BY <1>1, <3>1
      <4>2. Nested(h[n], n)
        BY <2>2, <4>1
      <4>3. h[n] \in D /\ h[n + 1] = AddItem(h[n], ls[n + 1])
        BY <1>7, <4>1, <4>2
      <4>. QED
        BY <1>4, <4>1, <4>2, <4>3
    <3>. QED
      BY <3>1
  <2>. HIDE DEF T
  <2>. QED
    BY <2>1, <2>2, Induction
<1>9. \A n \in 0 .. N : h[n] \in D /\ Nested(h[n], n)
  BY <1>1, <1>6, <1>8
<1>10. ASSUME NEW n \in 1 .. N PROVE h[n] = AddItem(h[n - 1], ls[n])
  BY <1>3, <1>7, <1>9
<1>11. Is(h)
  BY <1>1, <1>3, <1>6, <1>10
<1>12. Is(item)
  <2>. HIDE DEF Is
  <2>. QED
    BY <1>11
<1>. DEFINE U == {n \in Nat : n <= N => item[n] = h[n]}
<1>13. ParseListRun(ls) = IF item[N].ok THEN [kind |-> "list", lines |-> ls, depths |-> item[N].depths]
                          ELSE [kind |-> "literal", lines |-> ls]
  BY DEF ParseListRun, Fresh
<1>. HIDE DEF item
<1>14. item[0] = Fresh /\ \A n \in 1 .. N : item[n] = AddItem(item[n - 1], ls[n])
  BY <1>1, <1>12
<1>15. Nat \subseteq U
  <2>. HIDE DEF N, D, g, T
  <2>1. 0 \in U
    BY <1>6, <1>14
  <2>2. ASSUME NEW n \in Nat, n \in U PROVE n + 1 \in U
    <3>1. ASSUME n + 1 <= N PROVE item[n + 1] = h[n + 1]
      <4>1. n + 1 \in 1 .. N /\ (n + 1) - 1 = n /\ n <= N
        BY <1>1, <3>1
      <4>2. item[n] = h[n]
        BY <2>2, <4>1
      <4>. QED
        BY <1>10, <1>14, <4>1, <4>2
    <3>. QED
      BY <3>1
  <2>. HIDE DEF U
  <2>. QED
    BY <2>1, <2>2, Induction
<1>16. item[N] \in D /\ Nested(item[N], N)
  BY <1>1, <1>9, <1>15
<1>. HIDE DEF N, g, T, U
<1>17. item[N].depths \in Seq(0 .. 2) /\ (item[N].ok => Len(item[N].depths) = N /\ Stepwise(item[N].depths))
  BY <1>16 DEF Nested, ItemRuns
<1>. QED
  BY <1>13, <1>17 DEF N

----------------------------------------------------------------------------
(* The blocks of a final text. *)

FinalText == Seq(FinalLines) \ {<<>>}

\* Some of the first m numbers are at most m.
LEMMA Counted ==
  ASSUME NEW m \in Nat, NEW V \in SUBSET (1 .. m)
  PROVE  Cardinality(V) \in 0 .. m
<1>1. IsFiniteSet(1 .. m) /\ Cardinality(1 .. m) = m
  BY FS_Interval
<1>2. IsFiniteSet(V) /\ Cardinality(V) <= m
  BY <1>1, FS_Subset
<1>3. Cardinality(V) \in Nat
  BY <1>2, FS_CardinalityType
<1>. QED
  BY <1>2, <1>3

\* A fence ends at a line of the text.
LEMMA FenceLengthBound ==
  ASSUME NEW ls \in FinalText
  PROVE  FenceLength(ls) \in 1 .. Len(ls)
<1>1. Len(ls) \in Nat /\ Len(ls) # 0
  BY DEF FinalText
<1>2. Closers(ls) \in SUBSET (2 .. Len(ls))
  BY DEF Closers
<1>3. CASE Closers(ls) = {}
  BY <1>1, <1>3 DEF FenceLength
<1>4. CASE Closers(ls) # {}
  <2>1. Closers(ls) \in SUBSET Nat
    BY <1>1, <1>2
  <2>2. \E k \in Closers(ls) : \A j \in Closers(ls) : k <= j
    BY <1>4, <2>1, Least
  <2>3. FenceLength(ls) \in Closers(ls)
    BY <1>4, <2>2 DEF FenceLength
  <2>. QED
    BY <1>1, <1>2, <2>3
<1>. QED
  BY <1>3, <1>4

\* Some first lines of a text.
LEMMA WhileBound ==
  ASSUME NEW S, NEW ls \in Seq(S), NEW kinds
  PROVE  While(ls, kinds) \in 0 .. Len(ls) /\ (ls # <<>> /\ ls[1] \in kinds => While(ls, kinds) # 0)
<1>. DEFINE V == {k \in DOMAIN ls : \A j \in 1 .. k : ls[j] \in kinds}
<1>1. Len(ls) \in Nat /\ DOMAIN ls = 1 .. Len(ls) /\ (ls # <<>> => 1 \in DOMAIN ls)
  OBVIOUS
<1>2. V \in SUBSET (1 .. Len(ls))
  BY <1>1
<1>3. ls # <<>> /\ ls[1] \in kinds => V # {}
  <2>1. \A j \in 1 .. 1 : j = 1
    OBVIOUS
  <2>. QED
    BY <1>1, <2>1
<1>4. While(ls, kinds) = Cardinality(V)
  BY DEF While
<1>. HIDE DEF V
<1>5. Cardinality(V) \in 0 .. Len(ls)
  BY <1>1, <1>2, Counted
<1>6. V # {} => Cardinality(V) # 0
  <2>1. IsFiniteSet(V)
    <3>1. IsFiniteSet(1 .. Len(ls))
      BY <1>1, FS_Interval
    <3>. QED
      BY <1>2, <3>1, FS_Subset
  <2>. QED
    BY <2>1, FS_EmptySet
<1>. QED
  BY <1>3, <1>4, <1>5, <1>6

\* A block takes a line at least, and no more than there are.
LEMMA ExtentBound ==
  ASSUME NEW ls \in FinalText
  PROVE  Extent(ls) \in 1 .. Len(ls)
<1>. DEFINE l == ls[1]
            N == Len(ls)
            table == SubSeq(ls, 3, N)
            paragraph == {k \in FinalLines : ~StartsNew(k)}
            first == l = "blank" \/ l \in Headings
            second == l \in Fences
            third == l \in Items
            fourth == l \in Pipes \ Items /\ N > 1 /\ ls[2] \in Rules
<1>1. N \in Nat /\ N # 0 /\ ls \in Seq(FinalLines) /\ ls # <<>>
  BY DEF FinalText
<1>2. ~(first /\ second) /\ ~(first /\ third) /\ ~(first /\ fourth) /\ ~(second /\ third) /\ ~(second /\ fourth)
  BY DEF Headings, Fences, Items, Indents, Pipes
<1>3. ~(third /\ fourth)
  OBVIOUS
<1>4. Extent(ls) = CASE first -> 1
                     [] second -> FenceLength(ls)
                     [] third -> IF l \in Rules THEN 1 ELSE While(ls, Items)
                     [] fourth -> 2 + While(table, Pipes)
                     [] OTHER -> 1 + While(Tail(ls), paragraph)
  BY DEF Extent
<1>5. While(ls, Items) \in 0 .. N /\ (third => While(ls, Items) # 0)
  BY <1>1, WhileBound
<1>6. While(Tail(ls), paragraph) \in 0 .. N - 1
  <2>1. Tail(ls) \in Seq(FinalLines) /\ Len(Tail(ls)) = N - 1
    BY <1>1
  <2>2. While(Tail(ls), paragraph) \in 0 .. Len(Tail(ls))
    BY <2>1, WhileBound
  <2>. QED
    BY <2>1, <2>2
<1>7. N > 1 => While(table, Pipes) \in 0 .. N - 2
  <2>. HAVE N > 1
  <2>1. table \in Seq(FinalLines) /\ Len(table) = N - 2
    <3>1. 2 \in 0 .. Len(ls) /\ 2 + 1 = 3
      BY <1>1
    <3>2. SubSeq(ls, 2 + 1, Len(ls)) \in Seq(FinalLines) /\ Len(SubSeq(ls, 2 + 1, Len(ls))) = Len(ls) - 2
      BY ONLY <1>1, <3>1, Splitting
    <3>. QED
      BY <3>1, <3>2
  <2>2. While(table, Pipes) \in 0 .. Len(table)
    BY <2>1, WhileBound
  <2>. QED
    BY <2>1, <2>2
<1>8. FenceLength(ls) \in 1 .. N
  BY FenceLengthBound
<1>9. fourth => N > 1
  OBVIOUS
<1>. SUFFICES Extent(ls) \in 1 .. N
  OBVIOUS
<1>. HIDE DEF first, second, third, fourth, table, paragraph, N, l
<1>10. CASE first
  BY <1>1, <1>2, <1>4, <1>10
<1>11. CASE second
  BY <1>2, <1>4, <1>8, <1>11
<1>12. CASE third
  BY <1>1, <1>2, <1>3, <1>4, <1>5, <1>12
<1>13. CASE fourth
  BY <1>1, <1>2, <1>3, <1>4, <1>7, <1>9, <1>13
<1>14. CASE ~first /\ ~second /\ ~third /\ ~fourth
  BY <1>1, <1>4, <1>6, <1>14
<1>. QED
  BY <1>10, <1>11, <1>12, <1>13, <1>14

\* What a block is: lines as they were written, a list, or the lines between two marks.
AsWritten(b, ls) == \E kind \in {"blank", "literal", "heading", "paragraph"} : b = [kind |-> kind, lines |-> ls]
AsList(b, ls) == \E d \in Seq(0 .. 2) : /\ b = [kind |-> "list", lines |-> ls, depths |-> d]
                                        /\ Len(d) = Len(ls) /\ Stepwise(d)
AsCode(b, ls) == /\ b = [kind |-> "code", lines |-> SubSeq(ls, 2, Len(ls) - 1), opener |-> ls[1]]
                 /\ Len(ls) >= 2 /\ ls[1] \in Fences /\ ls[Len(ls)] = "fence"

\* A block is one of these.
LEMMA BlockShape ==
  ASSUME NEW ls \in FinalText
  PROVE  AsWritten(Block(ls), ls) \/ AsList(Block(ls), ls) \/ AsCode(Block(ls), ls)
<1>. DEFINE l == ls[1]
            b == Block(ls)
<1>1. Len(ls) \in Nat /\ Len(ls) # 0 /\ ls \in Seq(FinalLines)
  BY DEF FinalText
<1>2. \A kind \in {"heading", "paragraph"} : AsWritten(Plain(kind, ls), ls)
  BY DEF Plain, AsWritten
<1>3. l \in Fences => AsWritten(ParseFence(ls), ls) \/ AsCode(ParseFence(ls), ls)
  <2>. HAVE l \in Fences
  <2>1. CASE Closers(ls) = {} \/ ls[1] = "draft" \/ \E k \in 2 .. Len(ls) - 1 : ls[k] \in Fences
    <3>1. ParseFence(ls) = [kind |-> "literal", lines |-> ls]
      BY <2>1 DEF ParseFence
    <3>. QED
      BY <3>1 DEF AsWritten
  <2>2. CASE ~(Closers(ls) = {} \/ ls[1] = "draft" \/ \E k \in 2 .. Len(ls) - 1 : ls[k] \in Fences)
    <3>1. ParseFence(ls) = [kind |-> "code", lines |-> SubSeq(ls, 2, Len(ls) - 1), opener |-> ls[1]]
      BY <2>2 DEF ParseFence
    <3>2. PICK k \in 2 .. Len(ls) : ls[k] = "fence"
      BY <2>2 DEF Closers
    <3>3. k = Len(ls)
      <4>1. ls[k] \in Fences
        BY <3>2 DEF Fences
      <4>2. k \notin 2 .. Len(ls) - 1
        BY <2>2, <4>1
      <4>. QED
        BY <1>1, <4>2
    <3>4. Len(ls) >= 2
      BY <1>1, <3>3
    <3>. QED
      BY <3>1, <3>2, <3>3, <3>4 DEF AsCode
  <2>. QED
    BY <2>1, <2>2
<1>4. AsWritten(ParseListRun(ls), ls) \/ AsList(ParseListRun(ls), ls)
  <2>1. CASE ParseListRun(ls) = [kind |-> "literal", lines |-> ls]
    BY <2>1 DEF AsWritten
  <2>2. CASE \E d \in Seq(0 .. 2) : /\ ParseListRun(ls) = [kind |-> "list", lines |-> ls, depths |-> d]
                                    /\ Len(d) = Len(ls) /\ Stepwise(d)
    BY <2>2 DEF AsList
  <2>. QED
    BY <1>1, <2>1, <2>2, ParseListRunKeeps
<1>5. ~(l = "blank" /\ l \in Fences \union Headings \union Items)
      /\ ~(l \in Fences /\ l \in Headings \union Items) /\ ~(l \in Headings /\ l \in Items)
  BY DEF Headings, Fences, Items, Indents
<1>6. CASE l = "blank"
  <2>1. b = [kind |-> "blank", lines |-> ls]
    BY <1>5, <1>6 DEF Block
  <2>. QED
    BY <2>1 DEF AsWritten
<1>7. CASE l \in Fences
  <2>1. b = ParseFence(ls)
    BY <1>5, <1>7 DEF Block
  <2>. QED
    BY <1>3, <1>7, <2>1
<1>8. CASE l \in Headings
  <2>1. b = Plain("heading", ls)
    BY <1>5, <1>8 DEF Block
  <2>. QED
    BY <1>2, <2>1
<1>9. CASE l \in Items
  <2>1. b = IF l \in Rules THEN [kind |-> "literal", lines |-> ls] ELSE ParseListRun(ls)
    BY <1>5, <1>9 DEF Block
  <2>2. CASE l \in Rules
    <3>1. b = [kind |-> "literal", lines |-> ls]
      BY <2>1, <2>2
    <3>. QED
      BY <3>1 DEF AsWritten
  <2>3. CASE l \notin Rules
    BY <1>4, <2>1, <2>3
  <2>. QED
    BY <2>2, <2>3
<1>10. CASE l # "blank" /\ l \notin Fences /\ l \notin Headings /\ l \notin Items
  <2>1. b = Plain("paragraph", ls)
    BY <1>10 DEF Block
  <2>. QED
    BY <1>2, <2>1
<1>. QED
  BY <1>6, <1>7, <1>8, <1>9, <1>10

\* Its lines are those it was made of, and those that are drawn of it tell the same; a list has
\* a bullet for each of its items.
Keeps(b, ls) ==
    /\ Source(b) = ls
    /\ Drawn(b) \in Seq(Words) /\ Said(Drawn(b)) = Said(ls)
    /\ b.kind = "list" => Len(b.depths) = Len(b.lines) /\ b.depths # <<>> /\ Stepwise(b.depths)

\* That is so for the lines as they were written.
LEMMA WrittenKeeps ==
  ASSUME NEW ls \in FinalText, NEW b, AsWritten(b, ls)
  PROVE  Keeps(b, ls)
<1>1. PICK kind \in {"blank", "literal", "heading", "paragraph"} : b = [kind |-> kind, lines |-> ls]
  BY DEF AsWritten
<1>2. b.kind # "code" /\ b.kind # "list" /\ b.lines = ls
  BY <1>1
<1>3. Source(b) = ls /\ Drawn(b) = ls
  BY <1>2 DEF Source, Drawn
<1>4. ls \in Seq(Words)
  BY DEF FinalText, Words
<1>. QED
  BY <1>2, <1>3, <1>4 DEF Keeps

\* That is so for a list.
LEMMA ListKeeps ==
  ASSUME NEW ls \in FinalText, NEW b, AsList(b, ls)
  PROVE  Keeps(b, ls)
<1>1. PICK d \in Seq(0 .. 2) : /\ b = [kind |-> "list", lines |-> ls, depths |-> d]
                               /\ Len(d) = Len(ls) /\ Stepwise(d)
  BY DEF AsList
<1>2. b.kind = "list" /\ b.lines = ls /\ b.depths = d
  BY <1>1
<1>3. /\ ls \in Seq(Words) /\ Len(ls) \in Nat /\ Len(ls) # 0 /\ DOMAIN ls = 1 .. Len(ls)
      /\ ls = [k \in 1 .. Len(ls) |-> ls[k]]
  BY DEF FinalText, Words
<1>4. \A k \in DOMAIN ls : d[k] + 1 \in DOMAIN Bullets
  <2>1. DOMAIN Bullets = 1 .. 3
    BY DEF Bullets
  <2>2. \A k \in DOMAIN ls : d[k] \in 0 .. 2
    BY <1>1, <1>3
  <2>. QED
    BY <2>1, <2>2
<1>5. Source(b) = ls
  BY <1>2 DEF Source
<1>6. Drawn(b) = [k \in DOMAIN ls |-> IF d[k] + 1 \in DOMAIN Bullets THEN ls[k] ELSE "no bullet"]
  BY <1>2 DEF Drawn
<1>7. Drawn(b) = ls
  BY <1>3, <1>4, <1>6
<1>8. d # <<>>
  BY <1>1, <1>3
<1>. QED
  BY <1>1, <1>2, <1>3, <1>5, <1>7, <1>8 DEF Keeps

\* A list without its ends.
LEMMA Middle ==
  ASSUME NEW S, NEW s \in Seq(S), Len(s) >= 2
  PROVE  LET middle == SubSeq(s, 2, Len(s) - 1)
         IN  /\ middle \in Seq(S) /\ Len(middle) = Len(s) - 2
             /\ \A i \in 1 .. Len(s) - 2 : middle[i] = s[i + 1]
<1>1. Len(s) \in Nat
  OBVIOUS
<1>2. CASE Len(s) = 2
  <2>1. SubSeq(s, 2, Len(s) - 1) = <<>> /\ 1 .. Len(s) - 2 = {}
    BY <1>2
  <2>2. <<>> \in Seq(S) /\ Len(<<>>) = 0
    OBVIOUS
  <2>. QED
    BY <1>2, <2>1, <2>2
<1>3. CASE Len(s) # 2
  <2>. DEFINE m == Len(s) - 1
  <2>1. 2 <= m /\ m \in Nat /\ m <= Len(s) /\ (m - 2) + 1 = Len(s) - 2
    <3>. DEFINE n == Len(s)
    <3>1. n \in Nat /\ n # 2 /\ n >= 2
      BY <1>1, <1>3
    <3>. HIDE DEF n
    <3>2. 2 <= n - 1 /\ n - 1 \in Nat /\ n - 1 <= n /\ ((n - 1) - 2) + 1 = n - 2
      BY <3>1
    <3>. QED
      BY <3>2 DEF n
  <2>. HIDE DEF m
  <2>2. /\ SubSeq(s, 2, m) \in Seq(S) /\ Len(SubSeq(s, 2, m)) = (m - 2) + 1
        /\ \A i \in 1 .. (m - 2) + 1 : SubSeq(s, 2, m)[i] = s[i + 1]
    BY <2>1
  <2>. QED
    BY <2>1, <2>2 DEF m
<1>. QED
  BY <1>2, <1>3

\* That is so for code: its marks are not drawn, but for a note of its language.
LEMMA CodeKeeps ==
  ASSUME NEW ls \in FinalText, NEW b, AsCode(b, ls)
  PROVE  Keeps(b, ls)
<1>. DEFINE N == Len(ls)
            one == <<ls[1]>>
            two == <<ls[N]>>
            inner == SubSeq(ls, 2, N - 1)
            note == IF ls[1] = "lang" THEN <<"language">> ELSE <<>>
            shown == IF inner = <<>> THEN <<"blank">> ELSE inner
<1>1. /\ b.kind = "code" /\ b.lines = inner /\ b.opener = ls[1]
      /\ N >= 2 /\ ls[1] \in Fences /\ ls[N] = "fence" /\ N \in Nat
  BY DEF AsCode, FinalText
<1>2. ls \in Seq(Words) /\ ls[1] \in Words /\ ls[N] \in Words
  <2>1. ls \in Seq(Words)
    BY DEF FinalText, Words
  <2>. QED
    BY <1>1, <2>1
<1>3. one \in Seq(Words) /\ two \in Seq(Words) /\ inner \in Seq(Words) /\ Len(inner) = N - 2
  <2>1. one \in Seq(Words) /\ two \in Seq(Words)
    BY <1>2
  <2>2. inner \in Seq(Words) /\ Len(inner) = N - 2
    BY <1>1, <1>2, Middle
  <2>. QED
    BY <2>1, <2>2
<1>4. ls = one \o inner \o two
  <2>1. \A i \in 1 .. N - 2 : inner[i] = ls[i + 1]
    BY <1>1, <1>2, Middle
  <2>2. /\ one \o inner \in Seq(Words) /\ Len(one \o inner) = N - 1
        /\ \A i \in 1 .. N - 1 : (one \o inner)[i] = ls[i]
    <3>1. Len(one) = 1 /\ one[1] = ls[1]
      OBVIOUS
    <3>. HIDE DEF one, inner, N
    <3>2. /\ one \o inner \in Seq(Words) /\ Len(one \o inner) = Len(one) + Len(inner)
          /\ \A i \in 1 .. Len(one) + Len(inner) : (one \o inner)[i] = IF i <= Len(one) THEN one[i] ELSE inner[i - Len(one)]
      BY <1>3, Joining
    <3>3. Len(one) + Len(inner) = N - 1
      BY <1>1, <1>3, <3>1
    <3>4. ASSUME NEW i \in 1 .. N - 1 PROVE (one \o inner)[i] = ls[i]
      <4>1. CASE i = 1
        BY <3>1, <3>2, <3>3, <4>1
      <4>2. CASE i # 1
        <5>1. i - 1 \in 1 .. N - 2 /\ ~(i <= 1) /\ (i - 1) + 1 = i
          BY <1>1, <4>2
        <5>. QED
          BY <2>1, <3>1, <3>2, <3>3, <5>1
      <4>. QED
        BY <4>1, <4>2
    <3>. QED
      BY <3>2, <3>3, <3>4
  <2>. DEFINE first == one \o inner
  <2>3. Len(two) = 1 /\ two[1] = ls[N]
    OBVIOUS
  <2>4. first \in Seq(Words) /\ Len(first) = N - 1 /\ \A i \in 1 .. N - 1 : first[i] = ls[i]
    BY <2>2
  <2>. HIDE DEF first, two, N
  <2>5. /\ first \o two \in Seq(Words) /\ Len(first \o two) = Len(first) + Len(two)
        /\ \A i \in 1 .. Len(first) + Len(two) : (first \o two)[i] = IF i <= Len(first) THEN first[i] ELSE two[i - Len(first)]
    BY <1>3, <2>4, Joining
  <2>6. Len(first) + Len(two) = N
    BY <1>1, <2>3, <2>4
  <2>7. ASSUME NEW i \in 1 .. N PROVE (first \o two)[i] = ls[i]
    <3>1. CASE i = N
      <4>1. i - (N - 1) = 1 /\ ~(i <= N - 1)
        BY <1>1, <3>1
      <4>. QED
        BY <2>3, <2>4, <2>5, <2>6, <3>1, <4>1
    <3>2. CASE i # N
      <4>1. i \in 1 .. N - 1 /\ i <= N - 1
        BY <1>1, <3>2
      <4>. QED
        BY <2>4, <2>5, <2>6, <4>1
    <3>. QED
      BY <3>1, <3>2
  <2>8. N = Len(ls)
    BY DEF N
  <2>9. ls = first \o two
    BY <1>2, <2>5, <2>6, <2>7, <2>8, SameList
  <2>. QED
    BY <2>9 DEF first
<1>5. Said(one) = <<>> /\ Said(two) = <<>>
  <2>1. ls[1] \in Marks_of /\ ls[N] \in Marks_of
    BY <1>1 DEF Marks_of, Fences
  <2>. QED
    BY <1>2, <2>1, ToldMark
<1>6. note \in Seq(Words) /\ Said(note) = <<>>
  <2>1. "language" \in Words \cap Marks_of
    BY DEF Words, Marks_of
  <2>2. Said(<<"language">>) = <<>> /\ <<"language">> \in Seq(Words)
    BY <2>1, ToldMark
  <2>3. Said(<<>>) = <<>> /\ <<>> \in Seq(Words)
    BY <1>2, ToldJoined
  <2>. QED
    BY <2>2, <2>3
<1>7. shown \in Seq(Words) /\ Said(shown) = Said(inner)
  <2>1. "blank" \in Words \cap Marks_of
    BY DEF Words, Marks_of
  <2>2. Said(<<"blank">>) = <<>> /\ <<"blank">> \in Seq(Words)
    BY <2>1, ToldMark
  <2>3. Said(<<>>) = <<>>
    BY <1>2, ToldJoined
  <2>. QED
    BY <1>3, <2>2, <2>3
<1>8. Source(b) = ls
  BY <1>1, <1>4 DEF Source
<1>9. Drawn(b) = note \o shown
  BY <1>1 DEF Drawn
<1>. HIDE DEF one, two, inner, note, shown, N
<1>10. \A s, t \in Seq(Words) : Said(s \o t) = Said(s) \o Said(t)
  BY ToldJoined
<1>11. Said(inner) \in Seq(Words)
  BY <1>3, ToldJoined
<1>12. /\ note \o shown \in Seq(Words) /\ one \o inner \in Seq(Words)
       /\ <<>> \o Said(inner) = Said(inner) /\ Said(inner) \o <<>> = Said(inner)
  BY <1>3, <1>6, <1>7, <1>11, Joining
<1>13. Said(Drawn(b)) = Said(inner)
  BY <1>6, <1>7, <1>9, <1>10, <1>12
<1>14. Said(one \o inner) = Said(inner)
  BY <1>3, <1>5, <1>10, <1>12
<1>15. Said((one \o inner) \o two) = Said(inner)
  BY <1>3, <1>5, <1>10, <1>12, <1>14
<1>16. Said(ls) = Said(inner)
  BY <1>4, <1>15
<1>. QED
  BY <1>1, <1>8, <1>9, <1>12, <1>13, <1>16 DEF Keeps

\* That is so for every block.
LEMMA BlockKeeps ==
  ASSUME NEW ls \in FinalText
  PROVE  Keeps(Block(ls), ls)
  BY BlockShape, WrittenKeeps, ListKeeps, CodeKeeps

\* Blocks, and what they were made of and are drawn as.
Blocks == {Block(ls) : ls \in FinalText}
Sources == [b \in Blocks |-> Source(b)]
Drawings == [b \in Blocks |-> Drawn(b)]

\* How far the loop is: the blocks so far and the lines that are left.
Taken == [blocks : Seq(Blocks), rest : Seq(FinalLines)]

\* The blocks so far and the lines that are left are those of ls; a turn takes a line at least.
Covers(a, ls, n) ==
    /\ FlattenSeq(Mapped(Sources, a.blocks)) \o a.rest = ls
    /\ Said(FlattenSeq(Mapped(Drawings, a.blocks))) \o Said(a.rest) = Said(ls)
    /\ a.rest = <<>> \/ Len(a.rest) <= Len(ls) - n

\* The types of the two functions.
LEMMA BlockTypes ==
  /\ Sources \in [Blocks -> Seq(Words)] /\ Drawings \in [Blocks -> Seq(Words)]
  /\ \A ls \in FinalText : /\ Block(ls) \in Blocks /\ Sources[Block(ls)] = ls
                           /\ Said(Drawings[Block(ls)]) = Said(ls)
  /\ \A b \in Blocks : b.kind = "list" => Len(b.depths) = Len(b.lines) /\ b.depths # <<>> /\ Stepwise(b.depths)
<1>1. ASSUME NEW ls \in FinalText PROVE Keeps(Block(ls), ls) /\ ls \in Seq(Words)
  <2>1. ls \in Seq(Words)
    BY DEF FinalText, Words
  <2>. QED
    BY <2>1, BlockKeeps
<1>2. ASSUME NEW b \in Blocks PROVE Source(b) \in Seq(Words) /\ Drawn(b) \in Seq(Words)
        /\ (b.kind = "list" => Len(b.depths) = Len(b.lines) /\ b.depths # <<>> /\ Stepwise(b.depths))
  <2>1. PICK ls \in FinalText : b = Block(ls)
    BY DEF Blocks
  <2>. QED
    BY <1>1, <2>1 DEF Keeps
<1>3. ASSUME NEW ls \in FinalText
      PROVE  Block(ls) \in Blocks /\ Sources[Block(ls)] = ls /\ Said(Drawings[Block(ls)]) = Said(ls)
  <2>1. Block(ls) \in Blocks
    BY DEF Blocks
  <2>2. Sources[Block(ls)] = Source(Block(ls)) /\ Drawings[Block(ls)] = Drawn(Block(ls))
    BY <2>1 DEF Sources, Drawings
  <2>. QED
    BY <1>1, <2>1, <2>2 DEF Keeps
<1>. QED
  BY <1>2, <1>3 DEF Sources, Drawings

\* A turn of the loop.
LEMMA TakeBlockKeeps ==
  ASSUME NEW ls \in Seq(FinalLines), NEW a \in Taken, NEW n \in Nat, Covers(a, ls, n)
  PROVE  TakeBlock(a) \in Taken /\ Covers(TakeBlock(a), ls, n + 1)
<1>1. a.blocks \in Seq(Blocks) /\ a.rest \in Seq(FinalLines)
  BY DEF Taken
<1>2. CASE a.rest = <<>>
  <2>1. TakeBlock(a) = a
    BY <1>2 DEF TakeBlock
  <2>. QED
    BY <1>2, <2>1 DEF Covers
<1>3. CASE a.rest # <<>>
  <2>. DEFINE r == a.rest
              e == Extent(r)
              s == SubSeq(r, 1, e)
              t == SubSeq(r, e + 1, Len(r))
              b == Block(s)
              bs == a.blocks
              new == TakeBlock(a)
  <2>1. r \in FinalText /\ r \in Seq(FinalLines) /\ Len(r) \in Nat /\ Len(ls) \in Nat
    BY <1>1, <1>3 DEF FinalText
  <2>2. e \in 1 .. Len(r)
    BY <2>1, ExtentBound
  <2>3. /\ s \in Seq(FinalLines) /\ Len(s) = e /\ t \in Seq(FinalLines) /\ Len(t) = Len(r) - e
        /\ s \o t = r
    <3>1. e \in 0 .. Len(r)
      BY <2>1, <2>2
    <3>. HIDE DEF e, r
    <3>. QED
      BY <2>1, <3>1, Splitting
  <2>4. new = [blocks |-> Append(bs, b), rest |-> t]
    BY <1>3 DEF TakeBlock
  <2>5. /\ FlattenSeq(Mapped(Sources, bs)) \o r = ls
        /\ Said(FlattenSeq(Mapped(Drawings, bs))) \o Said(r) = Said(ls)
        /\ Len(r) <= Len(ls) - n
    BY <1>3 DEF Covers
  <2>. HIDE DEF s, t, e, r, b, new, bs
  <2>6. s \in FinalText
    <3>1. s # <<>>
      BY <2>1, <2>2, <2>3
    <3>. QED
      BY <2>3, <3>1 DEF FinalText
  <2>7. b \in Blocks /\ Sources[b] = s /\ Said(Drawings[b]) = Said(s)
    BY <2>6, BlockTypes DEF b
  <2>8. /\ Sources \in [Blocks -> Seq(Words)] /\ Drawings \in [Blocks -> Seq(Words)]
        /\ bs \in Seq(Blocks)
    BY <1>1, BlockTypes DEF bs
  <2>9. \A f \in [Blocks -> Seq(Words)] :
          FlattenSeq(Mapped(f, bs)) \in Seq(Words) /\ FlattenSeq(Mapped(f, Append(bs, b))) = FlattenSeq(Mapped(f, bs)) \o f[b]
    <3>. TAKE f \in [Blocks -> Seq(Words)]
    <3>1. FlattenSeq(Mapped(f, bs)) \in Seq(Words)
      BY <2>8, FlattenMapped
    <3>2. FlattenSeq(Mapped(f, Append(bs, b))) = FlattenSeq(Mapped(f, bs)) \o f[b]
      BY <2>7, <2>8, FlattenMappedAppend
    <3>. QED
      BY <3>1, <3>2
  <2>. DEFINE x == FlattenSeq(Mapped(Sources, bs))
              y == FlattenSeq(Mapped(Drawings, bs))
              d == Drawings[b]
  <2>10. /\ x \in Seq(Words) /\ FlattenSeq(Mapped(Sources, Append(bs, b))) = x \o s
         /\ y \in Seq(Words) /\ FlattenSeq(Mapped(Drawings, Append(bs, b))) = y \o d
    BY <2>7, <2>8, <2>9
  <2>11. d \in Seq(Words) /\ s \in Seq(Words) /\ t \in Seq(Words)
    <3>1. d \in Seq(Words)
      BY <2>7, <2>8
    <3>2. s \in Seq(Words) /\ t \in Seq(Words)
      BY <2>3 DEF Words
    <3>. QED
      BY <3>1, <3>2
  <2>12. x \o r = ls /\ Said(y) \o Said(r) = Said(ls) /\ Said(d) = Said(s)
    BY <2>5, <2>7
  <2>. HIDE DEF x, y, d
  <2>13. \A u, v, w \in Seq(Words) : (u \o v) \o w = u \o (v \o w)
    BY JoiningAssociates
  <2>14. \A u, v \in Seq(Words) : Said(u) \in Seq(Words) /\ Said(u \o v) = Said(u) \o Said(v)
    BY ToldJoined
  <2>15. (x \o s) \o t = ls
    BY <2>3, <2>10, <2>11, <2>12, <2>13
  <2>16. Said(y \o d) \o Said(t) = Said(ls)
    <3>1. Said(y \o d) = Said(y) \o Said(d) /\ Said(r) = Said(s) \o Said(t)
      BY <2>3, <2>10, <2>11, <2>14
    <3>2. Said(y) \in Seq(Words) /\ Said(s) \in Seq(Words) /\ Said(t) \in Seq(Words)
      BY <2>10, <2>11, <2>14
    <3>3. (Said(y) \o Said(s)) \o Said(t) = Said(y) \o (Said(s) \o Said(t))
      BY <2>13, <3>2
    <3>. QED
      BY <2>12, <3>1, <3>3
  <2>17. Len(t) <= Len(ls) - (n + 1)
    BY <2>1, <2>2, <2>3, <2>5
  <2>18. new.blocks = Append(bs, b) /\ new.rest = t /\ new \in Taken
    <3>1. Append(bs, b) \in Seq(Blocks)
      BY <2>7, <2>8
    <3>. QED
      BY <2>3, <2>4, <3>1 DEF Taken
  <2>19. Covers(new, ls, n + 1)
    BY <2>10, <2>15, <2>16, <2>17, <2>18 DEF Covers
  <2>. QED
    BY <2>18, <2>19 DEF new
<1>. QED
  BY <1>2, <1>3

\* After as many turns as there are lines, no line is left.
LEMMA ParseFinalizedKeeps ==
  ASSUME NEW ls \in Seq(FinalLines)
  PROVE  LET blocks == ParseFinalizedBlocks(ls)
         IN  /\ blocks \in Seq(Blocks) /\ FlattenSeq(Mapped(Sources, blocks)) = ls
             /\ Said(FlattenSeq(Mapped(Drawings, blocks))) = Said(ls)
<1>. DEFINE N == Len(ls)
            D == Taken
            start == [blocks |-> <<>>, rest |-> ls]
            g == [n \in 1 .. N |-> [y \in D |-> IF Covers(y, ls, n - 1) THEN TakeBlock(y) ELSE y]]
            Is(h) == h = [n \in 0 .. N |-> IF n = 0 THEN start ELSE TakeBlock(h[n - 1])]
            taken == CHOOSE h : Is(h)
<1>1. N \in Nat /\ ls \in Seq(Words)
  BY DEF Words
<1>2. start \in D /\ Covers(start, ls, 0)
  <2>1. start \in D /\ start.blocks = <<>> /\ start.rest = ls
    BY DEF Taken
  <2>2. FlattenSeq(Mapped(Sources, <<>>)) = <<>> /\ FlattenSeq(Mapped(Drawings, <<>>)) = <<>>
    BY FlattenNone DEF Mapped
  <2>3. Said(<<>>) = <<>> /\ Said(ls) \in Seq(Words)
    BY <1>1, ToldJoined
  <2>4. <<>> \o ls = ls
    OBVIOUS
  <2>5. <<>> \o Said(ls) = Said(ls)
    BY <2>3
  <2>6. N <= N - 0
    BY <1>1
  <2>. QED
    BY <2>1, <2>2, <2>3, <2>4, <2>5, <2>6 DEF Covers
<1>3. \A n \in 1 .. N : n - 1 \in 0 .. N /\ n - 1 \in Nat /\ (n - 1) + 1 = n
  BY <1>1
<1>. HIDE DEF start
<1>4. \A n \in 1 .. N, y \in D : Covers(y, ls, n - 1) => TakeBlock(y) \in D /\ Covers(TakeBlock(y), ls, n)
  <2>. TAKE n \in 1 .. N, y \in D
  <2>. HAVE Covers(y, ls, n - 1)
  <2>1. TakeBlock(y) \in D /\ Covers(TakeBlock(y), ls, (n - 1) + 1)
    BY <1>3, TakeBlockKeeps
  <2>. QED
    BY <1>3, <2>1
<1>5. g \in [1 .. N -> [D -> D]]
  BY <1>4
<1>6. PICK h \in [0 .. N -> D] : h[0] = start /\ \A n \in 1 .. N : h[n] = g[n][h[n - 1]]
  <2>. HIDE DEF N, D, g
  <2>1. \E h \in [0 .. N -> D] : Recurs(h, N, start, g)
    BY <1>1, <1>2, <1>5, Recursion
  <2>. QED
    BY <2>1 DEF Recurs
<1>. DEFINE T == {n \in Nat : n <= N => Covers(h[n], ls, n)}
<1>7. ASSUME NEW n \in 1 .. N
      PROVE  h[n - 1] \in D /\ h[n] = IF Covers(h[n - 1], ls, n - 1) THEN TakeBlock(h[n - 1]) ELSE h[n - 1]
  <2>1. h[n - 1] \in D
    BY <1>3, <1>6
  <2>2. h[n] = g[n][h[n - 1]] /\ g[n] = [y \in D |-> IF Covers(y, ls, n - 1) THEN TakeBlock(y) ELSE y]
    BY <1>6
  <2>. HIDE DEF N, D, g
  <2>. QED
    BY <2>1, <2>2
<1>8. Nat \subseteq T
  <2>. HIDE DEF N, D, g
  <2>1. 0 \in T
    BY <1>2, <1>6
  <2>2. ASSUME NEW n \in Nat, n \in T PROVE n + 1 \in T
    <3>1. ASSUME n + 1 <= N PROVE Covers(h[n + 1], ls, n + 1)
      <4>1. n + 1 \in 1 .. N /\ (n + 1) - 1 = n /\ n <= N
        BY <1>1, <3>1
      <4>2. Covers(h[n], ls, n)
        BY <2>2, <4>1
      <4>3. h[n] \in D /\ h[n + 1] = TakeBlock(h[n])
        BY <1>7, <4>1, <4>2
      <4>. QED
        BY <1>4, <4>1, <4>2, <4>3
    <3>. QED
      BY <3>1
  <2>. HIDE DEF T
  <2>. QED
    BY <2>1, <2>2, Induction
<1>9. \A n \in 0 .. N : h[n] \in D /\ Covers(h[n], ls, n)
  BY <1>1, <1>6, <1>8
<1>10. ASSUME NEW n \in 1 .. N PROVE h[n] = TakeBlock(h[n - 1])
  BY <1>3, <1>7, <1>9
<1>11. Is(h)
  BY <1>1, <1>3, <1>6, <1>10
<1>12. Is(taken)
  <2>. HIDE DEF Is
  <2>. QED
    BY <1>11
<1>. DEFINE U == {n \in Nat : n <= N => taken[n] = h[n]}
<1>13. ParseFinalizedBlocks(ls) = taken[N].blocks
  BY DEF ParseFinalizedBlocks, start
<1>. HIDE DEF taken
<1>14. taken[0] = start /\ \A n \in 1 .. N : taken[n] = TakeBlock(taken[n - 1])
  BY <1>1, <1>12
<1>15. Nat \subseteq U
  <2>. HIDE DEF N, D, g, T
  <2>1. 0 \in U
    BY <1>6, <1>14
  <2>2. ASSUME NEW n \in Nat, n \in U PROVE n + 1 \in U
    <3>1. ASSUME n + 1 <= N PROVE taken[n + 1] = h[n + 1]
      <4>1. n + 1 \in 1 .. N /\ (n + 1) - 1 = n /\ n <= N
        BY <1>1, <3>1
      <4>2. taken[n] = h[n]
        BY <2>2, <4>1
      <4>. QED
        BY <1>10, <1>14, <4>1, <4>2
    <3>. QED
      BY <3>1
  <2>. HIDE DEF U
  <2>. QED
    BY <2>1, <2>2, Induction
<1>16. taken[N] \in D /\ Covers(taken[N], ls, N)
  BY <1>1, <1>9, <1>15
<1>. DEFINE last == taken[N]
            x == FlattenSeq(Mapped(Sources, last.blocks))
            y == FlattenSeq(Mapped(Drawings, last.blocks))
<1>. HIDE DEF last
<1>17. last.blocks \in Seq(Blocks) /\ last.rest \in Seq(FinalLines)
  BY <1>16 DEF last, Taken
<1>18. x \o last.rest = ls /\ Said(y) \o Said(last.rest) = Said(ls) /\ (last.rest = <<>> \/ Len(last.rest) <= N - N)
  BY <1>16 DEF Covers, last
<1>19. last.rest = <<>>
  <2>1. last.rest # <<>> => Len(last.rest) \in Nat \ {0}
    BY <1>17
  <2>2. N - N = 0
    BY <1>1
  <2>. QED
    BY <1>18, <2>1, <2>2
<1>20. x \in Seq(Words) /\ y \in Seq(Words)
  BY <1>17, BlockTypes, FlattenMapped
<1>. HIDE DEF x, y
<1>21. Said(y) \in Seq(Words) /\ Said(<<>>) = <<>>
  BY <1>20, ToldJoined
<1>22. x \o <<>> = x /\ Said(y) \o <<>> = Said(y)
  BY <1>20, <1>21, Joining
<1>23. x = ls /\ Said(y) = Said(ls)
  BY <1>18, <1>19, <1>21, <1>22
<1>. QED
  BY <1>13, <1>17, <1>23 DEF last, x, y

----------------------------------------------------------------------------
(* The property. *)

ReplySpec == ReplyInit /\ [][ReplyNext]_<<replyVars, left>>

\* The texts.
ReplyTyped == text \in Text /\ lines \in Seq(FinalLines)

\* At first.
LEMMA ReplyStarts ==
  ASSUME ReplyInit
  PROVE  ReplyTyped
<1>1. text \in Text /\ lines = <<>>
  BY ReplyAssumption DEF ReplyInit, Text
<1>. QED
  BY <1>1 DEF ReplyTyped

\* A step adds a symbol or a line.
LEMMA ReplyStep ==
  ASSUME ReplyTyped, [ReplyNext]_<<replyVars, left>>
  PROVE  ReplyTyped'
<1>1. CASE TextGrows
  <2>1. PICK c \in Symbols : text' = Append(text, c)
    BY <1>1 DEF TextGrows
  <2>2. lines' = lines
    BY <1>1 DEF TextGrows
  <2>. QED
    BY <2>1, <2>2 DEF ReplyTyped, Text
<1>2. CASE LineIsAdded
  <2>1. PICK l \in FinalLines : lines' = Append(lines, l)
    BY <1>2 DEF LineIsAdded
  <2>2. text' = text
    BY <1>2 DEF LineIsAdded
  <2>. QED
    BY <2>1, <2>2 DEF ReplyTyped
<1>3. CASE UNCHANGED <<replyVars, left>>
  BY <1>3 DEF ReplyTyped, replyVars
<1>. QED
  BY <1>1, <1>2, <1>3 DEF ReplyNext

\* Whatever the texts are, nothing of them is lost.
LEMMA ReplyEnds ==
  ASSUME ReplyTyped
  PROVE  NothingIsLost
<1>. DEFINE blocks == ParseFinalizedBlocks(lines)
<1>1. text \in Text /\ lines \in Seq(FinalLines)
  BY DEF ReplyTyped
<1>2. FlattenSeq(SplitMarkdownBlocks(text)) = text
  BY <1>1, SplitKeeps
<1>3. /\ blocks \in Seq(Blocks) /\ FlattenSeq(Mapped(Sources, blocks)) = lines
      /\ Said(FlattenSeq(Mapped(Drawings, blocks))) = Said(lines)
  BY <1>1, ParseFinalizedKeeps
<1>. HIDE DEF blocks
<1>4. \A i \in DOMAIN blocks : blocks[i] \in Blocks
  BY <1>3
<1>5. /\ Mapped(Sources, blocks) = [i \in DOMAIN blocks |-> Source(blocks[i])]
      /\ Mapped(Drawings, blocks) = [i \in DOMAIN blocks |-> Drawn(blocks[i])]
  BY <1>4 DEF Mapped, Sources, Drawings
<1>6. ASSUME NEW i \in DOMAIN blocks, blocks[i].kind = "list"
      PROVE  LET d == blocks[i].depths IN
             Len(d) = Len(blocks[i].lines) /\ d[1] = 0 /\ \A k \in 2 .. Len(d) : d[k] <= d[k - 1] + 1
  BY <1>4, <1>6, BlockTypes DEF Stepwise
<1>. QED
  BY <1>2, <1>3, <1>5, <1>6 DEF NothingIsLost, blocks

\* Nothing that was written gets lost or moves, whatever the texts are and however they grow: the
\* blocks of the web client are the text, and those of the terminal client all its lines, each of
\* them drawn but for the marks of code; no list is deeper than it has bullets for.
THEOREM NothingIsLostHolds == ReplySpec => []NothingIsLost
<1>1. ReplyInit => ReplyTyped
  BY ReplyStarts
<1>2. ReplyTyped /\ [ReplyNext]_<<replyVars, left>> => ReplyTyped'
  BY ReplyStep
<1>3. ReplyTyped => NothingIsLost
  BY ReplyEnds
<1>. QED
  BY <1>1, <1>2, <1>3, PTL DEF ReplySpec

----------------------------------------------------------------------------
(* The blocks that stand. *)

\* One more symbol: the lines are those of before, and what becomes of them.
LEMMA RawLinesAppend ==
  ASSUME NEW s \in Text, NEW c \in Symbols
  PROVE  RawLines(Append(s, c)) = AddSymbol(RawLines(s), c)
<1>. DEFINE N == Len(s)
            t == Append(s, c)
            D == Seq(Text)
<1>1. /\ N \in Nat /\ t \in Text /\ Len(t) = N + 1 /\ t[N + 1] = c
      /\ \A n \in 1 .. N : t[n] = s[n]
  BY DEF Text
<1>. HIDE DEF t, N, D
<1>2. PICK f \in [0 .. N -> D] : f[0] = <<>> /\ RawLines(s) = f[N] /\ \A n \in 1 .. N : f[n] = AddSymbol(f[n - 1], s[n])
  BY RawLinesSteps DEF N, D
<1>3. PICK h \in [0 .. Len(t) -> D] :
        h[0] = <<>> /\ RawLines(t) = h[Len(t)] /\ \A n \in 1 .. Len(t) : h[n] = AddSymbol(h[n - 1], t[n])
  BY <1>1, RawLinesSteps DEF D
<1>. DEFINE T == {n \in Nat : n <= N => h[n] = f[n]}
<1>4. Nat \subseteq T
  <2>1. 0 \in T
    BY <1>2, <1>3
  <2>2. ASSUME NEW n \in Nat, n \in T PROVE n + 1 \in T
    <3>1. ASSUME n + 1 <= N PROVE h[n + 1] = f[n + 1]
      <4>1. n + 1 \in 1 .. N /\ n + 1 \in 1 .. Len(t) /\ (n + 1) - 1 = n /\ n <= N
        BY <1>1, <3>1
      <4>2. h[n] = f[n] /\ t[n + 1] = s[n + 1]
        BY <1>1, <2>2, <4>1
      <4>3. h[n + 1] = AddSymbol(h[n], t[n + 1]) /\ f[n + 1] = AddSymbol(f[n], s[n + 1])
        BY <1>2, <1>3, <4>1
      <4>. QED
        BY <4>2, <4>3
    <3>. QED
      BY <3>1
  <2>. HIDE DEF T
  <2>. QED
    BY <2>1, <2>2, Induction
<1>5. h[N] = f[N]
  BY <1>1, <1>4
<1>6. N + 1 \in 1 .. Len(t) /\ (N + 1) - 1 = N
  BY <1>1
<1>7. h[N + 1] = AddSymbol(h[N], t[N + 1])
  BY <1>3, <1>6
<1>. QED
  BY <1>1, <1>2, <1>3, <1>5, <1>7 DEF t

\* One more line: the blocks are those of before, and what becomes of them.
LEMMA JoinedAppend ==
  ASSUME NEW raws \in Seq(Text), NEW l \in Text
  PROVE  Joined(raws) \in Laps /\ Joined(Append(raws, l)) = AddRaw(Joined(raws), l)
<1>. DEFINE N == Len(raws)
            t == Append(raws, l)
<1>1. /\ N \in Nat /\ t \in Seq(Text) /\ Len(t) = N + 1 /\ t[N + 1] = l
      /\ \A n \in 1 .. N : t[n] = raws[n]
  OBVIOUS
<1>. HIDE DEF t, N
<1>2. PICK f \in [0 .. N -> Laps] : f[0] = Uncut /\ Joined(raws) = f[N] /\ \A n \in 1 .. N : f[n] = AddRaw(f[n - 1], raws[n])
  BY JoinedSteps DEF N
<1>3. PICK h \in [0 .. Len(t) -> Laps] :
        h[0] = Uncut /\ Joined(t) = h[Len(t)] /\ \A n \in 1 .. Len(t) : h[n] = AddRaw(h[n - 1], t[n])
  BY <1>1, JoinedSteps
<1>. DEFINE T == {n \in Nat : n <= N => h[n] = f[n]}
<1>4. Nat \subseteq T
  <2>1. 0 \in T
    BY <1>2, <1>3
  <2>2. ASSUME NEW n \in Nat, n \in T PROVE n + 1 \in T
    <3>1. ASSUME n + 1 <= N PROVE h[n + 1] = f[n + 1]
      <4>1. n + 1 \in 1 .. N /\ n + 1 \in 1 .. Len(t) /\ (n + 1) - 1 = n /\ n <= N
        BY <1>1, <3>1
      <4>2. h[n] = f[n] /\ t[n + 1] = raws[n + 1]
        BY <1>1, <2>2, <4>1
      <4>3. h[n + 1] = AddRaw(h[n], t[n + 1]) /\ f[n + 1] = AddRaw(f[n], raws[n + 1])
        BY <1>2, <1>3, <4>1
      <4>. QED
        BY <4>2, <4>3
    <3>. QED
      BY <3>1
  <2>. HIDE DEF T
  <2>. QED
    BY <2>1, <2>2, Induction
<1>5. h[N] = f[N] /\ f[N] \in Laps
  BY <1>1, <1>2, <1>4
<1>6. N + 1 \in 1 .. Len(t) /\ (N + 1) - 1 = N
  BY <1>1
<1>7. h[N + 1] = AddRaw(h[N], t[N + 1])
  BY <1>3, <1>6
<1>. QED
  BY <1>1, <1>2, <1>3, <1>5, <1>7 DEF t

\* Whether a line begins a block.
BeginsBlock(acc, raw) == acc.fence = 0 /\ ~IsBlank(raw) /\ acc.blank /\ StartsNewBlock(raw)

\* A line changes the last block alone, or begins one.
LEMMA AddRawStands ==
  ASSUME NEW acc \in Laps, NEW raw \in Text
  PROVE  LET old == acc.blocks
             new == AddRaw(acc, raw).blocks
         IN  /\ new \in Seq(Text) /\ old \in Seq(Text) /\ Len(old) \in Nat \ {0}
             /\ Len(new) = IF BeginsBlock(acc, raw) THEN Len(old) + 1 ELSE Len(old)
             /\ \A i \in 1 .. Len(old) : i < Len(new) => new[i] = old[i]
<1>. DEFINE old == acc.blocks
            begun == Append(old, <<>>)
            new == AddRaw(acc, raw).blocks
<1>1. /\ acc.blocks \in Seq(Text) \ {<<>>} /\ acc.fence \in Nat /\ acc.blank \in BOOLEAN
      /\ DOMAIN acc = {"blocks", "fence", "blank"}
  BY DEF Laps
<1>2. Len(old) \in Nat \ {0} /\ old \in Seq(Text)
  BY <1>1
<1>3. /\ begun \in Seq(Text) /\ Len(begun) = Len(old) + 1 /\ \A i \in 1 .. Len(old) : begun[i] = old[i]
  <2>1. <<>> \in Text
    BY DEF Text
  <2>. QED
    BY <1>2, <2>1
<1>4. AddRaw(acc, raw) \in Laps
  BY AddRawKeeps
<1>5. CASE BeginsBlock(acc, raw)
  <2>1. new = [begun EXCEPT ![Len(begun)] = @ \o raw]
    BY <1>1, <1>5 DEF AddRaw, BeginsBlock
  <2>. HIDE DEF begun, new, old
  <2>2. Len(new) = Len(begun) /\ \A i \in 1 .. Len(begun) : i # Len(begun) => new[i] = begun[i]
    BY <1>3, <2>1
  <2>3. \A i \in 1 .. Len(old) : i \in 1 .. Len(begun) /\ i # Len(begun)
    BY <1>2, <1>3
  <2>. QED
    BY <1>2, <1>3, <1>4, <1>5, <2>2, <2>3 DEF old, new, Laps
<1>6. CASE ~BeginsBlock(acc, raw)
  <2>1. new = [old EXCEPT ![Len(old)] = @ \o raw]
    <3>1. CASE acc.fence > 0
      BY <1>1, <3>1 DEF AddRaw
    <3>2. CASE ~(acc.fence > 0) /\ IsBlank(raw)
      BY <1>1, <3>2 DEF AddRaw
    <3>3. CASE ~(acc.fence > 0) /\ ~IsBlank(raw)
      <4>1. ~(acc.blank /\ StartsNewBlock(raw))
        BY <1>1, <1>6, <3>3 DEF BeginsBlock
      <4>. QED
        BY <1>1, <3>3, <4>1 DEF AddRaw
    <3>. QED
      BY <3>1, <3>2, <3>3
  <2>. HIDE DEF new, old
  <2>2. Len(new) = Len(old) /\ \A i \in 1 .. Len(old) : i # Len(old) => new[i] = old[i]
    BY <1>2, <2>1
  <2>. QED
    BY <1>2, <1>4, <1>6, <2>2 DEF old, new, Laps
<1>. QED
  BY <1>5, <1>6

\* A line that begins a block goes on to do so while it grows, unless it turns out to be an item.
LEMMA BeginsStands ==
  ASSUME NEW acc \in Laps, NEW l \in Text, NEW c \in Symbols, l = <<>> \/ Last(l) # "nl",
         BeginsBlock(acc, l), ~OrderedItem(Bare(Append(l, c)))
  PROVE  BeginsBlock(acc, Append(l, c))
<1>. DEFINE m == Append(l, c)
            N == Len(l)
<1>1. /\ N \in Nat /\ m \in Text /\ Len(m) = N + 1 /\ m[N + 1] = c /\ m # <<>>
      /\ \A i \in 1 .. N : m[i] = l[i]
  BY DEF Text
<1>2. Bare(l) = l
  BY DEF Bare
<1>3. /\ ~(Range(l) \subseteq {"_"}) /\ l # <<>> /\ l[1] # "_" /\ ~BulletItem(l)
      /\ acc.fence = 0 /\ acc.blank
  <2>1. ~(Range(l) \subseteq {"_"}) /\ l[1] # "_" /\ ~BulletItem(l) /\ acc.fence = 0 /\ acc.blank
    BY <1>2 DEF BeginsBlock, IsBlank, StartsNewBlock
  <2>2. Range(<<>>) = {}
    BY DEF Range
  <2>. QED
    BY <2>1, <2>2
<1>4. N # 0
  <2>1. l # <<>>
    BY <1>3
  <2>. QED
    BY <2>1 DEF Text
<1>5. ~OrderedItem(Bare(m))
  OBVIOUS
<1>. SUFFICES BeginsBlock(acc, m)
  OBVIOUS
<1>. HIDE DEF N, m
<1>6. m[1] = l[1] /\ 1 \in 1 .. N
  <2>1. 1 \in 1 .. N
    BY <1>1, <1>4
  <2>. QED
    BY <1>1, <2>1
<1>7. CASE c = "nl"
  <2>1. Bare(m) = l
    <3>1. Bare(m) = Front(m)
      BY <1>1, <1>7 DEF Bare, Last
    <3>2. Front(m) = l
      BY DEF Front, Text, m
    <3>. QED
      BY <3>1, <3>2
  <2>2. IsBlank(m) = IsBlank(l) /\ StartsNewBlock(m) = StartsNewBlock(l)
    BY <1>2, <2>1 DEF IsBlank, StartsNewBlock
  <2>. QED
    BY <2>2 DEF BeginsBlock
<1>8. CASE c # "nl"
  <2>1. Bare(m) = m
    BY <1>1, <1>8 DEF Bare, Last
  <2>2. ~IsBlank(m)
    <3>1. Range(l) \subseteq Range(m)
      <4>1. DOMAIN l = 1 .. N /\ DOMAIN m = 1 .. N + 1
        BY <1>1 DEF Text, N
      <4>. QED
        BY <1>1, <4>1 DEF Range
    <3>. QED
      BY <1>3, <2>1, <3>1 DEF IsBlank
  <2>3. m[1] # "_"
    BY <1>3, <1>6
  <2>4. ~BulletItem(m)
    <3>. SUFFICES ASSUME BulletItem(m) PROVE FALSE
      OBVIOUS
    <3>1. l[1] = "-"
      BY <1>6 DEF BulletItem
    <3>2. N # 1
      <4>1. N = 1 => Marks(l, 1)
        BY DEF Marks, N
      <4>. QED
        BY <1>3, <3>1, <4>1 DEF BulletItem
    <3>3. m[2] = "_"
      <4>1. Len(m) # 1
        BY <1>1, <1>4
      <4>2. Marks(m, 1) /\ 1 + 1 = 2
        BY DEF BulletItem
      <4>. QED
        BY <4>1, <4>2 DEF Marks
    <3>4. l[2] = "_"
      <4>1. 2 \in 1 .. N
        BY <1>1, <1>4, <3>2
      <4>. QED
        BY <1>1, <3>3, <4>1
    <3>5. Marks(l, 1)
      <4>1. 1 + 1 = 2 /\ 1 > 0
        OBVIOUS
      <4>. QED
        BY <3>4, <4>1 DEF Marks
    <3>. QED
      BY <1>3, <3>1, <3>5 DEF BulletItem
  <2>5. StartsNewBlock(m)
    BY <1>5, <2>1, <2>3, <2>4 DEF StartsNewBlock
  <2>. QED
    BY <1>3, <2>2, <2>5 DEF BeginsBlock
<1>. QED
  BY <1>7, <1>8

\* A block that is complete does not change when the text grows by a symbol.
LEMMA SplitStands ==
  ASSUME NEW s \in Text, s # <<>>, NEW c \in Symbols, ~Possible_reference(Append(s, c)),
         ~OrderedItem(Bare(Last(RawLines(Append(s, c)))))
  PROVE  LET old == SplitMarkdownBlocks(s)
             new == SplitMarkdownBlocks(Append(s, c))
         IN  /\ Len(new) >= Len(old) /\ Len(old) \in Nat
             /\ \A i \in 1 .. Len(old) : i < Len(old) => i \in DOMAIN new /\ new[i] = old[i]
             /\ DOMAIN old = 1 .. Len(old) /\ DOMAIN new = 1 .. Len(new) /\ Len(new) \in Nat
<1>. DEFINE t == Append(s, c)
            raws == RawLines(s)
            old == SplitMarkdownBlocks(s)
            new == SplitMarkdownBlocks(t)
<1>1. t \in Text /\ t # <<>>
  BY DEF Text
<1>2. ~Possible_reference(s)
  <2>1. Range(s) \subseteq Range(t)
    <3>1. DOMAIN s \subseteq DOMAIN t /\ \A i \in DOMAIN s : t[i] = s[i]
      BY DEF Text
    <3>. HIDE DEF t
    <3>. QED
      BY <3>1 DEF Range
  <2>. QED
    BY <2>1 DEF Possible_reference
<1>3. old = Joined(raws).blocks /\ new = Joined(RawLines(t)).blocks
  BY <1>1, <1>2 DEF SplitMarkdownBlocks
<1>4. raws \in Seq(Text) /\ raws # <<>>
  BY RawLinesKeep, FlattenNone
<1>5. RawLines(t) = AddSymbol(raws, c)
  BY RawLinesAppend
<1>6. ~OrderedItem(Bare(Last(RawLines(t))))
  OBVIOUS
<1>. HIDE DEF t, raws, old, new
<1>7. <<c>> \in Text
  BY DEF Text
<1>8. \A bs \in Seq(Text) : DOMAIN bs = 1 .. Len(bs) /\ Len(bs) \in Nat
  OBVIOUS
<1>9. CASE Last(Last(raws)) = "nl"
  <2>. DEFINE acc == Joined(raws)
  <2>1. RawLines(t) = Append(raws, <<c>>)
    BY <1>5, <1>9 DEF AddSymbol
  <2>2. acc \in Laps /\ Joined(RawLines(t)) = AddRaw(acc, <<c>>)
    BY <1>4, <1>7, <2>1, JoinedAppend
  <2>3. old = acc.blocks /\ new = AddRaw(acc, <<c>>).blocks
    BY <1>3, <2>2
  <2>. HIDE DEF acc
  <2>4. /\ new \in Seq(Text) /\ old \in Seq(Text) /\ Len(old) \in Nat \ {0}
        /\ Len(new) = IF BeginsBlock(acc, <<c>>) THEN Len(old) + 1 ELSE Len(old)
        /\ \A i \in 1 .. Len(old) : i < Len(new) => new[i] = old[i]
    BY <1>7, <2>2, <2>3, AddRawStands
  <2>5. Len(new) >= Len(old) /\ Len(new) \in Nat
    BY <2>4
  <2>6. \A i \in 1 .. Len(old) : i < Len(old) => i < Len(new) /\ i \in 1 .. Len(new)
    BY <2>4, <2>5
  <2>. QED
    BY <1>8, <2>4, <2>5, <2>6 DEF old, new, t
<1>10. CASE Last(Last(raws)) # "nl"
  <2>. DEFINE a == Front(raws)
              l == Last(raws)
              m == Append(l, c)
              acc == Joined(a)
  <2>1. a \in Seq(Text) /\ l \in Text /\ raws = Append(a, l)
    BY <1>4, TheLast
  <2>2. m \in Text
    BY <2>1 DEF Text
  <2>3. RawLines(t) = Append(a, m)
    BY <1>4, <1>5, <1>10 DEF AddSymbol
  <2>4. Last(RawLines(t)) = m
    BY <2>1, <2>2, <2>3 DEF Last
  <2>5. l = <<>> \/ Last(l) # "nl"
    BY <1>10
  <2>. HIDE DEF a, l, m, acc
  <2>6. acc \in Laps /\ Joined(raws) = AddRaw(acc, l) /\ Joined(RawLines(t)) = AddRaw(acc, m)
    BY <2>1, <2>2, <2>3, JoinedAppend DEF acc
  <2>7. old = AddRaw(acc, l).blocks /\ new = AddRaw(acc, m).blocks
    BY <1>3, <2>6
  <2>8. BeginsBlock(acc, l) => BeginsBlock(acc, m)
    <3>1. ~OrderedItem(Bare(m))
      BY <1>6, <2>4
    <3>. QED
      BY <2>1, <2>5, <2>6, <3>1, BeginsStands DEF m
  <2>. DEFINE bs == acc.blocks
  <2>9. /\ old \in Seq(Text) /\ bs \in Seq(Text) /\ Len(bs) \in Nat \ {0}
        /\ Len(old) = IF BeginsBlock(acc, l) THEN Len(bs) + 1 ELSE Len(bs)
        /\ \A i \in 1 .. Len(bs) : i < Len(old) => old[i] = bs[i]
    BY <2>1, <2>6, <2>7, AddRawStands
  <2>10. /\ new \in Seq(Text)
         /\ Len(new) = IF BeginsBlock(acc, m) THEN Len(bs) + 1 ELSE Len(bs)
         /\ \A i \in 1 .. Len(bs) : i < Len(new) => new[i] = bs[i]
    BY <2>2, <2>6, <2>7, AddRawStands
  <2>. HIDE DEF bs
  <2>11. Len(new) >= Len(old) /\ Len(new) \in Nat /\ Len(old) \in Nat
    BY <2>8, <2>9, <2>10
  <2>12. \A i \in 1 .. Len(old) : i < Len(old) => i \in 1 .. Len(bs) /\ i < Len(new) /\ i \in 1 .. Len(new)
    BY <2>8, <2>9, <2>10
  <2>13. \A i \in 1 .. Len(old) : i < Len(old) => new[i] = old[i]
    BY <2>9, <2>10, <2>12
  <2>. QED
    BY <1>8, <2>9, <2>10, <2>11, <2>12, <2>13 DEF old, new, t
<1>. QED
  BY <1>9, <1>10

\* A block that was complete stays as it was while the text grows, whatever it grows by, unless
\* the text turns out to define a reference, or its last line to be an item of the list
\* before: the web client renders no more than the last block anew.
THEOREM BlocksStandHolds == ReplySpec => BlocksStand
<1>. DEFINE Exempt == text = <<>> \/ Possible_reference(text') \/ OrderedItem(Bare(Last(RawLines(text'))))
            Stands == LET old == SplitMarkdownBlocks(text)
                          new == SplitMarkdownBlocks(text')
                      IN  Len(new) >= Len(old) /\ \A i \in MarkdownBody(old, new) : i >= Len(old)
<1>1. ReplyInit => ReplyTyped
  BY ReplyStarts
<1>2. ReplyTyped /\ [ReplyNext]_<<replyVars, left>> => ReplyTyped'
  BY ReplyStep
<1>3. ASSUME ReplyTyped, [ReplyNext]_<<replyVars, left>>
      PROVE  [Exempt \/ Stands]_text
  <2>. SUFFICES ASSUME text' # text, ~Exempt PROVE Stands
    OBVIOUS
  <2>1. ReplyNext
    BY <1>3 DEF replyVars
  <2>2. TextGrows
    BY <2>1 DEF ReplyNext, LineIsAdded
  <2>3. PICK c \in Symbols : text' = Append(text, c)
    BY <2>2 DEF TextGrows
  <2>4. text \in Text /\ text # <<>> /\ ~Possible_reference(Append(text, c))
        /\ ~OrderedItem(Bare(Last(RawLines(Append(text, c)))))
    BY <1>3, <2>3 DEF ReplyTyped
  <2>. DEFINE old == SplitMarkdownBlocks(text)
              new == SplitMarkdownBlocks(Append(text, c))
  <2>5. /\ Len(new) >= Len(old) /\ Len(old) \in Nat
        /\ \A i \in 1 .. Len(old) : i < Len(old) => i \in DOMAIN new /\ new[i] = old[i]
        /\ DOMAIN old = 1 .. Len(old) /\ DOMAIN new = 1 .. Len(new) /\ Len(new) \in Nat
    BY <2>4, SplitStands
  <2>. HIDE DEF old, new
  <2>6. ASSUME NEW i \in MarkdownBody(old, new) PROVE i >= Len(old)
    <3>1. i \in 1 .. Len(new) /\ (i \in DOMAIN old => new[i] # old[i])
      BY <2>5 DEF MarkdownBody
    <3>2. i \in Nat /\ i >= 1
      BY <2>5, <3>1
    <3>3. i < Len(old) => i \in 1 .. Len(old)
      BY <2>5, <3>2
    <3>4. ~(i < Len(old))
      BY <2>5, <3>1, <3>3
    <3>. QED
      BY <2>5, <3>2, <3>4
  <2>. QED
    BY <2>3, <2>5, <2>6 DEF old, new
<1>. QED
  BY <1>1, <1>2, <1>3, PTL DEF ReplySpec, BlocksStand

----------------------------------------------------------------------------
(* The frames of a stream. *)

\* What a body consists of.
Tags == [of : Nat, kind : LineKinds \union {"cr", "lf"}]
FramesTyped == frames \in Seq(Shapes) /\ eol \in Eols

\* The ends of lines are no lines.
LEMMA LinesAreNoBreaks ==
  /\ Cr \in Tags /\ Lf \in Tags /\ Cr # Lf
  /\ Cr.kind = "cr" /\ Lf.kind = "lf" /\ {"cr", "lf"} \cap LineKinds = {} /\ Data \subseteq LineKinds
  /\ \A n \in Nat \ {0}, k \in LineKinds :
        Line(n, k) \in Tags \ {Cr, Lf} /\ Line(n, k).of = n /\ Line(n, k).kind = k
<1>. DEFINE K == LineKinds \union {"cr", "lf"}
<1>1. {"cr", "lf"} \cap LineKinds = {} /\ Data \subseteq LineKinds
  BY DEF LineKinds, Data
<1>2. Cr = [of |-> 0, kind |-> "cr"] /\ Lf = [of |-> 0, kind |-> "lf"]
  BY DEF Cr, Lf, Line
<1>3. \A n \in Nat, k \in K : [of |-> n, kind |-> k] \in Tags
  BY DEF Tags
<1>4. ASSUME NEW n \in Nat \ {0}, NEW k \in LineKinds
      PROVE  Line(n, k) \in Tags \ {Cr, Lf} /\ Line(n, k).of = n /\ Line(n, k).kind = k
  <2>1. Line(n, k) = [of |-> n, kind |-> k]
    BY DEF Line
  <2>2. Line(n, k).of = n /\ Line(n, k).kind = k /\ Line(n, k) \in Tags
    BY <1>3, <2>1
  <2>3. Cr.of = 0 /\ Lf.of = 0
    BY <1>2
  <2>. QED
    BY <2>2, <2>3
<1>. QED
  BY <1>1, <1>2, <1>3, <1>4

\* Lists of one length, one after the other.
Uniform(ss, W) == \A i \in 1 .. Len(ss) : Len(ss[i]) = W
LEMMA FlattenUniform ==
  ASSUME NEW S, NEW W \in {2, 3}, NEW ss \in Seq(Seq(S)), Uniform(ss, W)
  PROVE  /\ Len(FlattenSeq(ss)) = W * Len(ss)
         /\ \A q \in 0 .. Len(ss) - 1 : \A j \in 1 .. W : FlattenSeq(ss)[W * q + j] = ss[q + 1][j]
<1>. DEFINE N == Len(ss)
            D == Seq(S)
<1>1. N \in Nat /\ \A i \in 1 .. N : ss[i] \in D /\ Len(ss[i]) = W
  BY DEF Uniform
<1>2. PICK h \in [0 .. N -> D] : h[0] = <<>> /\ FlattenSeq(ss) = h[N] /\ \A n \in 1 .. N : h[n] = h[n - 1] \o ss[n]
  BY FlattenSteps
<1>. DEFINE Is(n) == /\ Len(h[n]) = W * n
                     /\ \A q \in 0 .. n - 1 : \A j \in 1 .. W : h[n][W * q + j] = ss[q + 1][j]
            T == {n \in Nat : n <= N => Is(n)}
<1>. HIDE DEF N
<1>3. 0 \in T
  <2>1. Len(h[0]) = 0 /\ W * 0 = 0
    BY <1>2
  <2>. QED
    BY <2>1
<1>4. ASSUME NEW n \in Nat, n \in T PROVE n + 1 \in T
  <2>1. ASSUME n + 1 <= N PROVE Is(n + 1)
    <3>1. n \in 0 .. N /\ n + 1 \in 1 .. N /\ (n + 1) - 1 = n /\ n <= N
      BY <1>1, <2>1
    <3>2. h[n] \in Seq(S) /\ ss[n + 1] \in Seq(S) /\ Len(ss[n + 1]) = W /\ h[n + 1] = h[n] \o ss[n + 1]
      BY <1>1, <1>2, <3>1
    <3>3. Is(n)
      BY <1>4, <3>1
    <3>4. Len(h[n]) = W * n /\ W * n \in Nat
      BY <3>3
    <3>. DEFINE a == h[n]
                b == ss[n + 1]
    <3>5. /\ Len(a \o b) = Len(a) + Len(b)
          /\ \A i \in 1 .. Len(a) + Len(b) : (a \o b)[i] = IF i <= Len(a) THEN a[i] ELSE b[i - Len(a)]
      <4>1. \A x, y \in Seq(S) :
              /\ Len(x \o y) = Len(x) + Len(y)
              /\ \A i \in 1 .. Len(x) + Len(y) : (x \o y)[i] = IF i <= Len(x) THEN x[i] ELSE y[i - Len(x)]
        BY Joining
      <4>2. a \in Seq(S) /\ b \in Seq(S)
        BY <3>2
      <4>. HIDE DEF a, b
      <4>. QED
        BY <4>1, <4>2
    <3>6. Len(h[n + 1]) = W * (n + 1)
      <4>1. CASE W = 2
        BY <3>2, <3>4, <3>5, <4>1
      <4>2. CASE W = 3
        BY <3>2, <3>4, <3>5, <4>2
      <4>. QED
        BY <4>1, <4>2
    <3>7. ASSUME NEW q \in 0 .. (n + 1) - 1, NEW j \in 1 .. W PROVE h[n + 1][W * q + j] = ss[q + 1][j]
      <4>1. CASE q < n
        <5>1. q \in 0 .. n - 1
          BY <4>1
        <5>2. W * q + j \in 1 .. Len(a) + Len(b) /\ W * q + j <= Len(a)
          <6>1. CASE W = 2
            BY <3>2, <3>4, <4>1, <6>1
          <6>2. CASE W = 3
            BY <3>2, <3>4, <4>1, <6>2
          <6>. QED
            BY <6>1, <6>2
        <5>3. h[n][W * q + j] = ss[q + 1][j]
          BY <3>3, <5>1
        <5>. QED
          BY <3>2, <3>5, <5>2, <5>3
      <4>2. CASE ~(q < n)
        <5>1. q = n
          BY <4>2
        <5>2. W * q + j \in 1 .. Len(a) + Len(b) /\ ~(W * q + j <= Len(a)) /\ W * q + j - Len(a) = j
          <6>1. CASE W = 2
            BY <3>2, <3>4, <5>1, <6>1
          <6>2. CASE W = 3
            BY <3>2, <3>4, <5>1, <6>2
          <6>. QED
            BY <6>1, <6>2
        <5>3. (a \o b)[W * q + j] = b[j]
          <6>. DEFINE i == W * q + j
          <6>. HIDE DEF i, a, b
          <6>1. i \in 1 .. Len(a) + Len(b) /\ ~(i <= Len(a)) /\ i - Len(a) = j
            BY <5>2 DEF i
          <6>2. (a \o b)[i] = b[i - Len(a)]
            BY <3>5, <6>1
          <6>. QED
            BY <6>1, <6>2 DEF i
        <5>. QED
          BY <3>2, <5>1, <5>3
      <4>. QED
        BY <4>1, <4>2
    <3>. QED
      BY <3>6, <3>7
  <2>. HIDE DEF Is
  <2>. QED
    BY <2>1
<1>5. Nat \subseteq T
  <2>. HIDE DEF T
  <2>. QED
    BY <1>3, <1>4, Induction
<1>6. Is(N)
  <2>1. N \in T /\ N <= N
    <3>. HIDE DEF T
    <3>. QED
      BY <1>1, <1>5
  <2>. HIDE DEF Is
  <2>. QED
    BY <2>1
<1>. QED
  BY <1>2, <1>6 DEF N

\* The lines of frame n, each with its end, and the empty line.
Lines(n) == Len(frames[n])
LEMMA SentShape ==
  ASSUME FramesTyped, NEW n \in DOMAIN frames
  PROVE  /\ n \in Nat \ {0} /\ frames[n] \in Shapes /\ frames[n] \in Seq(LineKinds) /\ Lines(n) \in Nat \ {0}
         /\ Sent(n) \in Seq(Tags)
         /\ eol = <<Lf>> =>
              /\ Len(Sent(n)) = 2 * Lines(n) + 1 /\ Sent(n)[2 * Lines(n) + 1] = Lf
              /\ \A q \in 0 .. Lines(n) - 1 : /\ Sent(n)[2 * q + 1] = Line(n, frames[n][q + 1])
                                              /\ Sent(n)[2 * q + 2] = Lf
         /\ eol = <<Cr, Lf>> =>
              /\ Len(Sent(n)) = 3 * Lines(n) + 2
              /\ Sent(n)[3 * Lines(n) + 1] = Cr /\ Sent(n)[3 * Lines(n) + 2] = Lf
              /\ \A q \in 0 .. Lines(n) - 1 : /\ Sent(n)[3 * q + 1] = Line(n, frames[n][q + 1])
                                              /\ Sent(n)[3 * q + 2] = Cr /\ Sent(n)[3 * q + 3] = Lf
<1>. DEFINE f == frames[n]
            L == Lines(n)
            W == Len(eol) + 1
<1>1. n \in Nat \ {0} /\ f \in Shapes
  BY DEF FramesTyped
<1>2. f \in Seq(LineKinds) /\ L \in Nat \ {0} /\ DOMAIN f = 1 .. L
  BY <1>1, EventStreamAssumption DEF Lines
<1>3. eol \in Seq(Tags) /\ Len(eol) \in {1, 2} /\ W \in {2, 3} /\ eol \in Eols
  <2>1. eol \in {<<Lf>>, <<Cr, Lf>>}
    BY DEF FramesTyped, Eols
  <2>2. \A a, b \in Tags : /\ <<a>> \in Seq(Tags) /\ Len(<<a>>) = 1
                           /\ <<a, b>> \in Seq(Tags) /\ Len(<<a, b>>) = 2
    OBVIOUS
  <2>3. Cr \in Tags /\ Lf \in Tags
    BY LinesAreNoBreaks
  <2>4. eol \in Seq(Tags) /\ Len(eol) \in {1, 2}
    BY <2>1, <2>2, <2>3
  <2>5. eol \in Eols
    BY DEF FramesTyped
  <2>6. W \in {2, 3}
    <3>1. Len(eol) = 1 \/ Len(eol) = 2
      BY <2>4
    <3>2. CASE Len(eol) = 1
      BY <3>2
    <3>3. CASE Len(eol) = 2
      BY <3>3
    <3>. QED
      BY <3>1, <3>2, <3>3
  <2>. QED
    BY <2>4, <2>5, <2>6
<1>. HIDE DEF f
<1>. DEFINE piece(k) == <<Line(n, f[k])>> \o eol
            ss == [k \in DOMAIN f |-> piece(k)]
<1>4. ASSUME NEW k \in 1 .. L
      PROVE  /\ piece(k) \in Seq(Tags) /\ Len(piece(k)) = W /\ piece(k)[1] = Line(n, f[k])
             /\ \A j \in 1 .. Len(eol) : piece(k)[j + 1] = eol[j]
  <2>1. Line(n, f[k]) \in Tags
    <3>1. f[k] \in LineKinds
      BY <1>2
    <3>. QED
      BY <1>1, <3>1, LinesAreNoBreaks
  <2>. DEFINE v == Line(n, f[k])
  <2>. HIDE DEF v
  <2>2. v \in Tags
    BY <2>1 DEF v
  <2>3. <<v>> \in Seq(Tags) /\ Len(<<v>>) = 1 /\ <<v>>[1] = v
    BY <2>2
  <2>4. \A x, y \in Seq(Tags) :
              /\ x \o y \in Seq(Tags) /\ Len(x \o y) = Len(x) + Len(y)
              /\ \A i \in 1 .. Len(x) + Len(y) : (x \o y)[i] = IF i <= Len(x) THEN x[i] ELSE y[i - Len(x)]
    BY Joining
  <2>. DEFINE x == <<v>>
  <2>. HIDE DEF x
  <2>5. /\ x \o eol \in Seq(Tags) /\ Len(x \o eol) = 1 + Len(eol)
        /\ \A i \in 1 .. 1 + Len(eol) : (x \o eol)[i] = IF i <= 1 THEN x[i] ELSE eol[i - 1]
    BY <1>3, <2>3, <2>4 DEF x
  <2>6. (x \o eol)[1] = v
    BY <1>3, <2>3, <2>5 DEF x
  <2>7. ASSUME NEW j \in 1 .. Len(eol) PROVE (x \o eol)[j + 1] = eol[j]
    <3>1. j + 1 \in 1 .. 1 + Len(eol) /\ ~(j + 1 <= 1) /\ (j + 1) - 1 = j
      BY <1>3
    <3>. QED
      BY <2>5, <3>1
  <2>8. Len(x \o eol) = W
    BY <1>3, <2>5
  <2>. QED
    BY <2>5, <2>6, <2>7, <2>8 DEF x, v
<1>5. ss \in Seq(Seq(Tags)) /\ Len(ss) = L /\ \A k \in 1 .. L : ss[k] = piece(k) /\ Len(ss[k]) = W
  <2>. HIDE DEF piece, L, W
  <2>1. ss = [k \in 1 .. L |-> piece(k)]
    BY <1>2
  <2>2. \A k \in 1 .. L : piece(k) \in Seq(Tags) /\ Len(piece(k)) = W
    BY <1>4
  <2>. QED
    BY <1>2, <2>1, <2>2
<1>. DEFINE all == FlattenSeq(ss)
<1>. HIDE DEF ss
<1>6. Sent(n) = all \o eol
  BY DEF Sent, ss, f
<1>7. all \in Seq(Tags)
  BY <1>5, FlattenTyped
<1>8. /\ Len(all) = W * L
      /\ \A q \in 0 .. L - 1 : \A j \in 1 .. W : all[W * q + j] = ss[q + 1][j]
  <2>. DEFINE w == Len(eol) + 1
  <2>. HIDE DEF w
  <2>1. w \in {2, 3} /\ \A i \in 1 .. Len(ss) : Len(ss[i]) = w
    BY <1>3, <1>5 DEF w
  <2>2. /\ Len(all) = w * Len(ss)
        /\ \A q \in 0 .. Len(ss) - 1 : \A j \in 1 .. w : all[w * q + j] = ss[q + 1][j]
    <3>1. ss \in Seq(Seq(Tags)) /\ Uniform(ss, w)
      BY <1>5, <2>1 DEF Uniform
    <3>2. /\ Len(FlattenSeq(ss)) = w * Len(ss)
          /\ \A q \in 0 .. Len(ss) - 1 : \A j \in 1 .. w : FlattenSeq(ss)[w * q + j] = ss[q + 1][j]
      <4>. HIDE DEF all, piece, W, L
      <4>1. CASE w = 2
        BY ONLY <2>1, <3>1, <4>1, FlattenUniform
      <4>2. CASE w = 3
        BY ONLY <2>1, <3>1, <4>2, FlattenUniform
      <4>. QED
        BY <2>1, <4>1, <4>2
    <3>. QED
      BY <3>2
  <2>. QED
    BY <1>5, <2>2 DEF w
<1>. HIDE DEF all, L, piece
<1>9. /\ all \o eol \in Seq(Tags) /\ Len(all \o eol) = Len(all) + Len(eol)
      /\ \A i \in 1 .. Len(all) + Len(eol) : (all \o eol)[i] = IF i <= Len(all) THEN all[i] ELSE eol[i - Len(all)]
  <2>1. \A x, y \in Seq(Tags) :
              /\ x \o y \in Seq(Tags) /\ Len(x \o y) = Len(x) + Len(y)
              /\ \A i \in 1 .. Len(x) + Len(y) : (x \o y)[i] = IF i <= Len(x) THEN x[i] ELSE y[i - Len(x)]
    BY Joining
  <2>. QED
    BY <1>3, <1>7, <2>1
<1>10. ASSUME NEW q \in 0 .. L - 1
       PROVE  /\ ss[q + 1][1] = Line(n, f[q + 1])
              /\ \A j \in 1 .. Len(eol) : ss[q + 1][j + 1] = eol[j]
  <2>1. q + 1 \in 1 .. L
    BY <1>2
  <2>. QED
    BY <1>4, <1>5, <2>1
<1>11. ASSUME eol = <<Lf>>
       PROVE  /\ Len(Sent(n)) = 2 * L + 1 /\ Sent(n)[2 * L + 1] = Lf
              /\ \A q \in 0 .. L - 1 : Sent(n)[2 * q + 1] = Line(n, f[q + 1]) /\ Sent(n)[2 * q + 2] = Lf
  <2>1. Len(eol) = 1 /\ eol[1] = Lf /\ W = 2
    BY <1>11
  <2>2. /\ Len(all) = 2 * L
        /\ \A q \in 0 .. L - 1 : \A j \in {1, 2} : all[2 * q + j] = ss[q + 1][j]
    BY <1>8, <2>1
  <2>3. /\ Len(Sent(n)) = 2 * L + 1
        /\ \A i \in 1 .. 2 * L + 1 : Sent(n)[i] = IF i <= 2 * L THEN all[i] ELSE eol[i - 2 * L]
    BY <1>6, <1>9, <2>1, <2>2
  <2>4. Sent(n)[2 * L + 1] = Lf
    <3>1. 2 * L + 1 \in 1 .. 2 * L + 1 /\ ~(2 * L + 1 <= 2 * L) /\ (2 * L + 1) - 2 * L = 1
      BY <1>2
    <3>. QED
      BY <2>1, <2>3, <3>1
  <2>5. ASSUME NEW q \in 0 .. L - 1 PROVE Sent(n)[2 * q + 1] = Line(n, f[q + 1]) /\ Sent(n)[2 * q + 2] = Lf
    <3>1. /\ 2 * q + 1 \in 1 .. 2 * L + 1 /\ 2 * q + 1 <= 2 * L
          /\ 2 * q + 2 \in 1 .. 2 * L + 1 /\ 2 * q + 2 <= 2 * L
      BY <1>2
    <3>2. all[2 * q + 1] = ss[q + 1][1] /\ all[2 * q + 2] = ss[q + 1][2]
      BY <2>2
    <3>3. ss[q + 1][1] = Line(n, f[q + 1]) /\ ss[q + 1][2] = Lf
      <4>1. 1 \in 1 .. Len(eol) /\ 1 + 1 = 2
        BY <2>1
      <4>. QED
        BY <1>10, <2>1, <4>1
    <3>. QED
      BY <2>3, <3>1, <3>2, <3>3
  <2>. QED
    BY <2>3, <2>4, <2>5
<1>12. ASSUME eol = <<Cr, Lf>>
       PROVE  /\ Len(Sent(n)) = 3 * L + 2 /\ Sent(n)[3 * L + 1] = Cr /\ Sent(n)[3 * L + 2] = Lf
              /\ \A q \in 0 .. L - 1 : /\ Sent(n)[3 * q + 1] = Line(n, f[q + 1])
                                       /\ Sent(n)[3 * q + 2] = Cr /\ Sent(n)[3 * q + 3] = Lf
  <2>1. Len(eol) = 2 /\ eol[1] = Cr /\ eol[2] = Lf /\ W = 3
    BY <1>12
  <2>2. /\ Len(all) = 3 * L
        /\ \A q \in 0 .. L - 1 : \A j \in 1 .. 3 : all[3 * q + j] = ss[q + 1][j]
    BY <1>8, <2>1
  <2>3. /\ Len(Sent(n)) = 3 * L + 2
        /\ \A i \in 1 .. 3 * L + 2 : Sent(n)[i] = IF i <= 3 * L THEN all[i] ELSE eol[i - 3 * L]
    BY <1>6, <1>9, <2>1, <2>2
  <2>4. Sent(n)[3 * L + 1] = Cr /\ Sent(n)[3 * L + 2] = Lf
    <3>1. /\ 3 * L + 1 \in 1 .. 3 * L + 2 /\ ~(3 * L + 1 <= 3 * L) /\ (3 * L + 1) - 3 * L = 1
          /\ 3 * L + 2 \in 1 .. 3 * L + 2 /\ ~(3 * L + 2 <= 3 * L) /\ (3 * L + 2) - 3 * L = 2
      BY <1>2
    <3>. QED
      BY <2>1, <2>3, <3>1
  <2>5. ASSUME NEW q \in 0 .. L - 1
        PROVE  /\ Sent(n)[3 * q + 1] = Line(n, f[q + 1])
               /\ Sent(n)[3 * q + 2] = Cr /\ Sent(n)[3 * q + 3] = Lf
    <3>1. /\ 3 * q + 1 \in 1 .. 3 * L + 2 /\ 3 * q + 1 <= 3 * L
          /\ 3 * q + 2 \in 1 .. 3 * L + 2 /\ 3 * q + 2 <= 3 * L
          /\ 3 * q + 3 \in 1 .. 3 * L + 2 /\ 3 * q + 3 <= 3 * L
      BY <1>2
    <3>2. all[3 * q + 1] = ss[q + 1][1] /\ all[3 * q + 2] = ss[q + 1][2] /\ all[3 * q + 3] = ss[q + 1][3]
      BY <2>2
    <3>3. ss[q + 1][1] = Line(n, f[q + 1]) /\ ss[q + 1][2] = Cr /\ ss[q + 1][3] = Lf
      <4>1. 1 \in 1 .. Len(eol) /\ 1 + 1 = 2 /\ 2 \in 1 .. Len(eol) /\ 2 + 1 = 3
        BY <2>1
      <4>. QED
        BY <1>10, <2>1, <4>1
    <3>. QED
      BY <2>3, <3>1, <3>2, <3>3
  <2>. QED
    BY <2>3, <2>4, <2>5
<1>. QED
  BY <1>1, <1>2, <1>6, <1>9, <1>11, <1>12 DEF f, L

\* Places come in pairs.
LEMMA Halves ==
  ASSUME NEW L \in Nat, NEW i \in 1 .. 2 * L + 1
  PROVE  i = 2 * L + 1 \/ \E q \in 0 .. L - 1 : i = 2 * q + 1 \/ i = 2 * q + 2
<1>. DEFINE q == (i - 1) \div 2
<1>1. i = 2 * L + 1 \/ (q \in 0 .. L - 1 /\ (i = 2 * q + 1 \/ i = 2 * q + 2))
  OBVIOUS
<1>. QED
  BY <1>1

\* The same of triples.
LEMMA Thirds ==
  ASSUME NEW L \in Nat, NEW i \in 1 .. 3 * L + 2
  PROVE  \/ i = 3 * L + 1 \/ i = 3 * L + 2
         \/ \E q \in 0 .. L - 1 : i = 3 * q + 1 \/ i = 3 * q + 2 \/ i = 3 * q + 3
<1>. DEFINE q == (i - 1) \div 3
<1>1. \/ i = 3 * L + 1 \/ i = 3 * L + 2
      \/ (q \in 0 .. L - 1 /\ (i = 3 * q + 1 \/ i = 3 * q + 2 \/ i = 3 * q + 3))
  OBVIOUS
<1>. QED
  BY <1>1

\* The beginning of frame n as the body has it: the body may end in the middle of a line.
Torn(n, i, v) == Sent(n)[i].kind = "json" /\ v = Line(n, "junk")
Piece(s, n) == /\ s \in Seq(Tags) /\ Len(s) <= Len(Sent(n))
               /\ \A i \in 1 .. Len(s) : s[i] = Sent(n)[i] \/ (i = Len(s) /\ Torn(n, i, s[i]))

\* Each place of a frame is a line or an end of a line.
LEMMA PieceShape ==
  ASSUME FramesTyped, NEW n \in DOMAIN frames, NEW s, Piece(s, n)
  PROVE  /\ \A i \in 1 .. Len(s) : /\ Sent(n)[i] \in {Cr, Lf} => s[i] = Sent(n)[i]
                                   /\ Sent(n)[i] \notin {Cr, Lf} => s[i] \notin {Cr, Lf} /\ s[i].of = n
         /\ s # <<>> => s[1] \notin {Cr, Lf}
<1>. DEFINE f == frames[n]
            L == Lines(n)
            t == Sent(n)
<1>1. /\ n \in Nat \ {0} /\ f \in Seq(LineKinds) /\ L \in Nat \ {0} /\ t \in Seq(Tags)
      /\ eol \in {<<Lf>>, <<Cr, Lf>>} /\ L = Len(f)
  BY SentShape DEF FramesTyped, Eols, Lines
<1>2. "junk" \in LineKinds /\ "json" \notin {"cr", "lf"}
  BY DEF LineKinds, Data
<1>3. /\ Cr # Lf /\ Cr.kind = "cr" /\ Lf.kind = "lf" /\ {"cr", "lf"} \cap LineKinds = {}
      /\ \A k \in LineKinds : Line(n, k) \in Tags \ {Cr, Lf} /\ Line(n, k).of = n /\ Line(n, k).kind = k
  BY <1>1, LinesAreNoBreaks
<1>4. ASSUME NEW i \in 1 .. Len(t) PROVE t[i] \in {Cr, Lf} \/ (\E k \in LineKinds : t[i] = Line(n, k))
  <2>1. CASE eol = <<Lf>>
    <3>1. /\ Len(t) = 2 * L + 1 /\ t[2 * L + 1] = Lf
          /\ \A q \in 0 .. L - 1 : t[2 * q + 1] = Line(n, f[q + 1]) /\ t[2 * q + 2] = Lf
      BY <2>1, SentShape
    <3>2. i \in 1 .. 2 * L + 1 /\ L \in Nat
      BY <1>1, <3>1
    <3>. HIDE DEF t, L, f
    <3>3. i = 2 * L + 1 \/ \E q \in 0 .. L - 1 : i = 2 * q + 1 \/ i = 2 * q + 2
      BY <3>2, Halves
    <3>4. \A q \in 0 .. L - 1 : f[q + 1] \in LineKinds
      BY <1>1
    <3>. QED
      BY <3>1, <3>3, <3>4
  <2>2. CASE eol = <<Cr, Lf>>
    <3>1. /\ Len(t) = 3 * L + 2 /\ t[3 * L + 1] = Cr /\ t[3 * L + 2] = Lf
          /\ \A q \in 0 .. L - 1 : t[3 * q + 1] = Line(n, f[q + 1]) /\ t[3 * q + 2] = Cr /\ t[3 * q + 3] = Lf
      BY <2>2, SentShape
    <3>2. i \in 1 .. 3 * L + 2 /\ L \in Nat
      BY <1>1, <3>1
    <3>. HIDE DEF t, L, f
    <3>3. \/ i = 3 * L + 1 \/ i = 3 * L + 2
          \/ \E q \in 0 .. L - 1 : i = 3 * q + 1 \/ i = 3 * q + 2 \/ i = 3 * q + 3
      BY <3>2, Thirds
    <3>4. \A q \in 0 .. L - 1 : f[q + 1] \in LineKinds
      BY <1>1
    <3>. QED
      BY <3>1, <3>3, <3>4
  <2>. QED
    BY <1>1, <2>1, <2>2
<1>. HIDE DEF f, L
<1>5. ASSUME NEW i \in 1 .. Len(s)
      PROVE  /\ t[i] \in {Cr, Lf} => s[i] = t[i]
             /\ t[i] \notin {Cr, Lf} => s[i] \notin {Cr, Lf} /\ s[i].of = n
  <2>1. i \in 1 .. Len(t) /\ (s[i] = t[i] \/ (t[i].kind = "json" /\ s[i] = Line(n, "junk")))
    <3>1. Len(s) \in Nat /\ Len(t) \in Nat /\ Len(s) <= Len(t)
      BY <1>1 DEF Piece
    <3>2. i \in 1 .. Len(t)
      BY <3>1
    <3>. QED
      BY <3>2 DEF Piece, Torn
  <2>2. t[i] \in {Cr, Lf} => t[i].kind # "json"
    BY <1>2, <1>3
  <2>. HIDE DEF t
  <2>. QED
    BY <1>2, <1>3, <1>4, <2>1, <2>2
<1>6. ASSUME s # <<>> PROVE s[1] \notin {Cr, Lf}
  <2>1. 1 \in 1 .. Len(s) /\ 0 \in 0 .. L - 1 /\ 2 * 0 + 1 = 1 /\ 3 * 0 + 1 = 1 /\ 0 + 1 = 1
    BY <1>1, <1>6 DEF Piece
  <2>2. f[1] \in LineKinds
    BY <1>1
  <2>3. t[1] = Line(n, f[1])
    <3>1. CASE eol = <<Lf>>
      <4>1. \A q \in 0 .. L - 1 : t[2 * q + 1] = Line(n, f[q + 1])
        BY <3>1, SentShape DEF f, L
      <4>. QED
        BY <2>1, <4>1
    <3>2. CASE eol = <<Cr, Lf>>
      <4>1. \A q \in 0 .. L - 1 : t[3 * q + 1] = Line(n, f[q + 1])
        BY <3>2, SentShape DEF f, L
      <4>. QED
        BY <2>1, <4>1
    <3>. QED
      BY <1>1, <3>1, <3>2
  <2>. QED
    BY <1>3, <1>5, <2>1, <2>2, <2>3
<1>. QED
  BY <1>5, <1>6

\* The only empty line of a frame is at its end.
LEMMA BeginsOfPiece ==
  ASSUME FramesTyped, NEW n \in DOMAIN frames, NEW s, Piece(s, n), NEW k \in 1 .. Len(s)
  PROVE  Begins(s, k) = IF k = Len(Sent(n)) THEN Len(Sent(n)) - 2 * Len(eol) + 1 ELSE 0
<1>. DEFINE f == frames[n]
            L == Lines(n)
            t == Sent(n)
            Goal == Begins(s, k) = IF k = Len(t) THEN Len(t) - 2 * Len(eol) + 1 ELSE 0
<1>1. /\ n \in Nat \ {0} /\ f \in Seq(LineKinds) /\ L \in Nat \ {0} /\ t \in Seq(Tags)
      /\ eol \in {<<Lf>>, <<Cr, Lf>>} /\ L = Len(f) /\ Cr # Lf
      /\ \A q \in 0 .. L - 1 : Line(n, f[q + 1]) \notin {Cr, Lf}
  <2>1. /\ n \in Nat \ {0} /\ f \in Seq(LineKinds) /\ L \in Nat \ {0} /\ t \in Seq(Tags)
        /\ eol \in {<<Lf>>, <<Cr, Lf>>} /\ L = Len(f)
    BY SentShape DEF FramesTyped, Eols, Lines
  <2>2. \A q \in 0 .. L - 1 : f[q + 1] \in LineKinds
    BY <2>1
  <2>. QED
    BY <2>1, <2>2, LinesAreNoBreaks
<1>2. \A i \in 1 .. Len(s) : /\ t[i] \in {Cr, Lf} => s[i] = t[i]
                             /\ t[i] \notin {Cr, Lf} => s[i] \notin {Cr, Lf}
  BY PieceShape
<1>3. Len(s) \in Nat /\ Len(s) <= Len(t)
  BY DEF Piece
<1>4. ASSUME eol = <<Lf>> PROVE Goal
  <2>1. /\ Len(t) = 2 * L + 1 /\ t[2 * L + 1] = Lf /\ Len(eol) = 1
        /\ \A q \in 0 .. L - 1 : t[2 * q + 1] = Line(n, f[q + 1]) /\ t[2 * q + 2] = Lf
    BY <1>4, SentShape
  <2>. HIDE DEF t, L, f
  <2>2. /\ \A q \in 0 .. L - 1 : /\ 2 * q + 1 <= Len(s) => s[2 * q + 1] \notin {Cr, Lf}
                                 /\ 2 * q + 2 <= Len(s) => s[2 * q + 2] = Lf
        /\ 2 * L + 1 <= Len(s) => s[2 * L + 1] = Lf
    <3>1. ASSUME NEW q \in 0 .. L - 1
          PROVE  /\ 2 * q + 1 <= Len(s) => s[2 * q + 1] \notin {Cr, Lf}
                 /\ 2 * q + 2 <= Len(s) => s[2 * q + 2] = Lf
      <4>1. t[2 * q + 1] \notin {Cr, Lf} /\ t[2 * q + 2] \in {Cr, Lf} /\ t[2 * q + 2] = Lf
        BY <1>1, <2>1
      <4>2. /\ 2 * q + 1 <= Len(s) => 2 * q + 1 \in 1 .. Len(s)
            /\ 2 * q + 2 <= Len(s) => 2 * q + 2 \in 1 .. Len(s)
        BY <1>3
      <4>. QED
        BY <1>2, <4>1, <4>2
    <3>2. 2 * L + 1 <= Len(s) => 2 * L + 1 \in 1 .. Len(s)
      BY <1>1, <1>3
    <3>. QED
      BY <1>2, <2>1, <3>1, <3>2
  <2>3. /\ k = 2 * L + 1 \/ \E q \in 0 .. L - 1 : k = 2 * q + 1 \/ k = 2 * q + 2
        /\ k <= Len(s) /\ k \in Nat
    <3>1. k \in 1 .. 2 * L + 1 /\ L \in Nat /\ k <= Len(s) /\ k \in Nat
      BY <1>1, <1>3, <2>1
    <3>. QED
      BY <3>1, Halves
  <2>4. ASSUME NEW q \in 0 .. L - 1, k = 2 * q + 1 PROVE Goal
    <3>1. s[k] # Lf /\ k # Len(t)
      BY <1>1, <2>1, <2>2, <2>3, <2>4
    <3>. QED
      BY <3>1 DEF Begins, t
  <2>5. ASSUME NEW q \in 0 .. L - 1, k = 2 * q + 2 PROVE Goal
    <3>1. s[k - 1] \notin {Cr, Lf} /\ k > 1 /\ k # Len(t) /\ k - 1 = 2 * q + 1
      BY <1>1, <2>1, <2>2, <2>3, <2>5
    <3>. QED
      BY <3>1 DEF Begins, t
  <2>6. CASE k = 2 * L + 1
    <3>1. L - 1 \in 0 .. L - 1 /\ 2 * (L - 1) + 2 = 2 * L /\ 2 * (L - 1) + 1 = 2 * L - 1 /\ k - 1 = 2 * L
          /\ (k - 1) - 1 = 2 * L - 1 /\ 2 * L <= Len(s) /\ 2 * L - 1 <= Len(s) /\ k > 1 /\ k - 1 > 1 /\ k = Len(t)
      BY <1>1, <2>1, <2>3, <2>6
    <3>2. s[k] = Lf /\ s[k - 1] = Lf /\ s[(k - 1) - 1] \notin {Cr, Lf}
      BY <2>2, <2>3, <2>6, <3>1
    <3>3. Begins(s, k) = k - 1
      BY <1>1, <3>1, <3>2 DEF Begins
    <3>4. k - 1 = Len(t) - 2 * Len(eol) + 1
      BY <1>1, <2>1, <3>1
    <3>. QED
      BY <3>1, <3>3, <3>4 DEF t
  <2>. QED
    <3>. HIDE DEF Goal
    <3>. QED
      BY <2>3, <2>4, <2>5, <2>6
<1>5. ASSUME eol = <<Cr, Lf>> PROVE Goal
  <2>1. /\ Len(t) = 3 * L + 2 /\ t[3 * L + 1] = Cr /\ t[3 * L + 2] = Lf /\ Len(eol) = 2
        /\ \A q \in 0 .. L - 1 : t[3 * q + 1] = Line(n, f[q + 1]) /\ t[3 * q + 2] = Cr /\ t[3 * q + 3] = Lf
    BY <1>5, SentShape
  <2>. HIDE DEF t, L, f
  <2>2. /\ \A q \in 0 .. L - 1 : /\ 3 * q + 1 <= Len(s) => s[3 * q + 1] \notin {Cr, Lf}
                                 /\ 3 * q + 2 <= Len(s) => s[3 * q + 2] = Cr
                                 /\ 3 * q + 3 <= Len(s) => s[3 * q + 3] = Lf
        /\ 3 * L + 1 <= Len(s) => s[3 * L + 1] = Cr
        /\ 3 * L + 2 <= Len(s) => s[3 * L + 2] = Lf
    <3>1. ASSUME NEW q \in 0 .. L - 1
          PROVE  /\ 3 * q + 1 <= Len(s) => s[3 * q + 1] \notin {Cr, Lf}
                 /\ 3 * q + 2 <= Len(s) => s[3 * q + 2] = Cr
                 /\ 3 * q + 3 <= Len(s) => s[3 * q + 3] = Lf
      <4>1. t[3 * q + 1] \notin {Cr, Lf} /\ t[3 * q + 2] = Cr /\ t[3 * q + 3] = Lf
        BY <1>1, <2>1
      <4>2. /\ 3 * q + 1 <= Len(s) => 3 * q + 1 \in 1 .. Len(s)
            /\ 3 * q + 2 <= Len(s) => 3 * q + 2 \in 1 .. Len(s)
            /\ 3 * q + 3 <= Len(s) => 3 * q + 3 \in 1 .. Len(s)
        BY <1>3
      <4>. QED
        BY <1>2, <4>1, <4>2
    <3>2. /\ 3 * L + 1 <= Len(s) => 3 * L + 1 \in 1 .. Len(s)
          /\ 3 * L + 2 <= Len(s) => 3 * L + 2 \in 1 .. Len(s)
      BY <1>1, <1>3
    <3>. QED
      BY <1>2, <2>1, <3>1, <3>2
  <2>3. /\ \/ k = 3 * L + 1 \/ k = 3 * L + 2
           \/ \E q \in 0 .. L - 1 : k = 3 * q + 1 \/ k = 3 * q + 2 \/ k = 3 * q + 3
        /\ k <= Len(s) /\ k \in Nat
    <3>1. k \in 1 .. 3 * L + 2 /\ L \in Nat /\ k <= Len(s) /\ k \in Nat
      BY <1>1, <1>3, <2>1
    <3>. QED
      BY <3>1, Thirds
  <2>4. ASSUME NEW q \in 0 .. L - 1, k = 3 * q + 1 \/ k = 3 * q + 2 PROVE Goal
    <3>1. s[k] # Lf /\ k # Len(t)
      BY <1>1, <2>1, <2>2, <2>3, <2>4
    <3>. QED
      BY <3>1 DEF Begins, t
  <2>5. ASSUME NEW q \in 0 .. L - 1, k = 3 * q + 3 PROVE Goal
    <3>1. /\ k > 1 /\ k # Len(t) /\ k - 1 = 3 * q + 2 /\ (k - 1) - 1 = 3 * q + 1 /\ k - 1 > 1
          /\ 3 * q + 2 <= Len(s) /\ 3 * q + 1 <= Len(s)
      BY <1>1, <2>1, <2>3, <2>5
    <3>2. s[k - 1] = Cr /\ s[(k - 1) - 1] # Lf
      BY <2>2, <2>5, <3>1
    <3>. QED
      BY <3>1, <3>2 DEF Begins, t
  <2>6. CASE k = 3 * L + 1
    <3>1. s[k] # Lf /\ k # Len(t)
      BY <1>1, <2>1, <2>2, <2>3, <2>6
    <3>. QED
      BY <3>1 DEF Begins, t
  <2>7. CASE k = 3 * L + 2
    <3>1. /\ L - 1 \in 0 .. L - 1 /\ 3 * (L - 1) + 3 = 3 * L /\ 3 * (L - 1) + 2 = 3 * L - 1
          /\ k - 1 = 3 * L + 1 /\ (k - 1) - 1 = 3 * L /\ ((k - 1) - 1) - 1 = 3 * L - 1
          /\ 3 * L + 1 <= Len(s) /\ 3 * L <= Len(s) /\ 3 * L - 1 <= Len(s)
          /\ k > 1 /\ k - 1 > 1 /\ (k - 1) - 1 > 1 /\ k = Len(t)
      BY <1>1, <2>1, <2>3, <2>7
    <3>2. s[k] = Lf /\ s[k - 1] = Cr /\ s[(k - 1) - 1] = Lf /\ s[((k - 1) - 1) - 1] = Cr
      BY <2>2, <2>3, <2>7, <3>1
    <3>3. Begins(s, k) = ((k - 1) - 1) - 1
      BY <1>1, <3>1, <3>2 DEF Begins
    <3>4. ((k - 1) - 1) - 1 = Len(t) - 2 * Len(eol) + 1
      BY <1>1, <2>1, <3>1
    <3>. QED
      BY <3>1, <3>3, <3>4 DEF t
  <2>. QED
    <3>. HIDE DEF Goal
    <3>. QED
      BY <2>3, <2>4, <2>5, <2>6, <2>7
<1>. QED
  BY <1>1, <1>4, <1>5

\* What is cut off for frame n.
BlockOf(n) == SubSeq(Sent(n), 1, Len(Sent(n)) - 2 * Len(eol))

\* It has all the lines of the frame, the last one without its end.
LEMMA BlockOfFrame ==
  ASSUME FramesTyped, NEW n \in DOMAIN frames
  PROVE  LET W == IF eol = <<Lf>> THEN 2 ELSE 3
             L == Len(frames[n])
         IN  /\ BlockOf(n) \in Seq(Tags)
             /\ \A i \in DOMAIN BlockOf(n) : BlockOf(n)[i].kind \in Data =>
                   \E q \in 0 .. L - 1 : i = W * q + 1 /\ BlockOf(n)[i] = Line(n, frames[n][q + 1])
             /\ \A q \in 0 .. L - 1 : /\ W * q + 1 \in DOMAIN BlockOf(n)
                                      /\ BlockOf(n)[W * q + 1] = Line(n, frames[n][q + 1])
<1>. DEFINE f == frames[n]
            L == Len(f)
            t == Sent(n)
            b == BlockOf(n)
<1>1. /\ f \in Seq(LineKinds) /\ L \in Nat \ {0} /\ t \in Seq(Tags)
      /\ eol \in {<<Lf>>, <<Cr, Lf>>} /\ L = Lines(n) /\ <<Lf>> # <<Cr, Lf>>
  BY SentShape DEF FramesTyped, Eols, Lines
<1>2. Cr.kind \notin Data /\ Lf.kind \notin Data
  BY LinesAreNoBreaks DEF Data
<1>3. CASE eol = <<Lf>>
  <2>1. /\ Len(t) = 2 * L + 1 /\ Len(eol) = 1
        /\ \A q \in 0 .. L - 1 : t[2 * q + 1] = Line(n, f[q + 1]) /\ t[2 * q + 2] = Lf
    BY <1>1, <1>3, SentShape
  <2>2. b = SubSeq(t, 1, 2 * L - 1)
    <3>1. Len(t) - 2 * Len(eol) = 2 * L - 1
      BY <1>1, <2>1
    <3>. QED
      BY <3>1 DEF BlockOf
  <2>. HIDE DEF t, L, f, b
  <2>3. b \in Seq(Tags) /\ Len(b) = 2 * L - 1 /\ \A i \in 1 .. 2 * L - 1 : b[i] = t[i]
    BY <1>1, <2>1, <2>2
  <2>4. ASSUME NEW i \in DOMAIN b, b[i].kind \in Data
        PROVE  \E q \in 0 .. L - 1 : i = 2 * q + 1 /\ b[i] = Line(n, f[q + 1])
    <3>1. i \in 1 .. 2 * L - 1 /\ i \in 1 .. 2 * L + 1 /\ i # 2 * L + 1 /\ L \in Nat
      BY <1>1, <2>3
    <3>2. PICK q \in 0 .. L - 1 : i = 2 * q + 1 \/ i = 2 * q + 2
      BY <3>1, Halves
    <3>3. b[i] # Lf
      BY <1>2, <2>4
    <3>. QED
      BY <2>1, <2>3, <3>1, <3>2, <3>3
  <2>5. ASSUME NEW q \in 0 .. L - 1 PROVE 2 * q + 1 \in DOMAIN b /\ b[2 * q + 1] = Line(n, f[q + 1])
    <3>1. 2 * q + 1 \in 1 .. 2 * L - 1
      BY <1>1
    <3>. QED
      BY <2>1, <2>3, <3>1
  <2>. QED
    BY <1>3, <2>3, <2>4, <2>5 DEF b, f, L
<1>4. CASE eol = <<Cr, Lf>>
  <2>1. /\ Len(t) = 3 * L + 2 /\ Len(eol) = 2
        /\ \A q \in 0 .. L - 1 : t[3 * q + 1] = Line(n, f[q + 1]) /\ t[3 * q + 2] = Cr /\ t[3 * q + 3] = Lf
    BY <1>1, <1>4, SentShape
  <2>2. b = SubSeq(t, 1, 3 * L - 2)
    <3>1. Len(t) - 2 * Len(eol) = 3 * L - 2
      BY <1>1, <2>1
    <3>. QED
      BY <3>1 DEF BlockOf
  <2>. HIDE DEF t, L, f, b
  <2>3. b \in Seq(Tags) /\ Len(b) = 3 * L - 2 /\ \A i \in 1 .. 3 * L - 2 : b[i] = t[i]
    BY <1>1, <2>1, <2>2
  <2>4. ASSUME NEW i \in DOMAIN b, b[i].kind \in Data
        PROVE  \E q \in 0 .. L - 1 : i = 3 * q + 1 /\ b[i] = Line(n, f[q + 1])
    <3>1. /\ i \in 1 .. 3 * L - 2 /\ i \in 1 .. 3 * L + 2 /\ L \in Nat
          /\ i # 3 * L + 1 /\ i # 3 * L + 2
      BY <1>1, <2>3
    <3>2. PICK q \in 0 .. L - 1 : i = 3 * q + 1 \/ i = 3 * q + 2 \/ i = 3 * q + 3
      BY <3>1, Thirds
    <3>3. b[i] # Lf /\ b[i] # Cr
      BY <1>2, <2>4
    <3>. QED
      BY <2>1, <2>3, <3>1, <3>2, <3>3
  <2>5. ASSUME NEW q \in 0 .. L - 1 PROVE 3 * q + 1 \in DOMAIN b /\ b[3 * q + 1] = Line(n, f[q + 1])
    <3>1. 3 * q + 1 \in 1 .. 3 * L - 2
      BY <1>1
    <3>. QED
      BY <2>1, <2>3, <3>1
  <2>6. eol # <<Lf>>
    BY <1>1, <1>4
  <2>. QED
    BY <2>3, <2>4, <2>5, <2>6 DEF b, f, L
<1>. QED
  BY <1>1, <1>3, <1>4

\* The first of some places.
First(data) == CHOOSE i \in data : \A j \in data : i <= j
LEMMA FirstIsThere ==
  ASSUME NEW data \in SUBSET Nat, data # {}
  PROVE  First(data) \in data
<1>1. \E i \in data : \A j \in data : i <= j
  BY Least
<1>. QED
  BY <1>1 DEF First

\* What a block is parsed to: nothing, or one event that is of the frame of its first data.
LEMMA BlockParsed ==
  ASSUME NEW b \in Seq(Tags)
  PROVE  LET data == {i \in DOMAIN b : b[i].kind \in Data}
             parses == data = {First(data)} /\ b[First(data)].kind = "json"
         IN  ParseSseBlock(b) = IF data = {} \/ (~parses /\ reader = "web") THEN <<>>
                                ELSE <<[of |-> b[First(data)].of, malformed |-> ~parses]>>
  BY DEF ParseSseBlock, First

\* A frame is handed on as it is due.
LEMMA FrameParsed ==
  ASSUME FramesTyped, NEW n \in DOMAIN frames
  PROVE  ParseSseBlock(BlockOf(n)) = Due(n)
<1>. DEFINE f == frames[n]
            L == Len(f)
            b == BlockOf(n)
            W == IF eol = <<Lf>> THEN 2 ELSE 3
            data == {i \in DOMAIN b : b[i].kind \in Data}
            junk == "json" \notin Range(f)
<1>1. /\ n \in Nat \ {0} /\ f \in Seq(LineKinds) /\ L \in Nat \ {0} /\ f \in Shapes
  BY SentShape DEF Lines
<1>2. \A i, j \in DOMAIN f : {f[i], f[j]} \subseteq Data => i = j
  BY <1>1, EventStreamAssumption
<1>3. /\ b \in Seq(Tags)
      /\ \A i \in DOMAIN b : b[i].kind \in Data => \E q \in 0 .. L - 1 : i = W * q + 1 /\ b[i] = Line(n, f[q + 1])
      /\ \A q \in 0 .. L - 1 : W * q + 1 \in DOMAIN b /\ b[W * q + 1] = Line(n, f[q + 1])
  BY BlockOfFrame
<1>4. ParseSseBlock(b) = IF data = {} \/ (~(data = {First(data)} /\ b[First(data)].kind = "json") /\ reader = "web") THEN <<>>
                         ELSE <<[of |-> b[First(data)].of, malformed |-> ~(data = {First(data)} /\ b[First(data)].kind = "json")]>>
  <2>. HIDE DEF b
  <2>. QED
    BY <1>3, BlockParsed
<1>5. Due(n) = IF Range(f) \cap Data = {} \/ (junk /\ reader = "web") THEN <<>>
               ELSE <<[of |-> n, malformed |-> junk]>>
  BY DEF Due
<1>6. /\ DOMAIN f = 1 .. L
      /\ \A q \in 0 .. L - 1 : q + 1 \in 1 .. L /\ f[q + 1] \in LineKinds
      /\ \A j \in 1 .. L : j - 1 \in 0 .. L - 1 /\ (j - 1) + 1 = j
      /\ \A v : v \in Range(f) <=> \E j \in 1 .. L : f[j] = v
  BY <1>1 DEF Range
<1>7. \A k \in LineKinds : Line(n, k).of = n /\ Line(n, k).kind = k
  BY <1>1, LinesAreNoBreaks
<1>. HIDE DEF b, W, L, f
<1>8. CASE Range(f) \cap Data = {}
  <2>1. ASSUME NEW i \in data PROVE FALSE
    <3>1. PICK q \in 0 .. L - 1 : b[i] = Line(n, f[q + 1])
      BY <1>3
    <3>2. f[q + 1] \in Data /\ f[q + 1] \in Range(f)
      BY <1>6, <1>7, <3>1
    <3>. QED
      BY <1>8, <3>2
  <2>. QED
    BY <1>4, <1>5, <1>8, <2>1 DEF b
<1>9. CASE Range(f) \cap Data # {}
  <2>1. PICK j \in 1 .. L : f[j] \in Data
    BY <1>6, <1>9
  <2>. DEFINE i == W * (j - 1) + 1
  <2>2. j - 1 \in 0 .. L - 1 /\ (j - 1) + 1 = j /\ f[j] \in LineKinds
    BY <1>6
  <2>3. i \in DOMAIN b /\ b[i] = Line(n, f[j]) /\ b[i].kind = f[j] /\ b[i].of = n
    BY <1>3, <1>7, <2>2
  <2>4. data = {i}
    <3>1. i \in data
      BY <2>1, <2>3
    <3>2. ASSUME NEW k \in data PROVE k = i
      <4>1. PICK q \in 0 .. L - 1 : k = W * q + 1 /\ b[k] = Line(n, f[q + 1])
        BY <1>3
      <4>2. f[q + 1] \in Data /\ q + 1 \in 1 .. L
        BY <1>6, <1>7, <4>1
      <4>3. q + 1 = j
        BY <1>2, <1>6, <2>1, <4>2
      <4>4. q = j - 1
        BY <2>2, <4>3
      <4>. QED
        BY <4>1, <4>4
    <3>. QED
      BY <3>1, <3>2
  <2>5. First(data) = i
    <3>1. data \in SUBSET Nat /\ data # {}
      BY <1>3, <2>4
    <3>2. First(data) \in data
      <4>. HIDE DEF data
      <4>. QED
        BY <3>1, FirstIsThere
    <3>. QED
      BY <2>4, <3>2
  <2>6. junk <=> f[j] # "json"
    <3>1. "json" \in Data
      BY DEF Data
    <3>2. ASSUME NEW k \in 1 .. L, f[k] = "json" PROVE k = j
      BY <1>2, <1>6, <2>1, <3>1, <3>2
    <3>. QED
      BY <1>6, <3>2
  <2>. HIDE DEF data, i, junk
  <2>. QED
    BY <1>4, <1>5, <1>9, <2>3, <2>4, <2>5, <2>6 DEF b
<1>. QED
  BY <1>8, <1>9

\* Of a frame that the body ends in the middle of, there is at most one event.
LEMMA TornParsed ==
  ASSUME FramesTyped, NEW n \in DOMAIN frames, NEW s, Piece(s, n)
  PROVE  ParseSseBlock(s) = <<>> \/ \E m \in BOOLEAN : ParseSseBlock(s) = <<[of |-> n, malformed |-> m]>>
<1>. DEFINE data == {i \in DOMAIN s : s[i].kind \in Data}
            parses == data = {First(data)} /\ s[First(data)].kind = "json"
<1>1. s \in Seq(Tags) /\ DOMAIN s = 1 .. Len(s) /\ Len(s) \in Nat
  BY DEF Piece
<1>2. ParseSseBlock(s) = IF data = {} \/ (~parses /\ reader = "web") THEN <<>>
                         ELSE <<[of |-> s[First(data)].of, malformed |-> ~parses]>>
  BY <1>1, BlockParsed
<1>3. Cr.kind \notin Data /\ Lf.kind \notin Data
  BY LinesAreNoBreaks DEF Data
<1>4. \A i \in 1 .. Len(s) : s[i] \notin {Cr, Lf} => s[i].of = n
  BY PieceShape
<1>5. CASE data = {}
  BY <1>2, <1>5
<1>6. CASE data # {}
  <2>1. First(data) \in data
    <3>1. data \in SUBSET Nat
      BY <1>1
    <3>. HIDE DEF data
    <3>. QED
      BY <1>6, <3>1, FirstIsThere
  <2>2. s[First(data)].of = n
    BY <1>1, <1>3, <1>4, <2>1
  <2>. HIDE DEF data
  <2>. QED
    BY <1>2, <2>2
<1>. QED
  BY <1>5, <1>6

\* The frames up to the nth.
Upto(n) == [i \in 1 .. n |-> Sent(i)]
LEMMA ReachSteps ==
  ASSUME FramesTyped
  PROVE  /\ Len(frames) \in Nat /\ DOMAIN frames = 1 .. Len(frames)
         /\ Reach(0) = 0 /\ FlattenSeq(Upto(0)) = <<>>
         /\ \A n \in 0 .. Len(frames) : FlattenSeq(Upto(n)) \in Seq(Tags) /\ Reach(n) \in Nat
         /\ \A n \in 1 .. Len(frames) : /\ FlattenSeq(Upto(n)) = FlattenSeq(Upto(n - 1)) \o Sent(n)
                                        /\ Reach(n) = Reach(n - 1) + Len(Sent(n))
                                        /\ Sent(n) \in Seq(Tags) /\ Len(Sent(n)) \in Nat \ {0}
         /\ Body = FlattenSeq(Upto(Len(frames))) /\ Len(Body) = Reach(Len(frames))
<1>. DEFINE N == Len(frames)
<1>1. N \in Nat /\ DOMAIN frames = 1 .. N
  BY DEF FramesTyped
<1>2. ASSUME NEW n \in 1 .. N PROVE Sent(n) \in Seq(Tags) /\ Len(Sent(n)) \in Nat \ {0}
  <2>. DEFINE L == Lines(n)
  <2>1. n \in DOMAIN frames
    BY <1>1
  <2>2. /\ L \in Nat \ {0} /\ Sent(n) \in Seq(Tags) /\ eol \in {<<Lf>>, <<Cr, Lf>>}
        /\ eol = <<Lf>> => Len(Sent(n)) = 2 * L + 1
        /\ eol = <<Cr, Lf>> => Len(Sent(n)) = 3 * L + 2
    BY <2>1, SentShape DEF FramesTyped, Eols
  <2>. HIDE DEF L
  <2>3. CASE eol = <<Lf>>
    BY <2>2, <2>3
  <2>4. CASE eol = <<Cr, Lf>>
    BY <2>2, <2>4
  <2>. QED
    BY <2>2, <2>3, <2>4
<1>. HIDE DEF N
<1>3. ASSUME NEW n \in 0 .. N PROVE Upto(n) \in Seq(Seq(Tags)) /\ Len(Upto(n)) = n
  <2>1. \A i \in 1 .. n : Sent(i) \in Seq(Tags)
    BY <1>1, <1>2
  <2>. DEFINE D == Seq(Tags)
  <2>. HIDE DEF D
  <2>2. \A i \in 1 .. n : Sent(i) \in D
    BY <2>1 DEF D
  <2>3. n \in Nat
    BY <1>1
  <2>4. Upto(n) \in Seq(D) /\ Len(Upto(n)) = n
    BY <2>2, <2>3 DEF Upto
  <2>. QED
    BY <2>4 DEF D
<1>4. ASSUME NEW n \in 0 .. N
      PROVE  FlattenSeq(Upto(n)) \in Seq(Tags) /\ Reach(n) = Len(FlattenSeq(Upto(n))) /\ Reach(n) \in Nat
  <2>1. FlattenSeq(Upto(n)) \in Seq(Tags)
    BY <1>3, FlattenTyped
  <2>2. Reach(n) = Len(FlattenSeq(Upto(n)))
    BY DEF Reach, Upto
  <2>. HIDE DEF Upto
  <2>. QED
    BY <2>1, <2>2
<1>5. Reach(0) = 0 /\ FlattenSeq(Upto(0)) = <<>>
  <2>1. 0 \in 0 .. N
    BY <1>1
  <2>2. Upto(0) = <<>>
    BY <1>3, <2>1
  <2>3. Len(<<>>) = 0
    OBVIOUS
  <2>. QED
    BY <1>4, <2>1, <2>2, <2>3, FlattenNone
<1>6. ASSUME NEW n \in 1 .. N
      PROVE  /\ FlattenSeq(Upto(n)) = FlattenSeq(Upto(n - 1)) \o Sent(n)
             /\ Reach(n) = Reach(n - 1) + Len(Sent(n))
  <2>1. n - 1 \in 0 .. N /\ n \in 0 .. N /\ n \in Nat
    BY <1>1
  <2>2. Upto(n) = Append(Upto(n - 1), Sent(n))
    <3>. DEFINE D == Seq(Tags)
                s == Upto(n - 1)
                t == Upto(n)
    <3>1. s \in Seq(D) /\ Len(s) = n - 1 /\ t \in Seq(D) /\ Len(t) = n /\ Sent(n) \in D
      BY <1>2, <1>3, <2>1
    <3>2. (\A i \in 1 .. n - 1 : s[i] = Sent(i)) /\ (\A i \in 1 .. n : t[i] = Sent(i))
      BY DEF Upto
    <3>. HIDE DEF D, s, t
    <3>3. /\ Append(s, Sent(n)) \in Seq(D) /\ Len(Append(s, Sent(n))) = n
          /\ \A i \in 1 .. n : Append(s, Sent(n))[i] = IF i = n THEN Sent(n) ELSE s[i]
      BY <2>1, <3>1
    <3>4. \A i \in 1 .. n : Append(s, Sent(n))[i] = t[i]
      <4>. SUFFICES ASSUME NEW i \in 1 .. n PROVE Append(s, Sent(n))[i] = t[i]
        OBVIOUS
      <4>1. i # n => i \in 1 .. n - 1
        BY <2>1
      <4>. QED
        BY <3>2, <3>3, <4>1
    <3>5. t = Append(s, Sent(n))
      BY <3>1, <3>3, <3>4, SameList
    <3>. QED
      BY <3>5 DEF s, t
  <2>3. FlattenSeq(Upto(n)) = FlattenSeq(Upto(n - 1)) \o Sent(n)
    BY <1>2, <1>3, <2>1, <2>2, FlattenAppend
  <2>4. Reach(n) = Reach(n - 1) + Len(Sent(n))
    <3>1. FlattenSeq(Upto(n - 1)) \in Seq(Tags) /\ Sent(n) \in Seq(Tags)
      BY <1>2, <1>4, <2>1
    <3>2. Len(FlattenSeq(Upto(n - 1)) \o Sent(n)) = Len(FlattenSeq(Upto(n - 1))) + Len(Sent(n))
      BY <3>1, Joining
    <3>. QED
      BY <1>4, <2>1, <2>3, <3>2
  <2>. QED
    BY <2>3, <2>4
<1>7. Body = FlattenSeq(Upto(N))
  BY <1>1 DEF Body, Upto
<1>8. N \in 0 .. N
  BY <1>1
<1>. QED
  BY <1>1, <1>2, <1>4, <1>5, <1>6, <1>7, <1>8 DEF N

\* Each frame reaches farther than those before.
LEMMA ReachGrows ==
  ASSUME FramesTyped, NEW m \in 0 .. Len(frames), NEW n \in 0 .. Len(frames), m < n
  PROVE  Reach(m) < Reach(n)
<1>. DEFINE N == Len(frames)
            T == {k \in Nat : m + k + 1 <= N => Reach(m) < Reach(m + k + 1)}
<1>1. /\ N \in Nat /\ \A i \in 0 .. N : Reach(i) \in Nat
      /\ \A i \in 1 .. N : Reach(i) = Reach(i - 1) + Len(Sent(i)) /\ Len(Sent(i)) \in Nat \ {0}
  BY ReachSteps
<1>. HIDE DEF N
<1>2. m \in Nat /\ m <= N /\ n \in Nat /\ n <= N
  BY <1>1 DEF N
<1>3. \A i \in 0 .. N : i + 1 <= N => Reach(i) < Reach(i + 1)
  <2>. SUFFICES ASSUME NEW i \in 0 .. N, i + 1 <= N PROVE Reach(i) < Reach(i + 1)
    OBVIOUS
  <2>1. i + 1 \in 1 .. N /\ (i + 1) - 1 = i /\ i + 1 \in 0 .. N
    BY <1>1
  <2>2. Reach(i + 1) = Reach(i) + Len(Sent(i + 1)) /\ Len(Sent(i + 1)) \in Nat \ {0} /\ Reach(i) \in Nat
    BY <1>1, <2>1
  <2>. QED
    BY <2>2
<1>4. 0 \in T
  <2>1. m \in 0 .. N /\ m + 0 + 1 = m + 1
    BY <1>1, <1>2
  <2>. QED
    BY <1>3, <2>1
<1>5. ASSUME NEW k \in Nat, k \in T PROVE k + 1 \in T
  <2>1. ASSUME m + (k + 1) + 1 <= N PROVE Reach(m) < Reach(m + (k + 1) + 1)
    <3>1. /\ m + k + 1 <= N /\ m + k + 1 \in 0 .. N /\ (m + k + 1) + 1 = m + (k + 1) + 1
          /\ m \in 0 .. N /\ (m + k + 1) + 1 \in 0 .. N
      BY <1>1, <1>2, <2>1
    <3>2. Reach(m) < Reach(m + k + 1)
      BY <1>5, <3>1
    <3>3. Reach(m + k + 1) < Reach((m + k + 1) + 1)
      BY <1>3, <2>1, <3>1
    <3>4. Reach(m) \in Nat /\ Reach(m + k + 1) \in Nat /\ Reach((m + k + 1) + 1) \in Nat
      BY <1>1, <3>1
    <3>5. Reach(m) < Reach((m + k + 1) + 1)
      BY <3>2, <3>3, <3>4
    <3>. QED
      BY <3>1, <3>5
  <2>. QED
    BY <2>1
<1>6. Nat \subseteq T
  <2>. HIDE DEF T
  <2>. QED
    BY <1>4, <1>5, Induction
<1>7. n - m - 1 \in Nat /\ m + (n - m - 1) + 1 = n
  BY <1>2
<1>8. n - m - 1 \in T
  <2>. HIDE DEF T
  <2>. QED
    BY <1>6, <1>7
<1>. QED
  BY <1>2, <1>7, <1>8

\* After r of the body, m frames were read to their ends.
Passed(r, m) == /\ m \in 0 .. Len(frames) /\ Reach(m) <= r
                /\ m < Len(frames) => r < Reach(m + 1)

\* There is one such number, and it is what the property counts.
LEMMA PassedIsOne ==
  ASSUME FramesTyped, NEW r \in Nat
  PROVE  /\ \E m \in 0 .. Len(frames) : Passed(r, m)
         /\ \A m : Passed(r, m) => Cardinality({n \in DOMAIN frames : Reach(n) <= r}) = m
<1>. DEFINE N == Len(frames)
            T == {n \in 1 .. N : r < Reach(n)}
<1>1. /\ N \in Nat /\ DOMAIN frames = 1 .. N /\ Reach(0) = 0
      /\ \A i \in 0 .. N : Reach(i) \in Nat
  BY ReachSteps
<1>2. \E m \in 0 .. N : Passed(r, m)
  <2>1. CASE T = {}
    <3>1. N \in 0 .. N /\ (N # 0 => N \in 1 .. N)
      BY <1>1
    <3>2. Reach(N) <= r
      BY <1>1, <2>1, <3>1
    <3>. QED
      BY <1>1, <3>1, <3>2 DEF Passed
  <2>2. CASE T # {}
    <3>1. PICK n \in T : \A k \in T : n <= k
      <4>1. T \in SUBSET Nat
        BY <1>1
      <4>. HIDE DEF T
      <4>. QED
        BY <2>2, <4>1, Least
    <3>2. n - 1 \in 0 .. N /\ (n - 1) + 1 = n /\ (n - 1 # 0 => n - 1 \in 1 .. N) /\ ~(n <= n - 1)
      BY <1>1, <3>1
    <3>3. Reach(n - 1) <= r
      BY <1>1, <3>1, <3>2
    <3>4. r < Reach((n - 1) + 1)
      BY <3>1, <3>2
    <3>. QED
      BY <3>2, <3>3, <3>4 DEF Passed
  <2>. QED
    BY <2>1, <2>2
<1>3. ASSUME NEW m, Passed(r, m) PROVE Cardinality({n \in DOMAIN frames : Reach(n) <= r}) = m
  <2>1. m \in 0 .. N /\ m \in Nat /\ Reach(m) <= r /\ (m < N => r < Reach(m + 1))
    BY <1>1, <1>3 DEF Passed
  <2>2. ASSUME NEW n \in 1 .. N, n <= m PROVE Reach(n) <= r
    <3>1. n \in 0 .. N /\ (n < m \/ n = m)
      BY <1>1, <2>1, <2>2
    <3>2. n < m => Reach(n) < Reach(m)
      BY <2>1, <3>1, ReachGrows
    <3>3. Reach(n) \in Nat /\ Reach(m) \in Nat
      BY <1>1, <2>1, <3>1
    <3>. QED
      BY <2>1, <3>1, <3>2, <3>3
  <2>3. ASSUME NEW n \in 1 .. N, ~(n <= m) PROVE ~(Reach(n) <= r)
    <3>1. n \in 0 .. N /\ m + 1 \in 0 .. N /\ (m + 1 < n \/ m + 1 = n) /\ m < N
      BY <1>1, <2>1, <2>3
    <3>2. m + 1 < n => Reach(m + 1) < Reach(n)
      BY <3>1, ReachGrows
    <3>3. Reach(n) \in Nat /\ Reach(m + 1) \in Nat /\ r < Reach(m + 1)
      BY <1>1, <2>1, <3>1
    <3>. QED
      BY <3>1, <3>2, <3>3
  <2>4. {n \in DOMAIN frames : Reach(n) <= r} = 1 .. m
    <3>1. 1 .. m \subseteq 1 .. N
      BY <1>1, <2>1
    <3>2. \A n \in 1 .. N : n \in 1 .. m <=> n <= m
      BY <2>1
    <3>. QED
      BY <1>1, <2>2, <2>3, <3>1, <3>2
  <2>5. Cardinality(1 .. m) = m
    BY <2>1, FS_Interval
  <2>. QED
    BY <2>4, <2>5
<1>. QED
  BY <1>2, <1>3 DEF N

\* A part of a list, and a part of that.
LEMMA PartOf ==
  ASSUME NEW S, NEW s \in Seq(S), NEW a \in 0 .. Len(s), NEW r \in a .. Len(s)
  PROVE  /\ SubSeq(s, a + 1, r) \in Seq(S) /\ Len(SubSeq(s, a + 1, r)) = r - a
         /\ \A i \in 1 .. r - a : SubSeq(s, a + 1, r)[i] = s[a + i]
  OBVIOUS

\* A part of a part is a part.
LEMMA PartOfPart ==
  ASSUME NEW S, NEW s \in Seq(S), NEW a \in 0 .. Len(s), NEW r \in a .. Len(s),
         NEW c \in 0 .. r - a, NEW e \in c .. r - a
  PROVE  SubSeq(SubSeq(s, a + 1, r), c + 1, e) = SubSeq(s, a + c + 1, a + e)
<1>. DEFINE t == SubSeq(s, a + 1, r)
            u == SubSeq(t, c + 1, e)
            v == SubSeq(s, a + c + 1, a + e)
<1>1. t \in Seq(S) /\ Len(t) = r - a /\ \A i \in 1 .. r - a : t[i] = s[a + i]
  BY PartOf
<1>2. a + c \in 0 .. Len(s) /\ a + e \in a + c .. Len(s) /\ c \in 0 .. r - a /\ r - a \in Nat /\ (a + e) - (a + c) = e - c
  OBVIOUS
<1>3. v \in Seq(S) /\ Len(v) = (a + e) - (a + c) /\ \A i \in 1 .. (a + e) - (a + c) : v[i] = s[(a + c) + i]
  <2>. DEFINE x == a + c
              y == a + e
  <2>1. x \in 0 .. Len(s) /\ y \in x .. Len(s) /\ v = SubSeq(s, x + 1, y)
    BY <1>2
  <2>. HIDE DEF x, y, v
  <2>2. v \in Seq(S) /\ Len(v) = y - x /\ \A i \in 1 .. y - x : v[i] = s[x + i]
    BY <2>1, PartOf
  <2>. QED
    BY <2>2 DEF x, y
<1>. HIDE DEF t, v
<1>4. u \in Seq(S) /\ Len(u) = e - c /\ \A i \in 1 .. e - c : u[i] = t[c + i]
  <2>1. c \in 0 .. Len(t) /\ e \in c .. Len(t)
    BY <1>1, <1>2
  <2>. QED
    BY <1>1, <2>1, PartOf
<1>. HIDE DEF u
<1>5. ASSUME NEW i \in 1 .. e - c PROVE u[i] = v[i]
  <2>1. c + i \in 1 .. r - a /\ a + (c + i) = (a + c) + i
    BY <1>2
  <2>. QED
    BY <1>1, <1>2, <1>3, <1>4, <2>1
<1>6. u = v
  BY <1>2, <1>3, <1>4, <1>5, SameList
<1>. QED
  BY <1>6 DEF t, u, v

\* Where the places of a frame are in the body.
LEMMA BodyPlaces ==
  ASSUME FramesTyped, NEW n \in 1 .. Len(frames), NEW p \in 1 .. Len(Sent(n))
  PROVE  Reach(n - 1) + p \in 1 .. Len(Body) /\ Body[Reach(n - 1) + p] = Sent(n)[p]
<1>. DEFINE N == Len(frames)
            i == Reach(n - 1) + p
            F(m) == FlattenSeq(Upto(m))
            T == {k \in Nat : n + k <= N => Reach(n) <= Reach(n + k) /\ F(n + k)[i] = Sent(n)[p]}
<1>1. /\ N \in Nat
      /\ \A m \in 0 .. N : F(m) \in Seq(Tags) /\ Reach(m) \in Nat /\ Reach(m) = Len(F(m))
      /\ \A m \in 1 .. N : /\ F(m) = F(m - 1) \o Sent(m)
                           /\ Reach(m) = Reach(m - 1) + Len(Sent(m))
                           /\ Sent(m) \in Seq(Tags) /\ Len(Sent(m)) \in Nat \ {0}
      /\ Body = F(N) /\ Len(Body) = Reach(N)
  <2>1. \A m \in 0 .. N : Reach(m) = Len(F(m))
    BY DEF Reach, Upto
  <2>. QED
    BY <2>1, ReachSteps
<1>. HIDE DEF N, F
<1>2. n \in 1 .. N /\ n - 1 \in 0 .. N /\ n \in 0 .. N /\ n \in Nat
  BY <1>1 DEF N
<1>3. /\ Reach(n - 1) \in Nat /\ Reach(n) = Reach(n - 1) + Len(Sent(n)) /\ Len(Sent(n)) \in Nat
      /\ i \in 1 .. Reach(n) /\ ~(i <= Reach(n - 1)) /\ i - Reach(n - 1) = p
  <2>1. Reach(n - 1) \in Nat /\ Reach(n) = Reach(n - 1) + Len(Sent(n)) /\ Len(Sent(n)) \in Nat
    BY <1>1, <1>2
  <2>. QED
    BY <2>1
<1>4. \A x, y \in Seq(Tags) : \A j \in 1 .. Len(x) + Len(y) : (x \o y)[j] = IF j <= Len(x) THEN x[j] ELSE y[j - Len(x)]
  BY Joining
<1>5. F(n)[i] = Sent(n)[p]
  <2>1. /\ F(n) = F(n - 1) \o Sent(n) /\ F(n - 1) \in Seq(Tags) /\ Sent(n) \in Seq(Tags)
        /\ Len(F(n - 1)) = Reach(n - 1)
    BY <1>1, <1>2
  <2>. HIDE DEF i
  <2>2. i \in 1 .. Len(F(n - 1)) + Len(Sent(n)) /\ ~(i <= Len(F(n - 1))) /\ i - Len(F(n - 1)) = p
    BY <1>3, <2>1
  <2>. QED
    BY <1>4, <2>1, <2>2
<1>. HIDE DEF i
<1>6. 0 \in T
  BY <1>1, <1>2, <1>5
<1>7. ASSUME NEW k \in Nat, k \in T PROVE k + 1 \in T
  <2>1. ASSUME n + (k + 1) <= N PROVE Reach(n) <= Reach(n + (k + 1)) /\ F(n + (k + 1))[i] = Sent(n)[p]
    <3>. DEFINE m == n + k
    <3>1. m + 1 = n + (k + 1) /\ m \in 0 .. N /\ m + 1 \in 1 .. N /\ (m + 1) - 1 = m /\ m <= N
      BY <1>1, <1>2, <2>1
    <3>2. Reach(n) <= Reach(m) /\ F(m)[i] = Sent(n)[p]
      BY <1>7, <3>1
    <3>. HIDE DEF m
    <3>3. /\ F(m + 1) = F(m) \o Sent(m + 1) /\ Reach(m + 1) = Reach(m) + Len(Sent(m + 1))
          /\ Len(Sent(m + 1)) \in Nat /\ F(m) \in Seq(Tags) /\ Sent(m + 1) \in Seq(Tags)
          /\ Reach(m) \in Nat /\ Reach(m) = Len(F(m)) /\ Reach(n) \in Nat
      BY <1>1, <1>2, <3>1
    <3>4. i \in 1 .. Len(F(m)) + Len(Sent(m + 1)) /\ i <= Len(F(m)) /\ Reach(n) <= Reach(m + 1)
      BY <1>3, <3>2, <3>3
    <3>5. F(m + 1)[i] = Sent(n)[p]
      BY <1>4, <3>2, <3>3, <3>4
    <3>. QED
      BY <3>1, <3>4, <3>5
  <2>. QED
    BY <2>1
<1>8. N - n \in Nat /\ n + (N - n) = N
  BY <1>1, <1>2
<1>9. N - n \in T
  <2>1. Nat \subseteq T
    <3>. HIDE DEF T
    <3>. QED
      BY <1>6, <1>7, Induction
  <2>. HIDE DEF T
  <2>. QED
    BY <1>8, <2>1
<1>10. Reach(n) <= Reach(N) /\ F(N)[i] = Sent(n)[p]
  BY <1>1, <1>8, <1>9
<1>11. i \in 1 .. Len(Body)
  <2>1. Reach(n) \in Nat /\ Reach(N) \in Nat /\ N \in 0 .. N
    BY <1>1, <1>2
  <2>. QED
    BY <1>1, <1>3, <1>10, <2>1
<1>. QED
  BY <1>1, <1>10, <1>11 DEF i

\* What a body that may end anywhere has at its places.
IsBody(P) == /\ P \in Seq(Tags) /\ Len(P) <= Len(Body)
             /\ \A i \in 1 .. Len(P) :
                   \/ P[i] = Body[i]
                   \/ i = Len(P) /\ Body[i].kind = "json" /\ P[i] = [Body[i] EXCEPT !.kind = "junk"]
LEMMA CutsAreBodies ==
  ASSUME FramesTyped, NEW P \in Cuts(Body)
  PROVE  IsBody(P)
<1>. DEFINE B == Body
<1>1. B \in Seq(Tags) /\ Len(B) \in Nat
  <2>1. Body \in Seq(Tags)
    <3>1. Len(frames) \in 0 .. Len(frames)
      BY ReachSteps
    <3>. QED
      BY <3>1, ReachSteps
  <2>. QED
    BY <2>1
<1>. HIDE DEF B
<1>2. CASE \E k \in 0 .. Len(B) : P = SubSeq(B, 1, k)
  <2>1. PICK k \in 0 .. Len(B) : P = SubSeq(B, 1, k)
    BY <1>2
  <2>2. P \in Seq(Tags) /\ Len(P) = k /\ \A i \in 1 .. k : P[i] = B[i]
    BY <1>1, <2>1, Splitting
  <2>. QED
    BY <1>1, <2>2 DEF IsBody, B
<1>3. CASE \E k \in {i \in DOMAIN B : B[i].kind = "json"} : P = Append(SubSeq(B, 1, k - 1), [B[k] EXCEPT !.kind = "junk"])
  <2>1. PICK k \in DOMAIN B : B[k].kind = "json" /\ P = Append(SubSeq(B, 1, k - 1), [B[k] EXCEPT !.kind = "junk"])
    BY <1>3
  <2>. DEFINE v == [B[k] EXCEPT !.kind = "junk"]
              s == SubSeq(B, 1, k - 1)
  <2>2. v \in Tags
    <3>. DEFINE w == B[k]
    <3>1. w \in Tags /\ "junk" \in LineKinds \union {"cr", "lf"}
      BY <1>1 DEF LineKinds, Data
    <3>. HIDE DEF w
    <3>2. [w EXCEPT !.kind = "junk"] \in Tags
      BY <3>1 DEF Tags
    <3>. QED
      BY <3>2 DEF w
  <2>3. k \in 1 .. Len(B) /\ k - 1 \in 0 .. Len(B) /\ k <= Len(B)
    BY <1>1
  <2>4. s \in Seq(Tags) /\ Len(s) = k - 1 /\ \A i \in 1 .. k - 1 : s[i] = B[i]
    BY <1>1, <2>3, Splitting
  <2>5. P = Append(s, v)
    BY <2>1
  <2>. HIDE DEF s, v
  <2>6. P \in Seq(Tags) /\ Len(P) = k /\ \A i \in 1 .. k : P[i] = IF i = k THEN v ELSE B[i]
    <3>1. P \in Seq(Tags) /\ Len(P) = k /\ \A i \in 1 .. k : P[i] = IF i = k THEN v ELSE s[i]
      BY <2>2, <2>3, <2>4, <2>5
    <3>2. \A i \in 1 .. k : i = k \/ i \in 1 .. k - 1
      BY <2>3
    <3>. QED
      BY <2>4, <3>1, <3>2
  <2>. QED
    BY <2>1, <2>3, <2>6 DEF IsBody, B, v
<1>. QED
  BY <1>2, <1>3 DEF Cuts, B

\* The places of a frame in a body, as far as it goes.
LEMMA PieceOfBody ==
  ASSUME FramesTyped, NEW P, IsBody(P), NEW n \in 1 .. Len(frames),
         NEW r \in Reach(n - 1) .. Reach(n), r <= Len(P)
  PROVE  Piece(SubSeq(P, Reach(n - 1) + 1, r), n)
<1>. DEFINE a == Reach(n - 1)
            s == SubSeq(P, a + 1, r)
            t == Sent(n)
<1>1. /\ n \in DOMAIN frames /\ a \in Nat /\ Reach(n) = a + Len(t) /\ t \in Seq(Tags) /\ Len(t) \in Nat
  <2>1. n - 1 \in 0 .. Len(frames)
    BY ReachSteps
  <2>. QED
    BY <2>1, ReachSteps
<1>2. P \in Seq(Tags) /\ Len(P) \in Nat
  BY DEF IsBody
<1>3. \A p \in 1 .. Len(t) : Body[a + p] = t[p]
  BY BodyPlaces
<1>4. \A p \in 1 .. Len(t) : t[p].kind = "json" => [t[p] EXCEPT !.kind = "junk"] = Line(n, "junk")
  <2>. SUFFICES ASSUME NEW p \in 1 .. Len(t), t[p].kind = "json" PROVE [t[p] EXCEPT !.kind = "junk"] = Line(n, "junk")
    OBVIOUS
  <2>1. Piece(t, n)
    BY <1>1 DEF Piece
  <2>2. t[p] \notin {Cr, Lf}
    BY LinesAreNoBreaks DEF LineKinds, Data
  <2>3. t[p].of = n
    BY <2>1, <2>2, PieceShape
  <2>4. t[p] \in Tags
    BY <1>1
  <2>. HIDE DEF t
  <2>. QED
    BY <2>3, <2>4 DEF Line, Tags
<1>. HIDE DEF a, t
<1>5. a \in 0 .. Len(P) /\ r \in a .. Len(P) /\ r - a \in Nat /\ r - a <= Len(t) /\ r \in Nat
  <2>1. r \in a .. a + Len(t) /\ r <= Len(P)
    BY <1>1 DEF a
  <2>. QED
    BY <1>1, <1>2, <2>1
<1>6. s \in Seq(Tags) /\ Len(s) = r - a /\ \A i \in 1 .. r - a : s[i] = P[a + i]
  BY <1>2, <1>5, PartOf
<1>. HIDE DEF s
<1>7. ASSUME NEW i \in 1 .. Len(s) PROVE s[i] = t[i] \/ (i = Len(s) /\ t[i].kind = "json" /\ s[i] = Line(n, "junk"))
  <2>1. i \in 1 .. r - a /\ i \in 1 .. Len(t) /\ a + i \in 1 .. Len(P)
    BY <1>1, <1>2, <1>5, <1>6
  <2>2. s[i] = P[a + i] /\ Body[a + i] = t[i]
    BY <1>3, <1>6, <2>1
  <2>3. CASE P[a + i] = Body[a + i]
    BY <2>2, <2>3
  <2>4. CASE a + i = Len(P) /\ Body[a + i].kind = "json" /\ P[a + i] = [Body[a + i] EXCEPT !.kind = "junk"]
    <3>1. i = Len(s)
      BY <1>1, <1>5, <1>6, <2>1, <2>4
    <3>. QED
      BY <1>4, <2>1, <2>2, <2>4, <3>1
  <2>. QED
    BY <2>1, <2>3, <2>4 DEF IsBody
<1>. QED
  BY <1>5, <1>6, <1>7 DEF Piece, Torn, a, s, t

\* What is cut off for a frame of which the body has everything.
LEMMA BlockOfBody ==
  ASSUME FramesTyped, NEW P, IsBody(P), NEW n \in 1 .. Len(frames), Reach(n) <= Len(P)
  PROVE  /\ SubSeq(P, Reach(n - 1) + 1, Reach(n) - 2 * Len(eol)) = BlockOf(n)
         /\ Len(eol) \in {1, 2} /\ Reach(n - 1) + 2 * Len(eol) <= Reach(n)
<1>. DEFINE a == Reach(n - 1)
            t == Sent(n)
            z == 2 * Len(eol)
            r == Reach(n) - z
            L == Lines(n)
<1>1. /\ n \in DOMAIN frames /\ a \in Nat /\ Reach(n) = a + Len(t) /\ t \in Seq(Tags) /\ Len(t) \in Nat
  <2>1. n - 1 \in 0 .. Len(frames)
    BY ReachSteps
  <2>. QED
    BY <2>1, ReachSteps
<1>2. P \in Seq(Tags) /\ Len(P) \in Nat
  BY DEF IsBody
<1>3. \A p \in 1 .. Len(t) : Body[a + p] = t[p]
  BY BodyPlaces
<1>4. Len(eol) \in {1, 2} /\ z \in Nat \ {0} /\ z <= Len(t)
  <2>1. /\ L \in Nat \ {0} /\ eol \in {<<Lf>>, <<Cr, Lf>>}
        /\ eol = <<Lf>> => Len(t) = 2 * L + 1
        /\ eol = <<Cr, Lf>> => Len(t) = 3 * L + 2
    BY <1>1, SentShape DEF FramesTyped, Eols
  <2>. HIDE DEF L, t
  <2>2. CASE eol = <<Lf>>
    <3>1. Len(eol) = 1
      BY <2>2
    <3>. QED
      BY <2>1, <2>2, <3>1
  <2>3. CASE eol = <<Cr, Lf>>
    <3>1. Len(eol) = 2
      BY <2>3
    <3>. QED
      BY <2>1, <2>3, <3>1
  <2>. QED
    BY <2>1, <2>2, <2>3
<1>. HIDE DEF a, t, z
<1>5. a \in 0 .. Len(P) /\ r \in a .. Len(P) /\ r - a = Len(t) - z /\ r < Len(P) /\ r \in Nat
  <2>1. Reach(n) <= Len(P) /\ a <= Reach(n)
    BY <1>1
  <2>. QED
    BY <1>1, <1>2, <1>4, <2>1
<1>. DEFINE s == SubSeq(P, a + 1, r)
            b == SubSeq(t, 1, Len(t) - z)
<1>6. s \in Seq(Tags) /\ Len(s) = r - a /\ \A i \in 1 .. r - a : s[i] = P[a + i]
  <2>. HIDE DEF r
  <2>. QED
    BY <1>2, <1>5, PartOf
<1>7. b \in Seq(Tags) /\ Len(b) = Len(t) - z /\ \A i \in 1 .. Len(t) - z : b[i] = t[i]
  BY <1>1, <1>4
<1>. HIDE DEF s, b, r
<1>8. ASSUME NEW i \in 1 .. Len(s) PROVE s[i] = b[i]
  <2>1. i \in 1 .. r - a /\ i \in 1 .. Len(t) /\ i \in 1 .. Len(t) - z /\ a + i \in 1 .. Len(P) /\ a + i # Len(P)
    BY <1>1, <1>2, <1>4, <1>5, <1>6
  <2>2. P[a + i] = Body[a + i]
    BY <2>1 DEF IsBody
  <2>. QED
    BY <1>3, <1>6, <1>7, <2>1, <2>2
<1>9. s = b
  BY <1>5, <1>6, <1>7, <1>8, SameList
<1>10. a + z <= Reach(n)
  BY <1>1, <1>4
<1>. QED
  BY <1>4, <1>9, <1>10 DEF s, b, r, a, t, z, BlockOf

\* An empty line is sought after the line before it only, and not past the beginning of a frame.
Has(b, d, s, p) == s[1] \notin {Cr, Lf} /\ \A i \in 1 .. p : b[d + i] = s[i]
LEMMA BeginsWithin ==
  ASSUME NEW b, NEW s, NEW d \in Nat, NEW p \in Nat \ {0}, Has(b, d, s, p)
  PROVE  Begins(b, d + p) = IF Begins(s, p) = 0 THEN 0 ELSE d + Begins(s, p)
<1>. DEFINE back(i) == IF i > 1 /\ s[i - 1] = Cr THEN i - 1 ELSE i
            backB(i) == IF i > 1 /\ b[i - 1] = Cr THEN i - 1 ELSE i
            Goal == Begins(b, d + p) = IF Begins(s, p) = 0 THEN 0 ELSE d + Begins(s, p)
<1>0. Cr # Lf /\ s[1] \notin {Cr, Lf} /\ \A i \in 1 .. p : b[d + i] = s[i]
  BY LinesAreNoBreaks DEF Has
<1>1. /\ Begins(s, p) = IF s[p] = Lf /\ back(p) > 1 /\ s[back(p) - 1] = Lf THEN back(back(p) - 1) ELSE 0
      /\ Begins(b, d + p) = IF b[d + p] = Lf /\ backB(d + p) > 1 /\ b[backB(d + p) - 1] = Lf
                            THEN backB(backB(d + p) - 1) ELSE 0
  BY DEF Begins
<1>2. \A i \in 2 .. p : backB(d + i) = d + back(i) /\ back(i) \in {i, i - 1}
  <2>. SUFFICES ASSUME NEW i \in 2 .. p PROVE backB(d + i) = d + back(i) /\ back(i) \in {i, i - 1}
    OBVIOUS
  <2>1. i - 1 \in 1 .. p /\ d + (i - 1) = (d + i) - 1 /\ d + i > 1 /\ i > 1
    OBVIOUS
  <2>2. b[(d + i) - 1] = s[i - 1]
    BY <1>0, <2>1
  <2>. QED
    BY <2>1, <2>2
<1>. HIDE DEF back, backB
<1>3. CASE p = 1 \/ s[p] # Lf
  <2>1. s[p] # Lf /\ b[d + p] # Lf
    BY <1>0, <1>3
  <2>. QED
    BY <1>1, <2>1
<1>4. CASE p # 1 /\ s[p] = Lf
  <2>. DEFINE x == back(p) - 1
  <2>1. p \in 2 .. p /\ b[d + p] = Lf
    BY <1>0, <1>4
  <2>2. back(p) \in {p, p - 1} /\ backB(d + p) = d + back(p)
    BY <1>2, <2>1
  <2>3. back(p) > 1
    <3>1. CASE p = 2
      <4>1. ~(s[p - 1] = Cr)
        BY <1>0, <3>1
      <4>. QED
        BY <3>1, <4>1 DEF back
    <3>2. CASE p > 2
      BY <2>2, <3>2
    <3>. QED
      BY <1>4, <3>1, <3>2
  <2>4. x \in 1 .. p /\ backB(d + p) > 1 /\ backB(d + p) - 1 = d + x
    BY <2>2, <2>3
  <2>. HIDE DEF x
  <2>5. b[d + x] = s[x]
    BY <1>0, <2>4
  <2>6. CASE s[x] # Lf
    <3>1. Begins(s, p) = 0
      BY <1>1, <2>6 DEF x
    <3>2. Begins(b, d + p) = 0
      BY <1>1, <2>4, <2>5, <2>6
    <3>. QED
      BY <3>1, <3>2
  <2>7. CASE s[x] = Lf
    <3>1. x \in 2 .. p
      BY <1>0, <2>4, <2>7
    <3>2. back(x) \in {x, x - 1} /\ backB(d + x) = d + back(x)
      BY <1>2, <3>1
    <3>3. Begins(s, p) = back(x)
      BY <1>1, <1>4, <2>3, <2>7 DEF x
    <3>4. Begins(b, d + p) = d + back(x)
      BY <1>1, <2>1, <2>4, <2>5, <2>7, <3>2
    <3>5. back(x) # 0
      BY <3>1, <3>2
    <3>. QED
      BY <3>3, <3>4, <3>5
  <2>. QED
    BY <2>6, <2>7
<1>. QED
  BY <1>3, <1>4

\* An empty line begins where it ends, or before.
LEMMA BeginsBound ==
  ASSUME NEW b, NEW k \in Nat \ {0}
  PROVE  Begins(b, k) \in 0 .. k
<1>. DEFINE back(i) == IF i > 1 /\ b[i - 1] = Cr THEN i - 1 ELSE i
<1>1. Begins(b, k) = IF b[k] = Lf /\ back(k) > 1 /\ b[back(k) - 1] = Lf THEN back(back(k) - 1) ELSE 0
  BY DEF Begins
<1>2. \A i \in Nat \ {0} : back(i) \in 1 .. i
  OBVIOUS
<1>. HIDE DEF back
<1>3. back(k) \in 1 .. k
  BY <1>2
<1>4. CASE back(k) > 1
  <2>1. back(k) - 1 \in Nat \ {0}
    BY <1>3, <1>4
  <2>2. back(back(k) - 1) \in 1 .. back(k) - 1
    BY <1>2, <2>1
  <2>. QED
    BY <1>1, <1>3, <2>2
<1>5. CASE ~(back(k) > 1)
  BY <1>1, <1>5
<1>. QED
  BY <1>4, <1>5

\* In a body the empty lines end where the frames do.
LEMMA BeginsOfBody ==
  ASSUME FramesTyped, NEW P, IsBody(P), NEW w \in 0 .. Len(frames), NEW n \in 1 .. Len(frames), w < n,
         NEW r \in Nat, Reach(w) <= r, r <= Len(P),
         NEW k \in Nat, Reach(n - 1) < Reach(w) + k, Reach(w) + k <= Reach(n), Reach(w) + k <= r
  PROVE  Begins(SubSeq(P, Reach(w) + 1, r), k) =
           IF Reach(w) + k = Reach(n) THEN k - 2 * Len(eol) + 1 ELSE 0
<1>. DEFINE a == Reach(w)
            c == Reach(n - 1)
            e == a + k
            d == c - a
            p == e - c
            b == SubSeq(P, a + 1, r)
            s == SubSeq(P, c + 1, e)
            z == 2 * Len(eol)
            W == Len(Sent(n))
<1>1. n \in DOMAIN frames /\ a \in Nat /\ c \in Nat /\ Reach(n) = c + W /\ W \in Nat /\ a <= c /\ n - 1 \in 0 .. Len(frames)
  <2>1. n - 1 \in 0 .. Len(frames) /\ (w < n - 1 \/ w = n - 1) /\ n \in DOMAIN frames
    BY ReachSteps
  <2>2. a \in Nat /\ c \in Nat /\ Reach(n) = c + W /\ W \in Nat
    BY <2>1, ReachSteps
  <2>3. w < n - 1 => a < c
    BY <2>1, ReachGrows
  <2>. QED
    BY <2>1, <2>2, <2>3
<1>2. P \in Seq(Tags) /\ Len(P) \in Nat
  BY DEF IsBody
<1>3. z \in Nat /\ c + z <= Reach(n)
  <2>1. n \in DOMAIN frames /\ FramesTyped
    BY <1>1
  <2>2. /\ Lines(n) \in Nat \ {0} /\ eol \in {<<Lf>>, <<Cr, Lf>>}
        /\ eol = <<Lf>> => W = 2 * Lines(n) + 1
        /\ eol = <<Cr, Lf>> => W = 3 * Lines(n) + 2
    BY <2>1, SentShape DEF FramesTyped, Eols
  <2>. DEFINE L == Lines(n)
  <2>. HIDE DEF L, W, c
  <2>3. CASE eol = <<Lf>>
    <3>1. Len(eol) = 1
      BY <2>3
    <3>2. W = 2 * L + 1 /\ L \in Nat \ {0}
      BY <2>2, <2>3 DEF L
    <3>. QED
      BY <1>1, <3>1, <3>2
  <2>4. CASE eol = <<Cr, Lf>>
    <3>1. Len(eol) = 2
      BY <2>4
    <3>2. W = 3 * L + 2 /\ L \in Nat \ {0}
      BY <2>2, <2>4 DEF L
    <3>. QED
      BY <1>1, <3>1, <3>2
  <2>. QED
    BY <2>2, <2>3, <2>4
<1>4. /\ e \in Nat /\ c < e /\ e <= Reach(n) /\ e <= r /\ a <= r /\ e \in Reach(n - 1) .. Reach(n) /\ e <= Len(P)
      /\ d \in Nat /\ p \in Nat \ {0} /\ d + p = k /\ p <= W
  <2>1. c < e /\ e <= Reach(n) /\ e <= r /\ a <= r
    OBVIOUS
  <2>. HIDE DEF a, c, W
  <2>. QED
    BY <1>1, <1>2, <2>1 DEF c
<1>5. Piece(s, n)
  <2>. HIDE DEF e
  <2>1. n \in 1 .. Len(frames) /\ FramesTyped /\ IsBody(P)
    OBVIOUS
  <2>2. Piece(SubSeq(P, Reach(n - 1) + 1, e), n)
    BY <1>4, <2>1, PieceOfBody
  <2>. QED
    BY <2>2
<1>. HIDE DEF a, c, e, d, p, z, W
<1>6. /\ s \in Seq(Tags) /\ Len(s) = p /\ \A i \in 1 .. p : s[i] = P[c + i]
  <2>1. c \in 0 .. Len(P) /\ e \in c .. Len(P) /\ e - c = p
    BY <1>1, <1>2, <1>4 DEF p
  <2>. QED
    BY <1>2, <2>1, PartOf
<1>7. b \in Seq(Tags) /\ \A i \in 1 .. r - a : b[i] = P[a + i]
  <2>1. a \in 0 .. Len(P) /\ r \in a .. Len(P)
    BY <1>1, <1>2, <1>4
  <2>. QED
    BY <1>2, <2>1, PartOf
<1>. HIDE DEF s, b
<1>8. \A i \in 1 .. p : b[d + i] = s[i]
  <2>. SUFFICES ASSUME NEW i \in 1 .. p PROVE b[d + i] = s[i]
    OBVIOUS
  <2>1. d + i \in 1 .. r - a /\ a + (d + i) = c + i
    BY <1>1, <1>4 DEF d, p, e
  <2>. QED
    BY <1>6, <1>7, <2>1
<1>9. s[1] \notin {Cr, Lf}
  <2>1. s # <<>>
    BY <1>4, <1>6
  <2>. QED
    BY <1>1, <1>5, <2>1, PieceShape
<1>10. Begins(b, d + p) = IF Begins(s, p) = 0 THEN 0 ELSE d + Begins(s, p)
  <2>1. d \in Nat /\ p \in Nat \ {0} /\ Has(b, d, s, p)
    BY <1>4, <1>8, <1>9 DEF Has
  <2>. QED
    BY ONLY <2>1, BeginsWithin
<1>11. Begins(s, p) = IF p = W THEN W - z + 1 ELSE 0
  <2>1. p \in 1 .. Len(s) /\ n \in DOMAIN frames /\ FramesTyped /\ Piece(s, n)
    BY <1>1, <1>4, <1>5, <1>6
  <2>2. Begins(s, p) = IF p = Len(Sent(n)) THEN Len(Sent(n)) - 2 * Len(eol) + 1 ELSE 0
    BY <2>1, BeginsOfPiece
  <2>. QED
    BY <2>2 DEF W, z
<1>12. p = W <=> a + k = Reach(n)
  BY <1>1, <1>4 DEF p, e, d
<1>13. p = W => W - z + 1 # 0 /\ d + (W - z + 1) = k - z + 1
  BY <1>1, <1>3, <1>4
<1>. QED
  <2>1. Begins(b, k) = IF a + k = Reach(n) THEN k - z + 1 ELSE 0
    BY <1>4, <1>10, <1>11, <1>12, <1>13
  <2>. QED
    BY <2>1 DEF b, a, z

\* What split() has made of the first places.
Slices == [blocks : Seq(Seq(Tags)), from : Nat \ {0}]
LEMMA CutAtTyped ==
  ASSUME NEW b \in Seq(Tags), NEW acc \in Slices, NEW k \in 1 .. Len(b)
  PROVE  CutAt(b, acc, k) \in Slices
<1>. DEFINE z == Begins(b, k)
            x == acc.from
<1>1. k \in Nat \ {0} /\ Len(b) \in Nat /\ k <= Len(b)
  OBVIOUS
<1>2. z \in 0 .. k
  BY <1>1, BeginsBound
<1>3. acc.blocks \in Seq(Seq(Tags)) /\ x \in Nat \ {0}
  BY DEF Slices
<1>. HIDE DEF z, x
<1>4. CASE z < x
  BY <1>4 DEF CutAt, z, x
<1>5. CASE ~(z < x)
  <2>1. SubSeq(b, x, z - 1) \in Seq(Tags)
    <3>1. x - 1 \in 0 .. Len(b) /\ z - 1 \in x - 1 .. Len(b) /\ (x - 1) + 1 = x
      BY <1>1, <1>2, <1>3, <1>5
    <3>2. SubSeq(b, (x - 1) + 1, z - 1) \in Seq(Tags)
      BY ONLY <3>1, b \in Seq(Tags), PartOf
    <3>. QED
      BY <3>1, <3>2
  <2>. DEFINE D == Seq(Tags)
              u == SubSeq(b, x, z - 1)
  <2>2. CutAt(b, acc, k) = [blocks |-> Append(acc.blocks, u), from |-> k + 1]
    BY <1>5 DEF CutAt, z, x
  <2>. HIDE DEF D, u
  <2>3. u \in D /\ acc.blocks \in Seq(D)
    BY <1>3, <2>1 DEF D, u
  <2>4. Append(acc.blocks, u) \in Seq(D) /\ k + 1 \in Nat \ {0}
    BY <1>1, <2>3
  <2>. QED
    BY <2>2, <2>4 DEF Slices, D
<1>. QED
  BY <1>4, <1>5

\* The places are gone through one by one.
LEMMA SplitSteps ==
  ASSUME NEW b \in Seq(Tags)
  PROVE  \E h \in [0 .. Len(b) -> Slices] :
           /\ h[0] = [blocks |-> <<>>, from |-> 1]
           /\ Split(b) = Append(h[Len(b)].blocks, SubSeq(b, h[Len(b)].from, Len(b)))
           /\ \A k \in 1 .. Len(b) : h[k] = CutAt(b, h[k - 1], k)
<1>. DEFINE N == Len(b)
            D == Slices
            x == [blocks |-> <<>>, from |-> 1]
            g == [n \in 1 .. N |-> [y \in D |-> CutAt(b, y, n)]]
            Is(h) == h = [n \in 0 .. N |-> IF n = 0 THEN x ELSE CutAt(b, h[n - 1], n)]
            cut == CHOOSE h : Is(h)
<1>1. N \in Nat /\ x \in D
  <2>1. <<>> \in Seq(Seq(Tags)) /\ 1 \in Nat \ {0}
    OBVIOUS
  <2>. QED
    BY <2>1 DEF Slices
<1>2. \A n \in 1 .. N, y \in D : CutAt(b, y, n) \in D
  BY CutAtTyped
<1>. HIDE DEF x
<1>3. g \in [1 .. N -> [D -> D]]
  BY <1>2
<1>4. PICK h \in [0 .. N -> D] : h[0] = x /\ \A n \in 1 .. N : h[n] = g[n][h[n - 1]]
  <2>. HIDE DEF N, D, g
  <2>1. \E h \in [0 .. N -> D] : Recurs(h, N, x, g)
    BY <1>1, <1>3, Recursion
  <2>. QED
    BY <2>1 DEF Recurs
<1>5. ASSUME NEW n \in 1 .. N PROVE n - 1 \in 0 .. N /\ h[n] = CutAt(b, h[n - 1], n)
  <2>1. n - 1 \in 0 .. N
    BY <1>1
  <2>2. h[n - 1] \in D
    BY <1>4, <2>1
  <2>3. h[n] = g[n][h[n - 1]] /\ g[n] = [y \in D |-> CutAt(b, y, n)]
    BY <1>4
  <2>. HIDE DEF D, N, g
  <2>. QED
    BY <2>1, <2>2, <2>3
<1>6. Is(h)
  BY <1>1, <1>4, <1>5
<1>7. Is(cut)
  <2>. HIDE DEF Is
  <2>. QED
    BY <1>6
<1>8. Split(b) = Append(cut[N].blocks, SubSeq(b, cut[N].from, N))
  BY DEF Split, x
<1>. HIDE DEF cut
<1>9. cut[0] = x /\ \A n \in 1 .. N : cut[n] = CutAt(b, cut[n - 1], n)
  BY <1>1, <1>7
<1>. DEFINE T == {n \in Nat : n <= N => cut[n] \in D}
<1>10. Nat \subseteq T
  <2>. HIDE DEF D, N
  <2>1. 0 \in T
    BY <1>1, <1>9
  <2>2. ASSUME NEW n \in Nat, n \in T PROVE n + 1 \in T
    BY <1>1, <1>2, <1>9, <2>2
  <2>. HIDE DEF T
  <2>. QED
    BY <2>1, <2>2, Induction
<1>11. \A n \in 0 .. N : cut[n] \in D
  BY <1>1, <1>10
<1>12. cut \in [0 .. N -> D]
  BY <1>7, <1>11
<1>. QED
  BY <1>8, <1>9, <1>12 DEF x

\* The blocks of the frames after the wth and up to the mth.
Between(w, m) == [i \in 1 .. m - w |-> BlockOf(w + i)]
LEMMA BetweenGrows ==
  ASSUME FramesTyped, NEW w \in 0 .. Len(frames), NEW m \in w .. Len(frames)
  PROVE  /\ Between(w, m) \in Seq(Seq(Tags)) /\ Len(Between(w, m)) = m - w
         /\ Between(w, w) = <<>>
         /\ m < Len(frames) => Between(w, m + 1) = Append(Between(w, m), BlockOf(m + 1))
<1>. DEFINE N == Len(frames)
            D == Seq(Tags)
<1>1. N \in Nat /\ DOMAIN frames = 1 .. N
  BY ReachSteps
<1>2. \A n \in 1 .. N : BlockOf(n) \in D
  BY <1>1, BlockOfFrame
<1>. HIDE DEF N, D
<1>3. w \in Nat /\ m \in Nat /\ w <= m /\ m <= N
  BY <1>1 DEF N
<1>4. ASSUME NEW n \in w .. N
      PROVE  /\ Between(w, n) \in Seq(D) /\ Len(Between(w, n)) = n - w
             /\ \A i \in 1 .. n - w : Between(w, n)[i] = BlockOf(w + i)
  <2>1. n - w \in Nat /\ \A i \in 1 .. n - w : w + i \in 1 .. N
    BY <1>1, <1>3
  <2>2. \A i \in 1 .. n - w : BlockOf(w + i) \in D
    BY <1>2, <2>1
  <2>. QED
    BY <2>1, <2>2 DEF Between
<1>5. m \in w .. N /\ w \in w .. N
  BY <1>1, <1>3
<1>6. Between(w, w) = <<>>
  <2>1. Between(w, w) \in Seq(D) /\ Len(Between(w, w)) = w - w
    BY <1>4, <1>5
  <2>. QED
    BY <1>3, <2>1
<1>7. ASSUME m < N PROVE Between(w, m + 1) = Append(Between(w, m), BlockOf(m + 1))
  <2>. DEFINE s == Between(w, m)
              t == Between(w, m + 1)
              v == BlockOf(m + 1)
              L == m - w
  <2>1. m + 1 \in w .. N /\ m + 1 \in 1 .. N /\ L \in Nat /\ (m + 1) - w = L + 1 /\ w + (L + 1) = m + 1
    BY <1>1, <1>3, <1>7
  <2>2. v \in D
    BY <1>2, <2>1
  <2>3. s \in Seq(D) /\ Len(s) = L /\ \A i \in 1 .. L : s[i] = BlockOf(w + i)
    BY <1>4, <1>5
  <2>4. t \in Seq(D) /\ Len(t) = L + 1 /\ \A i \in 1 .. L + 1 : t[i] = BlockOf(w + i)
    BY <1>4, <2>1
  <2>5. L + 1 \in 1 .. L + 1 /\ t[L + 1] = v
    BY <2>1, <2>4
  <2>. HIDE DEF s, t, v, L
  <2>6. /\ Append(s, v) \in Seq(D) /\ Len(Append(s, v)) = L + 1
        /\ \A i \in 1 .. L + 1 : Append(s, v)[i] = IF i = L + 1 THEN v ELSE s[i]
    BY <2>1, <2>2, <2>3
  <2>7. ASSUME NEW i \in 1 .. L + 1 PROVE t[i] = Append(s, v)[i]
    <3>1. i # L + 1 => i \in 1 .. L
      BY <2>1
    <3>. QED
      BY <2>3, <2>4, <2>5, <2>6, <3>1
  <2>8. t = Append(s, v)
    BY <2>4, <2>6, <2>7, SameList
  <2>. QED
    BY <2>8 DEF s, t, v
<1>. QED
  BY <1>4, <1>5, <1>6, <1>7 DEF N, D

\* At one place of the body one number of frames has passed.
LEMMA PassedOnce ==
  ASSUME FramesTyped, NEW r \in Nat, NEW m, NEW n, Passed(r, m), Passed(r, n)
  PROVE  m = n
  BY PassedIsOne

\* One step of split(): at the end of a frame its block is cut off, elsewhere nothing is.
LEMMA CutsAtFrames ==
  ASSUME FramesTyped, NEW P, IsBody(P), NEW w \in 0 .. Len(frames),
         NEW r \in Nat, Reach(w) <= r, r <= Len(P),
         NEW k \in Nat, Reach(w) + k + 1 <= r,
         NEW m \in w .. Len(frames), Passed(Reach(w) + k, m),
         NEW acc, acc = [blocks |-> Between(w, m), from |-> Reach(m) - Reach(w) + 1]
  PROVE  \E l \in w .. Len(frames) :
            /\ Passed(Reach(w) + (k + 1), l)
            /\ CutAt(SubSeq(P, Reach(w) + 1, r), acc, k + 1)
                 = [blocks |-> Between(w, l), from |-> Reach(l) - Reach(w) + 1]
<1>. DEFINE N == Len(frames)
            a == Reach(w)
            n == m + 1
            c == Reach(m)
            e == Reach(n)
            z == 2 * Len(eol)
            b == SubSeq(P, a + 1, r)
            o == Begins(b, k + 1)
<1>1. /\ N \in Nat /\ DOMAIN frames = 1 .. N /\ \A i \in 0 .. N : Reach(i) \in Nat
      /\ Len(Body) = Reach(N)
  BY ReachSteps
<1>. HIDE DEF N
<1>2. P \in Seq(Tags) /\ Len(P) \in Nat /\ Len(P) <= Reach(N)
  BY <1>1 DEF IsBody
<1>3. /\ w \in Nat /\ w <= N /\ m \in Nat /\ w <= m /\ m <= N /\ m \in 0 .. N /\ a \in Nat /\ c \in Nat
      /\ a + k + 1 <= r /\ a <= r /\ r <= Len(P) /\ a + (k + 1) = a + k + 1
  <2>1. w \in 0 .. N /\ m \in w .. N
    BY DEF N
  <2>2. w \in Nat /\ w <= N /\ m \in Nat /\ w <= m /\ m <= N /\ m \in 0 .. N
    BY <1>1, <2>1
  <2>3. a \in Nat /\ c \in Nat
    BY <1>1, <2>1, <2>2
  <2>. HIDE DEF a, c
  <2>4. a + (k + 1) = a + k + 1
    BY <2>3
  <2>. QED
    BY <2>2, <2>3, <2>4 DEF a
<1>4. c <= a + k /\ (m < N => a + k < e)
  BY DEF Passed, N
<1>5. m < N
  <2>1. CASE m = N
    <3>1. Reach(N) <= a + k
      BY <1>4, <2>1
    <3>. QED
      BY <1>1, <1>2, <1>3, <3>1
  <2>. QED
    BY <1>1, <1>3, <2>1
<1>6. /\ n \in 1 .. N /\ n \in 0 .. N /\ n - 1 = m /\ w < n /\ e \in Nat /\ n \in w .. N /\ n \in Nat /\ m \in w .. N
      /\ (w < m \/ w = m)
  <2>1. n \in 1 .. N /\ n \in 0 .. N /\ n - 1 = m /\ w < n /\ n \in w .. N /\ n \in Nat /\ m \in w .. N /\ (w < m \/ w = m)
    BY <1>1, <1>3, <1>5
  <2>. QED
    BY <1>1, <2>1
<1>7. a <= c
  <2>1. w < m => a < c
    BY <1>3, ReachGrows DEF N
  <2>. HIDE DEF a, c
  <2>2. CASE w < m
    BY <1>3, <2>1, <2>2
  <2>3. CASE w = m
    BY <1>3, <2>3 DEF a, c
  <2>. QED
    BY <1>6, <2>2, <2>3
<1>. HIDE DEF n, e
<1>8. o = IF a + (k + 1) = e THEN (k + 1) - z + 1 ELSE 0
  <2>. DEFINE j == k + 1
  <2>1. j \in Nat /\ Reach(n - 1) < Reach(w) + j /\ Reach(w) + j <= Reach(n) /\ Reach(w) + j <= r
    <3>1. j \in Nat /\ c < a + j /\ a + j <= e /\ a + j <= r
      <4>. HIDE DEF a, c
      <4>. QED
        BY <1>3, <1>4, <1>5, <1>6
    <3>. QED
      BY <1>6, <3>1 DEF e
  <2>. HIDE DEF j
  <2>2. n \in 1 .. Len(frames)
    BY <1>6 DEF N
  <2>3. Begins(SubSeq(P, Reach(w) + 1, r), j) = IF Reach(w) + j = Reach(n) THEN j - 2 * Len(eol) + 1 ELSE 0
    BY <1>6, <2>1, <2>2, BeginsOfBody
  <2>. QED
    BY <2>3 DEF j, e
<1>9. CASE a + (k + 1) = e
  <2>1. Passed(a + (k + 1), n)
    <3>1. n < N => e < Reach(n + 1)
      <4>1. n < N => n + 1 \in 0 .. N /\ n < n + 1
        BY <1>1, <1>6
      <4>. QED
        BY <1>6, <4>1, ReachGrows DEF e, N
    <3>. QED
      BY <1>1, <1>6, <1>9, <3>1 DEF Passed, N, e
  <2>2. /\ SubSeq(P, c + 1, e - z) = BlockOf(n) /\ Len(eol) \in {1, 2} /\ c + z <= e
    <3>1. Reach(n) <= Len(P) /\ n \in 1 .. Len(frames)
      BY <1>3, <1>6, <1>9 DEF N, e
    <3>. QED
      BY <1>6, <3>1, BlockOfBody DEF e
  <2>3. z \in Nat
    BY <2>2
  <2>. HIDE DEF a, c, z, o
  <2>4. ~(o < c - a + 1) /\ o - 1 = e - z - a /\ (k + 1) + 1 = e - a + 1
    BY <1>3, <1>6, <1>8, <1>9, <2>2, <2>3
  <2>5. SubSeq(b, c - a + 1, e - z - a) = SubSeq(P, c + 1, e - z)
    <3>. DEFINE x == c - a
                y == e - z - a
    <3>1. /\ a \in 0 .. Len(P) /\ r \in a .. Len(P) /\ x \in 0 .. r - a /\ y \in x .. r - a
          /\ a + x + 1 = c + 1 /\ a + y = e - z
      BY <1>2, <1>3, <1>6, <1>7, <1>9, <2>2, <2>3
    <3>. HIDE DEF x, y
    <3>2. SubSeq(SubSeq(P, a + 1, r), x + 1, y) = SubSeq(P, a + x + 1, a + y)
      BY <1>2, <3>1, PartOfPart
    <3>. QED
      BY <3>1, <3>2 DEF x, y
  <2>6. acc.from = c - a + 1 /\ acc.blocks = Between(w, m)
    BY DEF a, c
  <2>. HIDE DEF b
  <2>7. CutAt(b, acc, k + 1) = [blocks |-> Append(Between(w, m), BlockOf(n)), from |-> e - a + 1]
    BY <2>2, <2>4, <2>5, <2>6 DEF CutAt, o
  <2>8. Between(w, n) = Append(Between(w, m), BlockOf(n))
    BY <1>5, <1>6, BetweenGrows DEF n, N
  <2>. QED
    BY <1>6, <2>1, <2>7, <2>8 DEF N, a, e, b
<1>10. CASE a + (k + 1) # e
  <2>1. a + (k + 1) < e /\ c <= a + (k + 1)
    <3>. HIDE DEF a, c
    <3>. QED
      BY <1>3, <1>4, <1>5, <1>6, <1>10
  <2>2. Passed(a + (k + 1), m)
    BY <1>3, <1>6, <2>1 DEF Passed, N, e, n
  <2>3. acc.from = c - a + 1
    OBVIOUS
  <2>4. o < c - a + 1
    <3>. HIDE DEF a, c, o
    <3>. QED
      BY <1>3, <1>7, <1>8, <1>10
  <2>5. CutAt(b, acc, k + 1) = acc
    <3>. HIDE DEF b, a, c
    <3>. QED
      BY <2>3, <2>4 DEF CutAt, o
  <2>. QED
    BY <1>6, <2>2, <2>5 DEF N
<1>. QED
  BY <1>9, <1>10

\* split() cuts what was read of a body into the blocks of the frames that have passed, and
\* leaves the rest.
LEMMA SplitFrames ==
  ASSUME FramesTyped, NEW P, IsBody(P), NEW w \in 0 .. Len(frames),
         NEW r \in Nat, Reach(w) <= r, r <= Len(P), NEW m, Passed(r, m)
  PROVE  /\ m \in w .. Len(frames)
         /\ Split(SubSeq(P, Reach(w) + 1, r)) = Append(Between(w, m), SubSeq(P, Reach(m) + 1, r))
<1>. DEFINE N == Len(frames)
            a == Reach(w)
            b == SubSeq(P, a + 1, r)
            W == r - a
            State(l) == [blocks |-> Between(w, l), from |-> Reach(l) - Reach(w) + 1]
<1>1. N \in Nat /\ \A i \in 0 .. N : Reach(i) \in Nat
  BY ReachSteps
<1>. HIDE DEF N
<1>2. P \in Seq(Tags) /\ Len(P) \in Nat
  BY DEF IsBody
<1>3. w \in Nat /\ w <= N /\ a \in Nat /\ a <= r /\ W \in Nat /\ a \in 0 .. Len(P) /\ r \in a .. Len(P) /\ a + W = r
  <2>1. w \in 0 .. N
    BY DEF N
  <2>2. a \in Nat
    BY <1>1, <2>1
  <2>3. a <= r
    OBVIOUS
  <2>. HIDE DEF a
  <2>. QED
    BY <1>1, <1>2, <2>1, <2>2, <2>3
<1>4. b \in Seq(Tags) /\ Len(b) = W
  <2>. HIDE DEF a
  <2>. QED
    BY <1>2, <1>3, PartOf
<1>. HIDE DEF b, W
<1>5. PICK h \in [0 .. W -> Slices] :
           /\ h[0] = [blocks |-> <<>>, from |-> 1]
           /\ Split(b) = Append(h[W].blocks, SubSeq(b, h[W].from, W))
           /\ \A k \in 1 .. W : h[k] = CutAt(b, h[k - 1], k)
  BY <1>4, SplitSteps
<1>. DEFINE T == {k \in Nat : k <= W => \E l \in w .. N : Passed(Reach(w) + k, l) /\ h[k] = State(l)}
<1>6. 0 \in T
  <2>1. w \in w .. N /\ a + 0 = a /\ a - a + 1 = 1
    <3>. HIDE DEF a
    <3>. QED
      BY <1>1, <1>3
  <2>2. Passed(a + 0, w)
    <3>1. w < N => w + 1 \in 0 .. N /\ w < w + 1
      BY <1>1, <1>3
    <3>2. w < N => Reach(w) < Reach(w + 1)
      BY <3>1, ReachGrows DEF N
    <3>. QED
      BY <1>3, <2>1, <3>2 DEF Passed, N
  <2>3. Between(w, w) = <<>>
    BY <2>1, BetweenGrows DEF N
  <2>4. h[0] = State(w)
    BY <1>5, <2>1, <2>3
  <2>. QED
    BY <2>1, <2>2, <2>4
<1>7. ASSUME NEW k \in Nat, k \in T PROVE k + 1 \in T
  <2>1. ASSUME k + 1 <= W PROVE \E l \in w .. N : Passed(Reach(w) + (k + 1), l) /\ h[k + 1] = State(l)
    <3>1. k <= W /\ k + 1 \in 1 .. W /\ (k + 1) - 1 = k
      BY <1>3, <2>1
    <3>2. Reach(w) + k + 1 <= r
      <4>1. a + k + 1 <= r
        <5>. HIDE DEF a
        <5>. QED
          BY <1>3, <2>1
      <4>. QED
        BY <4>1
    <3>3. PICK l \in w .. N : Passed(Reach(w) + k, l) /\ h[k] = State(l)
      BY <1>7, <3>1
    <3>4. h[k + 1] = CutAt(b, h[k], k + 1)
      BY <1>5, <3>1
    <3>. HIDE DEF State
    <3>5. l \in w .. Len(frames)
      BY DEF N
    <3>6. \E j \in w .. Len(frames) :
            /\ Passed(Reach(w) + (k + 1), j)
            /\ CutAt(SubSeq(P, Reach(w) + 1, r), h[k], k + 1)
                 = [blocks |-> Between(w, j), from |-> Reach(j) - Reach(w) + 1]
      <4>1. h[k] = [blocks |-> Between(w, l), from |-> Reach(l) - Reach(w) + 1]
        BY <3>3 DEF State
      <4>. QED
        BY <3>2, <3>3, <3>5, <4>1, CutsAtFrames
    <3>. QED
      BY <3>4, <3>6 DEF State, b, N
  <2>. HIDE DEF State
  <2>. QED
    BY <2>1
<1>8. PICK l \in w .. N : Passed(a + W, l) /\ h[W] = State(l)
  <2>1. Nat \subseteq T
    <3>. HIDE DEF T
    <3>. QED
      BY <1>6, <1>7, Induction
  <2>2. W \in T /\ W <= W
    <3>. HIDE DEF T
    <3>. QED
      BY <1>3, <2>1
  <2>. HIDE DEF State
  <2>. QED
    BY <2>2
<1>9. l = m
  <2>1. Passed(r, l)
    BY <1>3, <1>8
  <2>. QED
    BY <2>1, PassedOnce
<1>10. /\ h[W].blocks = Between(w, m) /\ h[W].from = Reach(m) - a + 1
  BY <1>8, <1>9
<1>11. SubSeq(b, Reach(m) - a + 1, W) = SubSeq(P, Reach(m) + 1, r)
  <2>. DEFINE c == Reach(m)
              x == c - a
  <2>1. c \in Nat /\ c <= r /\ a <= c
    <3>1. m \in w .. N /\ m \in 0 .. N /\ (w = m \/ w < m)
      BY <1>1, <1>3, <1>8, <1>9
    <3>2. w < m => a < c
      BY <1>3, <3>1, ReachGrows DEF N
    <3>3. c \in Nat /\ c <= r
      BY <1>1, <3>1 DEF Passed
    <3>4. w = m => a = c
      OBVIOUS
    <3>. HIDE DEF a, c
    <3>. QED
      BY <1>3, <3>1, <3>2, <3>3, <3>4
  <2>. HIDE DEF a, c
  <2>2. x \in 0 .. r - a /\ W \in x .. r - a /\ a + x + 1 = c + 1
    BY <1>3, <2>1
  <2>. HIDE DEF x
  <2>3. SubSeq(SubSeq(P, a + 1, r), x + 1, W) = SubSeq(P, a + x + 1, a + W)
    BY <1>2, <1>3, <2>2, PartOfPart
  <2>. QED
    BY <1>3, <2>2, <2>3 DEF b, c, x
<1>. QED
  BY <1>5, <1>8, <1>9, <1>10, <1>11 DEF b, N

\* What is handed on of frames.
Handed == [of : 1 .. Len(frames), malformed : BOOLEAN]
DueUpto(m) == FlattenSeq([n \in 1 .. m |-> Due(n)])
LEMMA DueTyped ==
  ASSUME FramesTyped
  PROVE  /\ \A n \in 1 .. Len(frames) : Due(n) \in Seq(Handed)
         /\ \A m \in 0 .. Len(frames) : [n \in 1 .. m |-> Due(n)] \in Seq(Seq(Handed)) /\ DueUpto(m) \in Seq(Handed)
         /\ DueUpto(0) = <<>>
<1>. DEFINE N == Len(frames)
            D == Seq(Handed)
<1>1. N \in Nat
  BY ReachSteps
<1>. HIDE DEF N
<1>2. ASSUME NEW n \in 1 .. N PROVE Due(n) \in D
  <2>. DEFINE junk == "json" \notin Range(frames[n])
              e == [of |-> n, malformed |-> junk]
  <2>1. e \in Handed
    <3>1. CASE junk
      <4>1. e = [of |-> n, malformed |-> TRUE]
        BY <3>1
      <4>. HIDE DEF e
      <4>. QED
        BY <4>1 DEF Handed, N
    <3>2. CASE ~junk
      <4>1. e = [of |-> n, malformed |-> FALSE]
        BY <3>2
      <4>. HIDE DEF e
      <4>. QED
        BY <4>1 DEF Handed, N
    <3>. QED
      BY <3>1, <3>2
  <2>2. Due(n) = <<>> \/ Due(n) = <<e>>
    BY DEF Due
  <2>3. <<>> \in D /\ \A v \in Handed : <<v>> \in D
    OBVIOUS
  <2>. HIDE DEF e, D
  <2>4. <<e>> \in D
    BY <2>1, <2>3
  <2>. QED
    BY <2>2, <2>3, <2>4
<1>. HIDE DEF D
<1>3. ASSUME NEW m \in 0 .. N PROVE [n \in 1 .. m |-> Due(n)] \in Seq(D)
  <2>1. m \in Nat /\ \A n \in 1 .. m : Due(n) \in D
    BY <1>1, <1>2
  <2>. QED
    BY <2>1
<1>4. ASSUME NEW m \in 0 .. N PROVE DueUpto(m) \in Seq(Handed)
  <2>1. [n \in 1 .. m |-> Due(n)] \in Seq(Seq(Handed))
    BY <1>3 DEF D
  <2>. QED
    BY <2>1, FlattenTyped DEF DueUpto
<1>5. DueUpto(0) = <<>>
  <2>1. [n \in 1 .. 0 |-> Due(n)] = <<>>
    OBVIOUS
  <2>. QED
    BY <2>1, FlattenNone DEF DueUpto
<1>. QED
  BY <1>2, <1>3, <1>4, <1>5 DEF N, D

\* Parsing the blocks of the frames between hands on what is due of them.
LEMMA BetweenParsed ==
  ASSUME FramesTyped, NEW w \in 0 .. Len(frames), NEW m \in w .. Len(frames)
  PROVE  DueUpto(w) \o Parsed(Between(w, m)) = DueUpto(m)
<1>. DEFINE N == Len(frames)
            D == Seq(Handed)
            L == m - w
            s == [n \in 1 .. w |-> Due(n)]
            t == [i \in 1 .. L |-> Due(w + i)]
            u == [n \in 1 .. m |-> Due(n)]
<1>1. N \in Nat /\ DOMAIN frames = 1 .. N
  BY ReachSteps
<1>2. \A n \in 1 .. N : Due(n) \in D
  BY DueTyped
<1>. HIDE DEF N, D
<1>3. w \in Nat /\ m \in Nat /\ w <= m /\ m <= N /\ L \in Nat /\ w + L = m
  <2>1. w \in 0 .. N /\ m \in w .. N
    BY DEF N
  <2>. QED
    BY <1>1, <2>1
<1>. HIDE DEF L
<1>4. \A i \in 1 .. L : w + i \in 1 .. N
  BY <1>1, <1>3
<1>5. s \in Seq(D) /\ Len(s) = w /\ \A i \in 1 .. w : s[i] = Due(i)
  <2>1. \A i \in 1 .. w : Due(i) \in D
    BY <1>1, <1>2, <1>3
  <2>. QED
    BY <1>3, <2>1
<1>6. t \in Seq(D) /\ Len(t) = L /\ \A i \in 1 .. L : t[i] = Due(w + i)
  <2>1. \A i \in 1 .. L : Due(w + i) \in D
    BY <1>2, <1>4
  <2>. QED
    BY <1>3, <2>1
<1>7. u \in Seq(D) /\ Len(u) = m /\ \A i \in 1 .. m : u[i] = Due(i)
  <2>1. \A i \in 1 .. m : Due(i) \in D
    BY <1>1, <1>2, <1>3
  <2>. QED
    BY <1>3, <2>1
<1>8. Parsed(Between(w, m)) = FlattenSeq(t)
  <2>1. /\ DOMAIN Between(w, m) = 1 .. L /\ \A i \in 1 .. L : Between(w, m)[i] = BlockOf(w + i)
    BY DEF Between, L
  <2>2. \A i \in 1 .. L : ParseSseBlock(Between(w, m)[i]) = Due(w + i)
    BY <1>1, <1>4, <2>1, FrameParsed
  <2>3. [i \in DOMAIN Between(w, m) |-> ParseSseBlock(Between(w, m)[i])] = t
    BY <2>1, <2>2
  <2>. HIDE DEF t
  <2>. QED
    BY <2>3 DEF Parsed
<1>. HIDE DEF s, t, u
<1>9. u = s \o t
  <2>1. /\ s \o t \in Seq(D) /\ Len(s \o t) = Len(s) + Len(t)
        /\ \A i \in 1 .. Len(s) + Len(t) : (s \o t)[i] = IF i <= Len(s) THEN s[i] ELSE t[i - Len(s)]
    BY <1>5, <1>6, Joining
  <2>2. \A i \in 1 .. m : u[i] = (s \o t)[i]
    <3>. SUFFICES ASSUME NEW i \in 1 .. m PROVE u[i] = (s \o t)[i]
      OBVIOUS
    <3>1. i \in 1 .. Len(s) + Len(t) /\ u[i] = Due(i)
      BY <1>3, <1>5, <1>6, <1>7
    <3>2. CASE i <= w
      <4>1. i \in 1 .. w /\ i <= Len(s)
        BY <1>5, <3>2
      <4>. QED
        BY <1>5, <2>1, <3>1, <4>1
    <3>3. CASE ~(i <= w)
      <4>1. i - w \in 1 .. L /\ w + (i - w) = i /\ ~(i <= Len(s)) /\ i - Len(s) = i - w
        BY <1>3, <1>5, <3>3
      <4>2. (s \o t)[i] = t[i - w]
        BY <2>1, <3>1, <4>1
      <4>. QED
        BY <1>6, <3>1, <4>1, <4>2
    <3>. QED
      BY <3>2, <3>3
  <2>3. Len(s \o t) = m
    BY <1>3, <1>5, <1>6, <2>1
  <2>. QED
    BY <1>7, <2>1, <2>2, <2>3, SameList
<1>10. FlattenSeq(u) = FlattenSeq(s) \o FlattenSeq(t)
  <2>1. s \in Seq(Seq(Handed)) /\ t \in Seq(Seq(Handed))
    BY <1>5, <1>6 DEF D
  <2>. QED
    BY <1>9, <2>1, FlattenJoined
<1>. QED
  BY <1>8, <1>10 DEF DueUpto, s, u

\* A chunk goes on where the buffer ends.
LEMMA PartsJoined ==
  ASSUME NEW S, NEW s \in Seq(S), NEW a \in 0 .. Len(s), NEW r \in a .. Len(s), NEW e \in r .. Len(s)
  PROVE  SubSeq(s, a + 1, r) \o SubSeq(s, r + 1, e) = SubSeq(s, a + 1, e)
<1>. DEFINE t == SubSeq(s, a + 1, r)
            u == SubSeq(s, r + 1, e)
            v == SubSeq(s, a + 1, e)
<1>1. r \in 0 .. Len(s) /\ e \in a .. Len(s)
  OBVIOUS
<1>2. t \in Seq(S) /\ Len(t) = r - a /\ \A i \in 1 .. r - a : t[i] = s[a + i]
  BY PartOf
<1>3. u \in Seq(S) /\ Len(u) = e - r /\ \A i \in 1 .. e - r : u[i] = s[r + i]
  BY <1>1, PartOf
<1>4. v \in Seq(S) /\ Len(v) = e - a /\ \A i \in 1 .. e - a : v[i] = s[a + i]
  BY <1>1, PartOf
<1>. HIDE DEF t, u, v
<1>5. /\ t \o u \in Seq(S) /\ Len(t \o u) = Len(t) + Len(u)
      /\ \A i \in 1 .. Len(t) + Len(u) : (t \o u)[i] = IF i <= Len(t) THEN t[i] ELSE u[i - Len(t)]
  BY <1>2, <1>3, Joining
<1>6. Len(t \o u) = e - a /\ Len(t) + Len(u) = e - a
  BY <1>2, <1>3, <1>5
<1>7. ASSUME NEW i \in 1 .. e - a PROVE (t \o u)[i] = v[i]
  <2>1. CASE i <= r - a
    <3>1. i \in 1 .. r - a /\ i <= Len(t)
      BY <1>2, <2>1
    <3>. QED
      BY <1>2, <1>4, <1>5, <1>6, <3>1
  <2>2. CASE ~(i <= r - a)
    <3>1. i - Len(t) \in 1 .. e - r /\ r + (i - Len(t)) = a + i /\ ~(i <= Len(t))
      BY <1>2, <2>2
    <3>2. (t \o u)[i] = u[i - Len(t)]
      BY <1>5, <1>6, <3>1
    <3>. QED
      BY <1>3, <1>4, <3>1, <3>2
  <2>. QED
    BY <2>1, <2>2
<1>8. t \o u = v
  BY <1>4, <1>5, <1>6, <1>7, SameList
<1>. QED
  BY <1>8 DEF t, u, v

\* How far the reader is: it has read the body P up to a place, the frames that end before it
\* were handed on as they are due, and the buffer has the rest.
HandedOn(w) ==
    \/ events = DueUpto(w)
    \/ /\ reading = "ended" /\ w + 1 \in DOMAIN frames
       /\ \E b \in BOOLEAN : events = DueUpto(w) \o <<[of |-> w + 1, malformed |-> b]>>
ReadUpto(P) ==
    LET at == length - Len(body) IN
    /\ IsBody(P) /\ length = Len(P) /\ at \in 0 .. length
    /\ body = SubSeq(P, at + 1, length)
    /\ \E w \in 0 .. Len(frames) :
          Passed(at, w) /\ buffer = SubSeq(P, Reach(w) + 1, at) /\ HandedOn(w)
FrameInv ==
    /\ FramesTyped /\ reader \in {"web", "terminal"} /\ reading \in {"on", "ended", "broken"}
    /\ \E P : ReadUpto(P)

FrameSpec == FrameInit /\ [][FrameNext]_<<frameVars, left>>

\* What is sent stays.
Stays == reader' = reader /\ frames' = frames /\ eol' = eol
LEMMA FramesStay ==
  ASSUME Stays
  PROVE  /\ FramesTyped' <=> FramesTyped
         /\ \A P : IsBody(P)' <=> IsBody(P)
         /\ \A r, m : Passed(r, m)' <=> Passed(r, m)
         /\ \A m : Reach(m)' = Reach(m) /\ DueUpto(m)' = DueUpto(m)
<1>1. frames' = frames /\ eol' = eol /\ reader' = reader
  BY DEF Stays
<1>2. \A n : Sent(n)' = Sent(n)
  BY <1>1 DEF Sent
<1>3. \A m : Reach(m)' = Reach(m)
  BY <1>2 DEF Reach
<1>4. Body' = Body
  BY <1>1, <1>2 DEF Body
<1>5. \A n : Due(n)' = Due(n)
  BY <1>1 DEF Due
<1>6. \A m : DueUpto(m)' = DueUpto(m)
  BY <1>5 DEF DueUpto
<1>7. FramesTyped' <=> FramesTyped
  BY <1>1 DEF FramesTyped
<1>8. \A P : IsBody(P)' <=> IsBody(P)
  BY <1>4 DEF IsBody
<1>9. \A r, m : Passed(r, m)' <=> Passed(r, m)
  BY <1>1, <1>3 DEF Passed
<1>. QED
  BY <1>3, <1>6, <1>7, <1>8, <1>9

\* At first nothing was read.
LEMMA FrameStarts ==
  ASSUME FrameInit
  PROVE  FrameInv
<1>1. FramesTyped
  <2>1. frames \in UNION {[1 .. m -> Shapes] : m \in 0 .. MaxFrames} /\ eol \in Eols
    BY DEF FrameInit, BoundedSeq, SeqOf
  <2>2. PICK m \in 0 .. MaxFrames : frames \in [1 .. m -> Shapes]
    BY <2>1
  <2>3. m \in Nat
    BY EventStreamAssumption
  <2>. QED
    BY <2>1, <2>2, <2>3 DEF FramesTyped
<1>2. /\ body \in Cuts(Body) /\ length = Len(body) /\ buffer = <<>> /\ events = <<>>
      /\ reader \in {"web", "terminal"} /\ reading \in {"on", "ended", "broken"}
  BY DEF FrameInit
<1>3. IsBody(body)
  BY <1>1, <1>2, CutsAreBodies
<1>4. /\ body \in Seq(Tags) /\ length \in Nat /\ length - Len(body) = 0 /\ 0 \in 0 .. length
      /\ body = SubSeq(body, 0 + 1, length) /\ <<>> = SubSeq(body, 0 + 1, 0)
  BY <1>2, <1>3 DEF IsBody
<1>5. Passed(0, 0) /\ Reach(0) = 0 /\ DueUpto(0) = <<>> /\ 0 \in 0 .. Len(frames)
  <2>1. Len(frames) \in Nat /\ Reach(0) = 0
    BY <1>1, ReachSteps
  <2>2. 0 \in 0 .. Len(frames) /\ (0 < Len(frames) => 0 + 1 \in 0 .. Len(frames) /\ 0 < 0 + 1)
    BY <2>1
  <2>3. 0 < Len(frames) => Reach(0) < Reach(0 + 1)
    BY <1>1, <2>2, ReachGrows
  <2>4. Passed(0, 0)
    BY <2>1, <2>2, <2>3 DEF Passed
  <2>. QED
    BY <1>1, <2>1, <2>2, <2>4, DueTyped
<1>6. HandedOn(0)
  BY <1>2, <1>5 DEF HandedOn
<1>7. ReadUpto(body)
  BY <1>2, <1>3, <1>4, <1>5, <1>6 DEF ReadUpto
<1>. QED
  BY <1>1, <1>2, <1>7 DEF FrameInv

\* A chunk: what was read of the body grows by it.
LEMMA ChunkKeeps ==
  ASSUME FrameInv, NEW n \in 1 .. Len(body), ReadChunk(n)
  PROVE  FrameInv'
<1>. DEFINE chunk == SubSeq(body, 1, n)
<1>0. PICK at, now : at = length - Len(body) /\ now = at + n
  OBVIOUS
<1>1. PICK P : ReadUpto(P)
  BY DEF FrameInv
<1>2. PICK w \in 0 .. Len(frames) : Passed(at, w) /\ buffer = SubSeq(P, Reach(w) + 1, at) /\ HandedOn(w)
  BY <1>0, <1>1 DEF ReadUpto
<1>3. /\ FramesTyped /\ IsBody(P) /\ P \in Seq(Tags) /\ length = Len(P) /\ at \in 0 .. length
      /\ body = SubSeq(P, at + 1, length) /\ Len(P) \in Nat
  BY <1>0, <1>1 DEF FrameInv, ReadUpto, IsBody
<1>4. Stays /\ reading = "on" /\ reading' = "on" /\ length' = length
  BY DEF ReadChunk, Stays
<1>5. events = DueUpto(w)
  BY <1>2, <1>4 DEF HandedOn
<1>6. Len(body) = length - at /\ body \in Seq(Tags)
  <2>1. at \in 0 .. Len(P) /\ Len(P) \in at .. Len(P)
    BY <1>3
  <2>. QED
    BY <1>3, <2>1, PartOf
<1>7. Len(body) \in Nat /\ n \in Nat /\ 1 <= n /\ n <= Len(body)
  BY <1>6
<1>8. now \in at .. Len(P) /\ now \in Nat /\ now - at = n /\ now - at \in 0 .. Len(P) - at
  <2>1. at \in 0 .. Len(P) /\ Len(P) \in Nat /\ n \in Nat /\ 1 <= n /\ n <= Len(P) - at /\ now = at + n
    BY <1>0, <1>3, <1>6, <1>7
  <2>. QED
    BY ONLY <2>1
<1>9. body' = SubSeq(P, now + 1, length) /\ Len(body') = length - now /\ length - Len(body') = now
  <2>. DEFINE x == Len(P) - at
  <2>1. body' = SubSeq(body, n + 1, x)
    BY <1>3, <1>6 DEF ReadChunk
  <2>2. /\ at \in 0 .. Len(P) /\ Len(P) \in at .. Len(P) /\ n \in 0 .. Len(P) - at /\ x \in n .. Len(P) - at
        /\ at + x = Len(P) /\ at + n + 1 = now + 1
    BY <1>0, <1>3, <1>7, <1>8
  <2>. HIDE DEF x
  <2>3. SubSeq(SubSeq(P, at + 1, Len(P)), n + 1, x) = SubSeq(P, at + n + 1, at + x)
    BY <1>3, <2>2, PartOfPart
  <2>4. body' = SubSeq(P, now + 1, length)
    BY <1>3, <2>1, <2>2, <2>3
  <2>5. now \in 0 .. Len(P) /\ Len(P) \in now .. Len(P)
    BY <1>3, <1>8
  <2>6. Len(body') = length - now
    BY <1>3, <2>4, <2>5, PartOf
  <2>. QED
    BY <1>3, <1>8, <2>4, <2>6
<1>10. chunk = SubSeq(P, at + 1, now)
  <2>1. /\ at \in 0 .. Len(P) /\ Len(P) \in at .. Len(P) /\ 0 \in 0 .. Len(P) - at /\ n \in 0 .. Len(P) - at
        /\ at + n = now /\ at + 0 + 1 = at + 1 /\ 0 + 1 = 1
    BY <1>0, <1>3, <1>7, <1>8
  <2>2. SubSeq(SubSeq(P, at + 1, Len(P)), 0 + 1, n) = SubSeq(P, at + 0 + 1, at + n)
    BY <1>3, <2>1, PartOfPart
  <2>. QED
    BY <1>3, <2>1, <2>2
<1>11. Reach(w) \in Nat /\ Reach(w) <= at
  BY <1>2, <1>3, ReachSteps DEF Passed
<1>12. buffer \o chunk = SubSeq(P, Reach(w) + 1, now)
  <2>. HIDE DEF chunk
  <2>1. Reach(w) \in 0 .. Len(P) /\ at \in Reach(w) .. Len(P) /\ now \in at .. Len(P)
    BY <1>3, <1>8, <1>11
  <2>2. SubSeq(P, Reach(w) + 1, at) \o SubSeq(P, at + 1, now) = SubSeq(P, Reach(w) + 1, now)
    BY <1>3, <2>1, PartsJoined
  <2>. QED
    BY <1>2, <1>10, <2>2
<1>. HIDE DEF chunk
<1>13. PICK m \in 0 .. Len(frames) : Passed(now, m)
  BY <1>3, <1>8, PassedIsOne
<1>. DEFINE rest == SubSeq(P, Reach(m) + 1, now)
            blocks == Split(buffer \o chunk)
<1>14. m \in w .. Len(frames) /\ blocks = Append(Between(w, m), rest)
  <2>1. Reach(w) <= now /\ now <= Len(P)
    BY <1>3, <1>8, <1>11
  <2>2. /\ m \in w .. Len(frames)
        /\ Split(SubSeq(P, Reach(w) + 1, now)) = Append(Between(w, m), SubSeq(P, Reach(m) + 1, now))
    BY <1>3, <1>8, <1>13, <2>1, SplitFrames
  <2>. QED
    BY <1>12, <2>2
<1>15. rest \in Seq(Tags)
  <2>1. Reach(m) \in 0 .. Len(P) /\ now \in Reach(m) .. Len(P)
    <3>1. Reach(m) \in Nat /\ Reach(m) <= now
      BY <1>3, <1>13, ReachSteps DEF Passed
    <3>. QED
      BY <1>3, <1>8, <3>1
  <2>. QED
    BY <1>3, <2>1, PartOf
<1>. HIDE DEF rest
<1>16. Last(blocks) = rest /\ Front(blocks) = Between(w, m)
  <2>. DEFINE D == Seq(Tags)
              s == Between(w, m)
  <2>1. s \in Seq(D)
    BY <1>3, <1>14, BetweenGrows
  <2>2. rest \in D
    BY <1>15
  <2>. HIDE DEF D, s, blocks
  <2>3. blocks = Append(s, rest)
    BY <1>14 DEF s
  <2>4. /\ blocks \in Seq(D) /\ Len(blocks) = Len(s) + 1 /\ blocks[Len(s) + 1] = rest
        /\ \A i \in 1 .. Len(s) : blocks[i] = s[i]
    BY <2>1, <2>2, <2>3
  <2>5. Last(blocks) = rest
    BY <2>4 DEF Last
  <2>6. Front(blocks) = s
    <3>1. Front(blocks) \in Seq(D) /\ Len(Front(blocks)) = Len(s) /\ \A i \in 1 .. Len(s) : Front(blocks)[i] = blocks[i]
      BY <2>1, <2>4 DEF Front
    <3>. QED
      BY <2>1, <2>4, <3>1, SameList
  <2>. QED
    BY <2>5, <2>6 DEF s
<1>17. buffer' = rest /\ events' = DueUpto(m)
  <2>1. buffer' = Last(blocks) /\ events' = events \o Parsed(Front(blocks))
    BY DEF ReadChunk, chunk
  <2>2. DueUpto(w) \o Parsed(Between(w, m)) = DueUpto(m)
    BY <1>3, <1>14, BetweenParsed
  <2>. QED
    BY <1>5, <1>16, <2>1, <2>2
<1>18. /\ FramesTyped' /\ IsBody(P)' /\ Passed(now, m)' /\ Reach(m)' = Reach(m) /\ DueUpto(m)' = DueUpto(m)
       /\ reader' = reader /\ frames' = frames
  <2>1. Passed(now, m)' <=> Passed(now, m)
    BY <1>4, FramesStay
  <2>2. IsBody(P)' <=> IsBody(P)
    BY <1>4, FramesStay
  <2>. QED
    BY <1>3, <1>4, <1>13, <2>1, <2>2, FramesStay DEF Stays
<1>19. HandedOn(m)'
  BY <1>17, <1>18 DEF HandedOn
<1>20. now \in 0 .. length
  BY <1>3, <1>8
<1>21. ReadUpto(P)'
  <2>1. (length - Len(body))' = now
    BY <1>4, <1>9
  <2>2. (length = Len(P))' /\ (body = SubSeq(P, now + 1, length))' /\ now \in 0 .. length'
    BY <1>3, <1>4, <1>9, <1>20
  <2>3. m \in 0 .. Len(frames') /\ buffer' = SubSeq(P, Reach(m)' + 1, now)
    BY <1>13, <1>17, <1>18 DEF rest
  <2>. QED
    BY <1>18, <1>19, <2>1, <2>2, <2>3 DEF ReadUpto
<1>. QED
  BY <1>4, <1>18, <1>21 DEF FrameInv

\* The end of what is read: the tail is of the frame that it ends in the middle of.
LEMMA TailKeeps ==
  ASSUME FrameInv, BodyEnds \/ ReaderStops
  PROVE  FrameInv'
<1>0. PICK at : at = length - Len(body)
  OBVIOUS
<1>1. PICK P : ReadUpto(P)
  BY DEF FrameInv
<1>2. /\ FramesTyped /\ IsBody(P) /\ P \in Seq(Tags) /\ length = Len(P) /\ Len(P) \in Nat /\ Len(P) <= Len(Body)
      /\ body = SubSeq(P, at + 1, length) /\ at \in 0 .. length
  BY <1>0, <1>1 DEF FrameInv, ReadUpto, IsBody
<1>3. Stays /\ reading = "on" /\ reading' = "ended" /\ length' = length /\ body' = body /\ buffer' = buffer
  BY DEF BodyEnds, ReaderStops, Stays
<1>4. (length - Len(body))' = at /\ at \in Nat /\ at <= Len(P)
  BY <1>0, <1>2, <1>3
<1>5. PICK w \in 0 .. Len(frames) : Passed(at, w) /\ buffer = SubSeq(P, Reach(w) + 1, at) /\ HandedOn(w)
  BY <1>0, <1>1 DEF ReadUpto
<1>6. events = DueUpto(w) /\ events' = DueUpto(w) \o ParseSseBlock(buffer)
  BY <1>3, <1>5 DEF HandedOn, BodyEnds, ReaderStops
<1>7. DueUpto(w) \in Seq(Handed)
  BY <1>2, DueTyped
<1>8. ParseSseBlock(buffer) = <<>> \/ (w + 1 \in DOMAIN frames /\ \E b \in BOOLEAN : ParseSseBlock(buffer) = <<[of |-> w + 1, malformed |-> b]>>)
  <2>1. /\ Len(frames) \in Nat /\ DOMAIN frames = 1 .. Len(frames) /\ Reach(w) \in Nat /\ Len(Body) = Reach(Len(frames))
        /\ \A i \in 0 .. Len(frames) : Reach(i) \in Nat
    BY <1>2, ReachSteps
  <2>2. Reach(w) <= at /\ (w < Len(frames) => at < Reach(w + 1))
    BY <1>5 DEF Passed
  <2>3. CASE w < Len(frames)
    <3>. DEFINE n == w + 1
    <3>1. n \in 1 .. Len(frames) /\ n - 1 = w /\ n \in DOMAIN frames /\ n \in 0 .. Len(frames)
      BY <2>1, <2>3
    <3>. HIDE DEF n
    <3>2. at \in Reach(n - 1) .. Reach(n) /\ at <= Len(P)
      <4>1. Reach(n) \in Nat /\ at < Reach(n)
        BY <2>1, <2>2, <2>3, <3>1 DEF n
      <4>. QED
        BY <1>4, <2>1, <2>2, <3>1, <4>1
    <3>3. Piece(buffer, n)
      BY <1>2, <1>5, <3>1, <3>2, PieceOfBody
    <3>4. ParseSseBlock(buffer) = <<>> \/ \E b \in BOOLEAN : ParseSseBlock(buffer) = <<[of |-> n, malformed |-> b]>>
      BY <1>2, <3>1, <3>3, TornParsed
    <3>. QED
      BY <3>1, <3>4 DEF n
  <2>4. CASE ~(w < Len(frames))
    <3>1. w = Len(frames)
      <4>1. \A N \in Nat : \A i \in 0 .. N : ~(i < N) => i = N
        OBVIOUS
      <4>. QED
        BY <2>1, <2>4, <4>1
    <3>2. Reach(w) = at
      BY <1>2, <1>4, <2>1, <2>2, <3>1
    <3>3. buffer = <<>>
      BY <1>2, <1>4, <1>5, <3>2
    <3>4. ParseSseBlock(<<>>) = <<>>
      BY DEF ParseSseBlock
    <3>. QED
      BY <3>3, <3>4
  <2>. QED
    BY <2>3, <2>4
<1>9. /\ FramesTyped' /\ IsBody(P)' /\ Passed(at, w)' /\ Reach(w)' = Reach(w) /\ DueUpto(w)' = DueUpto(w)
      /\ reader' = reader /\ frames' = frames
  <2>1. \A r : Passed(r, w)' <=> Passed(r, w)
    BY <1>3, FramesStay
  <2>2. Passed(at, w)'
    BY <1>3, <1>5, <2>1, FramesStay DEF Passed, Stays
  <2>. QED
    BY <1>2, <1>3, <2>2, FramesStay DEF Stays
<1>10. HandedOn(w)'
  <2>1. CASE ParseSseBlock(buffer) = <<>>
    <3>1. events' = DueUpto(w)
      BY <1>6, <1>7, <2>1
    <3>. QED
      BY <1>9, <3>1 DEF HandedOn
  <2>2. CASE ParseSseBlock(buffer) # <<>>
    BY <1>3, <1>6, <1>8, <1>9, <2>2 DEF HandedOn
  <2>. QED
    BY <2>1, <2>2
<1>11. ReadUpto(P)'
  BY <1>0, <1>2, <1>3, <1>4, <1>5, <1>9, <1>10 DEF ReadUpto
<1>. QED
  BY <1>3, <1>9, <1>11 DEF FrameInv

\* No step loses the place.
LEMMA FrameStep ==
  ASSUME FrameInv, [FrameNext]_<<frameVars, left>>
  PROVE  FrameInv'
<1>1. ASSUME NEW n \in 1 .. Len(body), ReadChunk(n) PROVE FrameInv'
  BY <1>1, ChunkKeeps
<1>2. CASE BodyEnds \/ ReaderStops
  BY <1>2, TailKeeps
<1>3. ASSUME UNCHANGED <<reader, frames, eol, length, body, buffer, events>>, reading' \in {"broken", reading}, reading # "ended" \/ reading' = reading
      PROVE  FrameInv'
  <2>1. PICK P : ReadUpto(P)
    BY DEF FrameInv
  <2>2. Stays
    BY <1>3 DEF Stays
  <2>3. ReadUpto(P)'
    <3>. DEFINE at == length - Len(body)
    <3>1. PICK w \in 0 .. Len(frames) : Passed(at, w) /\ buffer = SubSeq(P, Reach(w) + 1, at) /\ HandedOn(w)
      BY <2>1 DEF ReadUpto
    <3>2. HandedOn(w)'
      BY <1>3, <2>2, <3>1, FramesStay DEF HandedOn
    <3>3. IsBody(P)' /\ Reach(w)' = Reach(w)
      BY <2>1, <2>2, FramesStay DEF ReadUpto
    <3>4. Passed(at, w)' /\ at' = at
      BY <1>3, <2>2, <3>1, <3>3, FramesStay DEF Passed
    <3>. QED
      BY <1>3, <2>1, <3>1, <3>2, <3>3, <3>4 DEF ReadUpto
  <2>. QED
    BY <1>3, <2>2, <2>3, FramesStay DEF FrameInv
<1>4. CASE BodyBreaks
  BY <1>3, <1>4 DEF BodyBreaks
<1>5. CASE UNCHANGED <<frameVars, left>>
  BY <1>3, <1>5 DEF frameVars
<1>. QED
  BY <1>1, <1>2, <1>4, <1>5 DEF FrameNext

\* A reader that has not lost its place hands on each frame once.
LEMMA FrameEnds ==
  ASSUME FrameInv
  PROVE  FramesAreWhole /\ FrameTypeOK
<1>. DEFINE at == length - Len(body)
            whole == Cardinality({n \in DOMAIN frames : Reach(n) <= at})
<1>1. FramesTyped
  BY DEF FrameInv
<1>2. PICK w \in 0 .. Len(frames) : at \in Nat /\ Passed(at, w) /\ HandedOn(w)
  BY DEF FrameInv, ReadUpto
<1>3. whole = w
  <2>. HIDE DEF at
  <2>. QED
    BY <1>1, <1>2, PassedIsOne
<1>. DEFINE due == DueUpto(w)
<1>4. due \in Seq(Handed) /\ Len(frames) \in Nat /\ DOMAIN frames = 1 .. Len(frames)
  BY <1>1, DueTyped, ReachSteps
<1>. HIDE DEF due
<1>5. events = due \/ \E e \in Handed : reading = "ended" /\ e.of = w + 1 /\ events = due \o <<e>>
  <2>1. ASSUME NEW b \in BOOLEAN, w + 1 \in DOMAIN frames
        PROVE  [of |-> w + 1, malformed |-> b] \in Handed
    BY <1>4, <2>1 DEF Handed
  <2>. QED
    BY <1>2, <2>1 DEF HandedOn, due
<1>8. ASSUME events \in Seq(Handed) PROVE FrameTypeOK
  <2>1. \A e \in Handed : e.of \in 1 .. Len(frames) /\ e.malformed \in BOOLEAN
    BY DEF Handed
  <2>2. \A i \in DOMAIN events : events[i] \in Handed
    BY <1>8
  <2>3. eol \in Eols /\ reader \in {"web", "terminal"} /\ reading \in {"on", "ended", "broken"}
    BY DEF FrameInv, FramesTyped
  <2>. HIDE DEF Handed
  <2>. QED
    BY <1>4, <2>1, <2>2, <2>3 DEF FrameTypeOK
<1>6. CASE events = due
  <2>1. IsPrefix(due, events)
    BY <1>6 DEF IsPrefix
  <2>2. events \in Seq(Handed)
    BY <1>4, <1>6
  <2>. QED
    <3>1. FramesAreWhole
      BY <1>3, <1>6, <2>1 DEF FramesAreWhole, due, DueUpto
    <3>2. FrameTypeOK
      BY <1>8, <2>2
    <3>. QED
      BY <3>1, <3>2
<1>7. CASE \E e \in Handed : reading = "ended" /\ e.of = w + 1 /\ events = due \o <<e>>
  <2>1. PICK e \in Handed : reading = "ended" /\ e.of = w + 1 /\ events = due \o <<e>>
    BY <1>7
  <2>2. /\ events \in Seq(Handed) /\ Len(events) = Len(due) + 1 /\ events[Len(due) + 1] = e
        /\ Len(due) \in Nat /\ \A i \in 1 .. Len(due) : events[i] = due[i]
    BY <1>4, <2>1
  <2>3. IsPrefix(due, events)
    <3>1. SubSeq(due, 1, Len(due)) = SubSeq(events, 1, Len(due))
      <4>1. \A i \in 1 .. Len(due) : due[i] = events[i]
        BY <2>2
      <4>2. /\ SubSeq(due, 1, Len(due)) = [i \in 1 .. Len(due) |-> due[i]]
            /\ SubSeq(events, 1, Len(due)) = [i \in 1 .. Len(due) |-> events[i]]
        BY <1>4, <2>2
      <4>. QED
        BY <4>1, <4>2
    <3>. QED
      BY <2>2, <3>1 DEF IsPrefix
  <2>4. Last(events).of = w + 1
    BY <2>1, <2>2 DEF Last
  <2>. QED
    <3>1. FramesAreWhole
      BY <1>3, <2>1, <2>2, <2>3, <2>4 DEF FramesAreWhole, due, DueUpto
    <3>2. FrameTypeOK
      BY <1>8, <2>2
    <3>. QED
      BY <3>1, <3>2
<1>. QED
  BY <1>5, <1>6, <1>7

\* Of every stream, of any frames and read in any chunks, each frame is handed on once and in
\* its order.
THEOREM FramesAreWholeHolds == FrameSpec => []FramesAreWhole
<1>1. FrameInit => FrameInv
  BY FrameStarts
<1>2. FrameInv /\ [FrameNext]_<<frameVars, left>> => FrameInv'
  BY FrameStep
<1>3. FrameInv => FramesAreWhole
  BY FrameEnds
<1>. QED
  BY <1>1, <1>2, <1>3, PTL DEF FrameSpec

\* What it keeps, and what it hands on, has its type.
THEOREM FrameTypeOKHolds == FrameSpec => []FrameTypeOK
<1>1. FrameInit => FrameInv
  BY FrameStarts
<1>2. FrameInv /\ [FrameNext]_<<frameVars, left>> => FrameInv'
  BY FrameStep
<1>3. FrameInv => FrameTypeOK
  BY FrameEnds
<1>. QED
  BY <1>1, <1>2, <1>3, PTL DEF FrameSpec
=============================================================================
