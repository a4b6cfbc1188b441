--------------------------- MODULE WifiFormatProofs ---------------------------
(***************************************************************************)
(* Proofs about WifiFormat, for any files, names and passphrases and any   *)
(* number of writes.                                                       *)
(***************************************************************************)
EXTENDS WifiFormat, InductionLemmas

(***************************************************************************)
(* Part 1: flattening, and what a function on elements makes of sequences. *)
(***************************************************************************)

\* The partial results of FlattenSeq.
Flattens(g, S, ss) ==
    /\ g \in [1 .. Len(ss) -> Seq(S)] /\ g[1] = ss[1]
    /\ \A i \in 2 .. Len(ss) : g[i] = g[i - 1] \o ss[i]

LEMMA FlattenDefined ==
    ASSUME NEW S, NEW ss \in Seq(Seq(S)), ss # <<>>
    PROVE  \E g : Flattens(g, S, ss) /\ FlattenSeq(ss) = g[Len(ss)]
<1> DEFINE n == Len(ss)
           K == Seq(S)
           step == [i \in 1 .. n |-> [s \in K |-> s \o ss[i]]]
           IsFlat(g) == g = [i \in 1 .. Len(ss) |->
                               IF i = 1 THEN ss[i] ELSE g[i - 1] \o ss[i]]
           flat == CHOOSE g : IsFlat(g)
<1>1. n \in Nat /\ n # 0 /\ <<>> \in K /\ \A i \in 1 .. n : ss[i] \in K
  BY LenProperties, ElementOfSeq, EmptySeq
<1>2. Stays(K, n, step)
  <2> SUFFICES ASSUME NEW i \in 1 .. n, NEW s \in K PROVE s \o ss[i] \in K
    BY DEF Stays
  <2> QED BY <1>1, ConcatProperties
<1> HIDE DEF n, K, step
<1>3. PICK g : Solves(g, K, n, <<>>, step)
  BY <1>1, <1>2, Recursion
<1>4. g \in [0 .. n -> K] /\ g[0] = <<>> /\ \A i \in 1 .. n : g[i] = step[i][g[i - 1]]
  BY <1>3 DEF Solves
<1>5. \A i \in 1 .. n : g[i] \in K /\ g[i] = g[i - 1] \o ss[i]
  <2> SUFFICES ASSUME NEW i \in 1 .. n PROVE g[i] \in K /\ g[i] = g[i - 1] \o ss[i]
    OBVIOUS
  <2>1. g[i - 1] \in K /\ g[i] \in K
    BY <1>1, <1>4
  <2> QED BY <2>1, <1>4 DEF step
<1>6. g[1] = ss[1]
  <2>1. ss[1] \in Seq(S)
    BY <1>1 DEF K
  <2>2. 1 \in 1 .. n /\ 1 - 1 = 0
    BY <1>1
  <2>3. g[1] = g[0] \o ss[1]
    BY <2>2, <1>5
  <2> QED BY <2>3, <1>4, <2>1, <2>2, ConcatEmptySeq
<1> DEFINE h == [i \in 1 .. n |-> g[i]]
<1> HIDE DEF flat
<1>7. /\ h = [i \in 1 .. n |-> h[i]]
      /\ \A i \in 1 .. n : h[i] = IF i = 1 THEN ss[i] ELSE h[i - 1] \o ss[i]
  <2>1. h = [i \in 1 .. n |-> h[i]] /\ \A i \in 1 .. n : h[i] = g[i]
    BY Zenon
  <2> HIDE DEF h
  <2>2. ASSUME NEW i \in 1 .. n
        PROVE  h[i] = IF i = 1 THEN ss[i] ELSE h[i - 1] \o ss[i]
    <3>0. n \in Nat
      BY <1>1
    <3>1. i # 1 => i - 1 \in 1 .. n
      BY <3>0
    <3>2. h[i] = g[i] /\ (i # 1 => h[i - 1] = g[i - 1])
      BY <3>1, <2>1
    <3> QED BY <3>2, <1>5, <1>6
  <2> QED BY <2>1, <2>2
<1> HIDE DEF h
<1>8. IsFlat(h)
  <2>1. [i \in 1 .. n |-> h[i]]
          = [i \in 1 .. n |-> IF i = 1 THEN ss[i] ELSE h[i - 1] \o ss[i]]
    BY <1>7
  <2> QED BY <2>1, <1>7 DEF n
<1>9. IsFlat(flat)
  BY <1>8 DEF flat
<1>10. FlattenSeq(ss) = flat[Len(ss)]
  BY <1>1 DEF n, FlattenSeq, flat
<1>11. \A i \in 0 .. n - 1 : flat[i + 1] = h[i + 1]
  <2> DEFINE G == {i \in Nat : flat[i + 1] = h[i + 1]}
  <2>0. /\ \A i \in 1 .. n : flat[i] = IF i = 1 THEN ss[i] ELSE flat[i - 1] \o ss[i]
        /\ \A i \in 1 .. n : h[i] = IF i = 1 THEN ss[i] ELSE h[i - 1] \o ss[i]
    BY <1>9, <1>7 DEF n
  <2>1. 0 \in G
    BY <2>0, <1>1
  <2>2. \A i \in 0 .. n - 1 : i # n - 1 /\ i \in G => i + 1 \in G
    <3> SUFFICES ASSUME NEW i \in 0 .. n - 1, i # n - 1, flat[i + 1] = h[i + 1]
                 PROVE  flat[(i + 1) + 1] = h[(i + 1) + 1]
      OBVIOUS
    <3>1. (i + 1) + 1 \in 1 .. n /\ (i + 1) + 1 # 1 /\ ((i + 1) + 1) - 1 = i + 1
      BY <1>1
    <3> QED BY <3>1, <2>0
  <2> HIDE DEF G
  <2>3. n - 1 \in Nat
    BY <1>1
  <2>4. 0 .. n - 1 \subseteq G
    BY <2>1, <2>2, <2>3, UpTo
  <2> QED BY <2>4 DEF G
<1>12. FlattenSeq(ss) = h[Len(ss)]
  <2>1. n - 1 \in 0 .. n - 1 /\ (n - 1) + 1 = n
    BY <1>1
  <2> QED BY <2>1, <1>10, <1>11 DEF n
<1>13. Flattens(h, S, ss)
  <2>1. h \in [1 .. n -> K] /\ h[1] = ss[1]
    <3>1. 1 \in 1 .. n
      BY <1>1
    <3> QED BY <3>1, <1>5, <1>6 DEF h
  <2>2. \A i \in 2 .. n : h[i] = h[i - 1] \o ss[i]
    <3> SUFFICES ASSUME NEW i \in 2 .. n PROVE h[i] = h[i - 1] \o ss[i]
      OBVIOUS
    <3>1. i \in 1 .. n /\ i # 1
      BY <1>1
    <3> QED BY <3>1, <1>7
  <2> QED BY <2>1, <2>2 DEF Flattens, n, K
<1> QED BY <1>12, <1>13

LEMMA FlattenEmpty == FlattenSeq(<<>>) = <<>>
  BY DEF FlattenSeq

LEMMA FlattenAppend ==
    ASSUME NEW S, NEW ss \in Seq(Seq(S)), NEW s \in Seq(S)
    PROVE  /\ FlattenSeq(ss) \in Seq(S)
           /\ FlattenSeq(Append(ss, s)) = FlattenSeq(ss) \o s
<1> DEFINE n == Len(ss)
           tt == Append(ss, s)
<1>1. /\ n \in Nat /\ tt \in Seq(Seq(S)) /\ tt # <<>> /\ Len(tt) = n + 1
      /\ tt[n + 1] = s /\ \A i \in 1 .. n : tt[i] = ss[i]
  BY AppendProperties, LenProperties
<1> HIDE DEF tt
<1>2. PICK h : Flattens(h, S, tt) /\ FlattenSeq(tt) = h[n + 1]
  BY <1>1, FlattenDefined
<1>3. CASE ss = <<>>
  <2>1. n = 0 /\ FlattenSeq(tt) = s
    BY <1>1, <1>2, <1>3 DEF Flattens
  <2>2. FlattenSeq(ss) = <<>> /\ <<>> \in Seq(S) /\ <<>> \o s = s
    BY <1>3, FlattenEmpty, ConcatEmptySeq, EmptySeq
  <2> QED BY <2>1, <2>2 DEF tt
<1>4. CASE ss # <<>>
  <2>1. PICK g : Flattens(g, S, ss) /\ FlattenSeq(ss) = g[n]
    BY <1>4, FlattenDefined
  <2>2. n # 0
    BY <1>4, EmptySeq
  <2> DEFINE G == {i \in Nat : g[i + 1] = h[i + 1]}
  <2>3. 0 \in G
    BY <2>1, <2>2, <1>1, <1>2 DEF Flattens
  <2>4. \A i \in 0 .. n - 1 : i # n - 1 /\ i \in G => i + 1 \in G
    <3> SUFFICES ASSUME NEW i \in 0 .. n - 1, i # n - 1, g[i + 1] = h[i + 1]
                 PROVE  g[(i + 1) + 1] = h[(i + 1) + 1]
      OBVIOUS
    <3> DEFINE k == (i + 1) + 1
    <3>0. n \in Nat
      BY <1>1
    <3>1. k \in 2 .. n /\ k \in 2 .. n + 1 /\ k \in 1 .. n /\ k - 1 = i + 1
      BY <3>0
    <3> HIDE DEF k
    <3>2. g[k] = g[k - 1] \o ss[k] /\ h[k] = h[k - 1] \o tt[k]
      BY <3>1, <2>1, <1>1, <1>2 DEF Flattens
    <3> QED BY <3>1, <3>2, <1>1 DEF k
  <2> HIDE DEF G
  <2>5. n - 1 \in Nat /\ n - 1 \in 0 .. n - 1 /\ (n - 1) + 1 = n
    BY <1>1, <2>2
  <2>6. 0 .. n - 1 \subseteq G
    BY <2>3, <2>4, <2>5, UpTo
  <2>7. g[n] = h[n]
    BY <2>5, <2>6 DEF G
  <2>8. n + 1 \in 2 .. n + 1 /\ (n + 1) - 1 = n
    BY <1>1, <2>2
  <2>9. h[n + 1] = h[n] \o s
    BY <2>8, <1>1, <1>2 DEF Flattens
  <2>10. g[n] \in Seq(S)
    <3>1. n \in 1 .. n /\ g \in [1 .. n -> Seq(S)]
      BY <2>1, <2>2, <1>1 DEF Flattens
    <3> QED BY <3>1
  <2> QED BY <2>1, <2>7, <2>9, <2>10, <1>2 DEF tt
<1> QED BY <1>3, <1>4

\* A function on elements, and the sequence of its values.
Maps(h, A, S) == \A a \in A : h[a] \in S
Mapped(h, t) == [i \in DOMAIN t |-> h[t[i]]]

LEMMA MappedFacts ==
    ASSUME NEW A, NEW S, NEW h, Maps(h, A, S), NEW t \in Seq(A)
    PROVE  /\ Mapped(h, t) \in Seq(S) /\ Len(Mapped(h, t)) = Len(t)
           /\ DOMAIN Mapped(h, t) = 1 .. Len(t)
           /\ \A i \in 1 .. Len(t) : Mapped(h, t)[i] = h[t[i]]
           /\ Mapped(h, <<>>) = <<>>
           /\ \A a \in A : Mapped(h, Append(t, a)) = Append(Mapped(h, t), h[a])
<1> DEFINE n == Len(t)
           m == Mapped(h, t)
<1>1. n \in Nat /\ DOMAIN t = 1 .. n /\ \A i \in 1 .. n : t[i] \in A /\ h[t[i]] \in S
  BY LenProperties, ElementOfSeq DEF Maps
<1>2. m = [i \in 1 .. n |-> h[t[i]]] /\ m \in [1 .. n -> S]
  BY <1>1 DEF Mapped
<1>3. m \in Seq(S)
  BY <1>1, <1>2, SeqDef
<1>4. Len(m) = n /\ DOMAIN m = 1 .. n
  BY <1>1, <1>2, <1>3, LenProperties
<1>5. Mapped(h, <<>>) = <<>>
  BY DEF Mapped
<1>6. ASSUME NEW a \in A PROVE Mapped(h, Append(t, a)) = Append(m, h[a])
  <2> DEFINE u == Append(t, a)
             v == Append(m, h[a])
  <2>1. /\ u \in Seq(A) /\ Len(u) = n + 1 /\ DOMAIN u = 1 .. n + 1
        /\ u[n + 1] = a /\ \A i \in 1 .. n : u[i] = t[i]
    BY AppendProperties, LenProperties
  <2>2. h[a] \in S
    BY DEF Maps
  <2> HIDE DEF m
  <2>3. /\ v \in Seq(S) /\ Len(v) = n + 1
        /\ v[n + 1] = h[a] /\ \A i \in 1 .. n : v[i] = m[i]
    BY <2>2, <1>3, <1>4, AppendProperties
  <2>4. v \in [1 .. n + 1 -> S]
    BY <2>3, LenProperties
  <2> HIDE DEF u, v
  <2>5. \A i \in 1 .. n + 1 : v[i] = h[u[i]]
    <3> SUFFICES ASSUME NEW i \in 1 .. n + 1 PROVE v[i] = h[u[i]]
      OBVIOUS
    <3>1. CASE i = n + 1
      BY <3>1, <2>1, <2>3
    <3>2. CASE i # n + 1
      <4>1. i \in 1 .. n
        BY <3>2, <1>1
      <4> QED BY <4>1, <2>1, <2>3, <1>2
    <3> QED BY <3>1, <3>2
  <2>6. [i \in 1 .. n + 1 |-> h[u[i]]] = v
    BY <2>4, <2>5
  <2>7. Mapped(h, u) = v
    BY <2>1, <2>6 DEF Mapped
  <2> QED BY <2>7 DEF u, v
<1> QED BY <1>2, <1>3, <1>4, <1>5, <1>6

\* A function from elements to sequences, and its values one after the other.
FlatMap(h, t) == FlattenSeq(Mapped(h, t))

LEMMA FlatMapFacts ==
    ASSUME NEW A, NEW S, NEW h, Maps(h, A, Seq(S)), NEW t \in Seq(A)
    PROVE  /\ FlatMap(h, <<>>) = <<>> /\ FlatMap(h, t) \in Seq(S)
           /\ \A a \in A : FlatMap(h, Append(t, a)) = FlatMap(h, t) \o h[a]
<1> DEFINE K == Seq(S)
<1> HIDE DEF K
<1>1. /\ Mapped(h, t) \in Seq(K) /\ Mapped(h, <<>>) = <<>>
      /\ \A a \in A : Mapped(h, Append(t, a)) = Append(Mapped(h, t), h[a])
  <2>1. Maps(h, A, K)
    BY DEF K
  <2> QED BY <2>1, MappedFacts
<1>2. <<>> \in K
  BY EmptySeq DEF K
<1>3. FlatMap(h, <<>>) = <<>>
  BY <1>1, FlattenEmpty DEF FlatMap
<1>4. FlatMap(h, t) \in Seq(S)
  BY <1>1, <1>2, FlattenAppend DEF FlatMap, K
<1>5. ASSUME NEW a \in A PROVE FlatMap(h, Append(t, a)) = FlatMap(h, t) \o h[a]
  <2>1. h[a] \in K
    BY DEF Maps, K
  <2> QED BY <2>1, <1>1, FlattenAppend DEF FlatMap, K
<1> QED BY <1>3, <1>4, <1>5

LEMMA FlatMapConcat ==
    ASSUME NEW A, NEW S, NEW h, Maps(h, A, Seq(S)), NEW t \in Seq(A), NEW u \in Seq(A)
    PROVE  FlatMap(h, t \o u) = FlatMap(h, t) \o FlatMap(h, u)
<1> DEFINE G == {v \in Seq(A) : FlatMap(h, t \o v) = FlatMap(h, t) \o FlatMap(h, v)}
<1>1. <<>> \in G
  <2>1. /\ FlatMap(h, t) \in Seq(S) /\ FlatMap(h, <<>>) = <<>>
        /\ t \o <<>> = t /\ <<>> \in Seq(A)
    BY FlatMapFacts, EmptySeq, ConcatEmptySeq
  <2>2. FlatMap(h, t) \o <<>> = FlatMap(h, t)
    BY <2>1, ConcatEmptySeq
  <2> QED BY <2>1, <2>2
<1>2. ASSUME NEW v \in Seq(A), NEW a \in A, v \in G PROVE Append(v, a) \in G
  <2>1. Append(v, a) \in Seq(A) /\ t \o v \in Seq(A)
    BY AppendProperties, ConcatProperties
  <2>2. t \o Append(v, a) = Append(t \o v, a)
    OBVIOUS
  <2> DEFINE x == FlatMap(h, t)
             y == FlatMap(h, v)
             z == h[a]
  <2>3. x \in Seq(S) /\ y \in Seq(S) /\ z \in Seq(S)
    BY FlatMapFacts DEF Maps
  <2>4. FlatMap(h, Append(v, a)) = y \o z
    BY FlatMapFacts
  <2>5. FlatMap(h, Append(t \o v, a)) = FlatMap(h, t \o v) \o z
    <3> DEFINE w == t \o v
    <3>1. w \in Seq(A)
      BY <2>1
    <3> HIDE DEF w
    <3>2. FlatMap(h, Append(w, a)) = FlatMap(h, w) \o z
      BY <3>1, FlatMapFacts
    <3> QED BY <3>2 DEF w
  <2>6. FlatMap(h, t \o v) = x \o y
    BY <1>2
  <2> HIDE DEF x, y, z
  <2>7. (x \o y) \o z = x \o (y \o z)
    BY <2>3, ConcatAssociative, SMTT(30)
  <2>8. FlatMap(h, t \o Append(v, a)) = x \o FlatMap(h, Append(v, a))
    BY <2>2, <2>4, <2>5, <2>6, <2>7
  <2> QED BY <2>1, <2>8 DEF x
<1> HIDE DEF G
<1>3. Seq(A) \subseteq G
  BY <1>1, <1>2, SeqStep
<1> QED BY <1>3 DEF G

(***************************************************************************)
(* Part 2: values.  One write and one parse add one layer of escapes.      *)
(***************************************************************************)

LEMMA DoubledFacts ==
    ASSUME NEW n \in Nat
    PROVE  /\ Doubled(n) \in Nat /\ Doubled(n) > 0
           /\ Doubled(0) = 1 /\ Doubled(n + 1) = 2 * Doubled(n)
<1> DEFINE step(k) == [i \in 1 .. k |-> [x \in Nat |-> 2 * x]]
           IsDoubling(d, k) == d = [i \in 0 .. k |-> IF i = 0 THEN 1 ELSE 2 * d[i - 1]]
           dbl(k) == CHOOSE d : IsDoubling(d, k)
<1>1. \A k \in Nat : IsDoubling(dbl(k), k)
  <2> SUFFICES ASSUME NEW k \in Nat PROVE \E d : IsDoubling(d, k)
    OBVIOUS
  <2>1. Stays(Nat, k, step(k))
    BY DEF Stays
  <2>2. PICK d : Solves(d, Nat, k, 1, step(k))
    BY <2>1, Recursion
  <2>3. d \in [0 .. k -> Nat] /\ d[0] = 1 /\ \A i \in 1 .. k : d[i] = step(k)[i][d[i - 1]]
    BY <2>2 DEF Solves
  <2>4. \A i \in 0 .. k : d[i] = IF i = 0 THEN 1 ELSE 2 * d[i - 1]
    <3> SUFFICES ASSUME NEW i \in 1 .. k PROVE d[i] = 2 * d[i - 1]
      BY <2>3
    <3>1. d[i - 1] \in Nat
      BY <2>3
    <3> QED BY <3>1, <2>3
  <2>5. IsDoubling(d, k)
    BY <2>3, <2>4
  <2> QED BY <2>5
<1>2. \A k \in Nat : Doubled(k) = dbl(k)[k]
  BY DEF Doubled
<1> HIDE DEF dbl
<1>3. \A k \in Nat : /\ dbl(k)[0] = 1
                     /\ \A i \in 1 .. k : dbl(k)[i] = 2 * dbl(k)[i - 1]
  BY <1>1
<1>4. \A i \in 0 .. n : dbl(n)[i] = dbl(n + 1)[i]
  <2>1. \A i \in 1 .. n : dbl(n)[i] = 2 * dbl(n)[i - 1]
                          /\ dbl(n + 1)[i] = 2 * dbl(n + 1)[i - 1]
    BY <1>3
  <2>2. dbl(n)[0] = dbl(n + 1)[0]
    BY <1>3
  <2> DEFINE g == dbl(n)
             h == dbl(n + 1)
  <2> HIDE DEF g, h
  <2>3. \A i \in 0 .. n : g[i] = h[i]
    <3>1. Alike(g, h, n)
      BY <2>1, <2>2 DEF Alike, g, h
    <3> QED BY <3>1, Agreement
  <2> QED BY <2>3 DEF g, h
<1>5. Doubled(n + 1) = 2 * Doubled(n)
  <2>1. n + 1 \in Nat /\ n + 1 \in 1 .. n + 1 /\ (n + 1) - 1 = n /\ n \in 0 .. n
    OBVIOUS
  <2> QED BY <2>1, <1>2, <1>3, <1>4
<1>6. Doubled(0) = 1
  BY <1>2, <1>3
<1> DEFINE G == {i \in Nat : dbl(n)[i] \in Nat /\ dbl(n)[i] > 0}
<1>7. 0 \in G
  BY <1>3
<1>8. \A i \in 0 .. n : i # n /\ i \in G => i + 1 \in G
  <2> SUFFICES ASSUME NEW i \in 0 .. n, i # n, dbl(n)[i] \in Nat, dbl(n)[i] > 0
               PROVE  dbl(n)[i + 1] \in Nat /\ dbl(n)[i + 1] > 0
    OBVIOUS
  <2>1. i + 1 \in 1 .. n /\ (i + 1) - 1 = i
    OBVIOUS
  <2>2. dbl(n)[i + 1] = 2 * dbl(n)[i]
    BY <2>1, <1>3
  <2> QED BY <2>2
<1> HIDE DEF G
<1>9. 0 .. n \subseteq G
  BY <1>7, <1>8, UpTo
<1>10. n \in G
  BY <1>9
<1> QED BY <1>2, <1>5, <1>6, <1>10 DEF G

LEMMA TimesFacts ==
    ASSUME NEW c \in Char, NEW n \in Nat
    PROVE  /\ Times(c, n) \in Text /\ Len(Times(c, n)) = n /\ Times(c, 0) = <<>>
           /\ Times(c, n + 1) = Append(Times(c, n), c)
<1>1. Times(c, n) \in Seq(Char)
  <2>1. Times(c, n) \in [1 .. n -> Char]
    BY DEF Times
  <2> QED BY <2>1, SeqDef
<1> QED BY <1>1 DEF Times, Text

\* What %q and what n rounds of it make of a character.
EscapeOf == [c \in Char |-> IF c = "plain" THEN <<c>> ELSE <<"slash", c>>]
AgedOf(n) ==
    [c \in Char |-> CASE c = "plain" -> <<"plain">>
                      [] c = "quote" -> Append(Times("slash", Doubled(n) - 1), "quote")
                      [] c = "slash" -> Times("slash", Doubled(n))]

LEMMA EscapeOfMaps == Maps(EscapeOf, Char, Text) /\ \A c \in Char : EscapeOf[c] # <<>>
  BY DEF Maps, EscapeOf, Char, Text

LEMMA AgedOfMaps ==
    ASSUME NEW n \in Nat
    PROVE  Maps(AgedOf(n), Char, Text) /\ \A c \in Char : AgedOf(n)[c] # <<>>
<1> DEFINE d == Doubled(n)
<1>1. d \in Nat /\ d > 0 /\ d - 1 \in Nat
  BY DoubledFacts
<1> HIDE DEF d
<1>2. /\ Times("slash", d) \in Text /\ Len(Times("slash", d)) = d
      /\ Times("slash", d - 1) \in Text
  BY <1>1, TimesFacts DEF Char
<1>3. Times("slash", d) # <<>>
  BY <1>1, <1>2
<1>4. /\ Append(Times("slash", d - 1), "quote") \in Text
      /\ Append(Times("slash", d - 1), "quote") # <<>>
  BY <1>2, AppendProperties DEF Char, Text
<1>5. /\ AgedOf(n)["plain"] = <<"plain">> /\ AgedOf(n)["slash"] = Times("slash", d)
      /\ AgedOf(n)["quote"] = Append(Times("slash", d - 1), "quote")
  BY DEF AgedOf, Char, d
<1>6. <<"plain">> \in Text /\ <<"plain">> # <<>>
  BY DEF Text, Char
<1>7. \A c \in Char : c = "plain" \/ c = "slash" \/ c = "quote"
  BY DEF Char
<1>8. \A c \in Char : AgedOf(n)[c] \in Text /\ AgedOf(n)[c] # <<>>
  <2> SUFFICES ASSUME NEW c \in Char PROVE AgedOf(n)[c] \in Text /\ AgedOf(n)[c] # <<>>
    OBVIOUS
  <2>1. CASE c = "plain" BY <2>1, <1>5, <1>6
  <2>2. CASE c = "slash" BY <2>2, <1>2, <1>3, <1>5
  <2>3. CASE c = "quote" BY <2>3, <1>4, <1>5
  <2> QED BY <2>1, <2>2, <2>3, <1>7
<1> QED BY <1>8 DEF Maps

LEMMA AsFlatMaps ==
    ASSUME NEW t \in Text, NEW n \in Nat
    PROVE  Escape(t) = FlatMap(EscapeOf, t) /\ Aged(t, n) = FlatMap(AgedOf(n), t)
<1>1. \A i \in DOMAIN t : t[i] \in Char
  BY LenProperties, ElementOfSeq DEF Text
<1>2. Mapped(EscapeOf, t) = [i \in DOMAIN t |-> IF t[i] = "plain" THEN <<t[i]>>
                                                    ELSE <<"slash", t[i]>>]
  BY <1>1 DEF Mapped, EscapeOf
<1>3. Mapped(AgedOf(n), t) =
        [i \in DOMAIN t |->
          CASE t[i] = "plain" -> <<"plain">>
            [] t[i] = "quote" -> Append(Times("slash", Doubled(n) - 1), "quote")
            [] t[i] = "slash" -> Times("slash", Doubled(n))]
  <2> SUFFICES ASSUME NEW i \in DOMAIN t
               PROVE  AgedOf(n)[t[i]] =
                 CASE t[i] = "plain" -> <<"plain">>
                   [] t[i] = "quote" -> Append(Times("slash", Doubled(n) - 1), "quote")
                   [] t[i] = "slash" -> Times("slash", Doubled(n))
    BY DEF Mapped
  <2>1. t[i] \in Char
    BY <1>1
  <2> QED BY <2>1 DEF AgedOf
<1> QED BY <1>2, <1>3 DEF FlatMap, Escape, Aged

LEMMA FlatMapNonEmpty ==
    ASSUME NEW A, NEW S, NEW h, Maps(h, A, Seq(S)), \A a \in A : h[a] # <<>>,
           NEW t \in Seq(A), t # <<>>
    PROVE  FlatMap(h, t) # <<>>
<1>1. PICK u \in Seq(A), a \in A : t = Append(u, a)
  BY SequenceEmptyOrAppend
<1> DEFINE x == FlatMap(h, u)
           y == h[a]
<1>2. x \in Seq(S) /\ FlatMap(h, t) = x \o y
  BY <1>1, FlatMapFacts
<1>3. y \in Seq(S) /\ y # <<>>
  BY DEF Maps
<1> HIDE DEF x, y
<1> QED BY <1>2, <1>3, ConcatEqualIffEmpty

LEMMA EscapeFacts ==
    ASSUME NEW t \in Text
    PROVE  /\ Escape(t) \in Text /\ Escape(<<>>) = <<>>
           /\ \A c \in Char : Escape(Append(t, c)) = Escape(t) \o EscapeOf[c]
           /\ \A u \in Text : Escape(t \o u) = Escape(t) \o Escape(u)
           /\ t # <<>> => Escape(t) # <<>>
<1>0. Text = Seq(Char) /\ 0 \in Nat
  BY DEF Text
<1>1. <<>> \in Text /\ (\A c \in Char : Append(t, c) \in Text)
      /\ \A u \in Text : t \o u \in Text
  BY <1>0, EmptySeq, AppendProperties, ConcatProperties
<1>2. \A u \in Text : Escape(u) = FlatMap(EscapeOf, u)
  BY <1>0, AsFlatMaps
<1>3. Maps(EscapeOf, Char, Seq(Char)) /\ \A c \in Char : EscapeOf[c] # <<>>
  BY <1>0, EscapeOfMaps
<1>4. Escape(t) \in Text /\ Escape(<<>>) = <<>>
  <2>1. FlatMap(EscapeOf, t) \in Seq(Char) /\ FlatMap(EscapeOf, <<>>) = <<>>
    BY <1>0, <1>3, FlatMapFacts
  <2> QED BY <2>1, <1>0, <1>1, <1>2
<1>5. \A c \in Char : Escape(Append(t, c)) = Escape(t) \o EscapeOf[c]
  <2>1. \A c \in Char : FlatMap(EscapeOf, Append(t, c)) = FlatMap(EscapeOf, t) \o EscapeOf[c]
    BY <1>0, <1>3, FlatMapFacts
  <2> QED BY <2>1, <1>1, <1>2
<1>6. \A u \in Text : Escape(t \o u) = Escape(t) \o Escape(u)
  <2>1. \A u \in Text : FlatMap(EscapeOf, t \o u) = FlatMap(EscapeOf, t) \o FlatMap(EscapeOf, u)
    BY <1>0, <1>3, FlatMapConcat
  <2> QED BY <2>1, <1>1, <1>2
<1>7. t # <<>> => Escape(t) # <<>>
  BY <1>0, <1>2, <1>3, FlatMapNonEmpty
<1> QED BY <1>4, <1>5, <1>6, <1>7

LEMMA AgedFacts ==
    ASSUME NEW t \in Text, NEW n \in Nat
    PROVE  /\ Aged(t, n) \in Text /\ Aged(<<>>, n) = <<>>
           /\ \A c \in Char : Aged(Append(t, c), n) = Aged(t, n) \o AgedOf(n)[c]
           /\ t # <<>> => Aged(t, n) # <<>>
<1>0. Text = Seq(Char)
  BY DEF Text
<1>1. <<>> \in Text /\ \A c \in Char : Append(t, c) \in Text
  BY <1>0, EmptySeq, AppendProperties
<1>2. \A u \in Text : Aged(u, n) = FlatMap(AgedOf(n), u)
  BY AsFlatMaps
<1>3. Maps(AgedOf(n), Char, Seq(Char)) /\ \A c \in Char : AgedOf(n)[c] # <<>>
  BY <1>0, AgedOfMaps
<1> DEFINE h == AgedOf(n)
<1> HIDE DEF h
<1>4. Maps(h, Char, Seq(Char)) /\ \A c \in Char : h[c] # <<>>
  BY <1>3 DEF h
<1>5. FlatMap(h, t) \in Text /\ FlatMap(h, <<>>) = <<>>
  BY <1>0, <1>4, FlatMapFacts
<1>6. \A c \in Char : FlatMap(h, Append(t, c)) = FlatMap(h, t) \o h[c]
  BY <1>0, <1>4, FlatMapFacts
<1>7. t # <<>> => FlatMap(h, t) # <<>>
  BY <1>0, <1>4, FlatMapNonEmpty
<1> QED BY <1>1, <1>2, <1>5, <1>6, <1>7 DEF h

\* %q puts a backslash before every backslash.
LEMMA EscapeSlashes ==
    ASSUME NEW n \in Nat
    PROVE  Escape(Times("slash", n)) = Times("slash", 2 * n)
<1> DEFINE G == {k \in Nat : Escape(Times("slash", k)) = Times("slash", 2 * k)}
<1>0. "slash" \in Char /\ EscapeOf["slash"] = <<"slash", "slash">>
  BY DEF Char, EscapeOf
<1>1. 0 \in G
  <2>1. Times("slash", 0) = <<>> /\ Escape(<<>>) = <<>> /\ 2 * 0 = 0
    BY <1>0, TimesFacts, EscapeFacts
  <2> QED BY <2>1
<1>2. ASSUME NEW k \in Nat, k \in G PROVE k + 1 \in G
  <2>1. /\ Times("slash", k) \in Text
        /\ Times("slash", k + 1) = Append(Times("slash", k), "slash")
    BY <1>0, TimesFacts
  <2>2. Escape(Times("slash", k + 1)) = Times("slash", 2 * k) \o <<"slash", "slash">>
    BY <1>0, <1>2, <2>1, EscapeFacts
  <2>3. 2 * k \in Nat /\ 2 * k + 1 \in Nat /\ 2 * (k + 1) = (2 * k + 1) + 1
    OBVIOUS
  <2>4. /\ Times("slash", 2 * (k + 1)) = Append(Times("slash", 2 * k + 1), "slash")
        /\ Times("slash", 2 * k + 1) = Append(Times("slash", 2 * k), "slash")
        /\ Times("slash", 2 * k) \in Seq(Char)
    BY <1>0, <2>3, TimesFacts DEF Text
  <2> DEFINE w == Times("slash", 2 * k)
  <2> HIDE DEF w
  <2>5. Append(Append(w, "slash"), "slash") = w \o <<"slash", "slash">>
    <3>1. w \in Seq(Char)
      BY <2>4 DEF w
    <3> QED BY <3>1, <1>0
  <2>6. Escape(Times("slash", k + 1)) = Times("slash", 2 * (k + 1))
    BY <2>2, <2>4, <2>5 DEF w
  <2> QED BY <2>6
<1> HIDE DEF G
<1>3. Nat \subseteq G
  BY <1>1, <1>2, NatStep
<1> QED BY <1>3 DEF G

LEMMA EscapeAgedOf ==
    ASSUME NEW n \in Nat, NEW c \in Char
    PROVE  Escape(AgedOf(n)[c]) = AgedOf(n + 1)[c]
<1> DEFINE d == Doubled(n)
<1>1. d \in Nat /\ d > 0 /\ Doubled(n + 1) = 2 * d
  BY DoubledFacts
<1>2. /\ AgedOf(n)["plain"] = <<"plain">> /\ AgedOf(n)["slash"] = Times("slash", d)
      /\ AgedOf(n)["quote"] = Append(Times("slash", d - 1), "quote")
  BY DEF AgedOf, Char
<1>3. /\ AgedOf(n + 1)["plain"] = <<"plain">>
      /\ AgedOf(n + 1)["slash"] = Times("slash", 2 * d)
      /\ AgedOf(n + 1)["quote"] = Append(Times("slash", 2 * d - 1), "quote")
  BY <1>1 DEF AgedOf, Char
<1> HIDE DEF d
<1>4. CASE c = "plain"
  <2>1. <<>> \in Text /\ Append(<<>>, "plain") = <<"plain">>
    BY DEF Text
  <2>2. Escape(<<"plain">>) = <<>> \o EscapeOf["plain"]
    BY <1>4, <2>1, EscapeFacts
  <2>3. EscapeOf["plain"] = <<"plain">>
    BY DEF EscapeOf, Char
  <2>4. <<>> \o <<"plain">> = <<"plain">>
    OBVIOUS
  <2> QED BY <1>2, <1>3, <1>4, <2>2, <2>3, <2>4
<1>5. CASE c = "slash"
  BY <1>1, <1>2, <1>3, <1>5, EscapeSlashes
<1>6. CASE c = "quote"
  <2>1. d - 1 \in Nat /\ 2 * (d - 1) \in Nat /\ (2 * (d - 1)) + 1 = 2 * d - 1
    BY <1>1
  <2> DEFINE w == Times("slash", 2 * (d - 1))
  <2>2. Times("slash", d - 1) \in Text /\ w \in Text
        /\ Times("slash", (2 * (d - 1)) + 1) = Append(w, "slash")
    BY <2>1, TimesFacts DEF Char
  <2>3. Times("slash", 2 * d - 1) = Append(w, "slash")
    BY <2>1, <2>2
  <2>4. Escape(Append(Times("slash", d - 1), "quote"))
          = Escape(Times("slash", d - 1)) \o EscapeOf["quote"]
    BY <1>6, <2>2, EscapeFacts
  <2>5. Escape(Times("slash", d - 1)) = w
    BY <2>1, EscapeSlashes
  <2> HIDE DEF w
  <2>6. EscapeOf["quote"] = <<"slash", "quote">>
    BY DEF EscapeOf, Char
  <2>7. w \o <<"slash", "quote">> = Append(Append(w, "slash"), "quote")
    <3>1. w \in Seq(Char) /\ "slash" \in Char /\ "quote" \in Char
      BY <2>2 DEF Text, Char
    <3> QED BY <3>1
  <2> QED BY <1>2, <1>3, <1>6, <2>3, <2>4, <2>5, <2>6, <2>7
<1> QED BY <1>4, <1>5, <1>6 DEF Char

\* A value that was written n times, escaped, has been written once more.
LEMMA EscapeAged ==
    ASSUME NEW t \in Text, NEW n \in Nat
    PROVE  Escape(Aged(t, n)) = Aged(t, n + 1)
<1> DEFINE G == {u \in Text : Escape(Aged(u, n)) = Aged(u, n + 1)}
<1>0. Text = Seq(Char) /\ n + 1 \in Nat /\ <<>> \in Text
  BY EmptySeq DEF Text
<1>1. <<>> \in G
  BY <1>0, AgedFacts, EscapeFacts
<1>2. ASSUME NEW u \in Seq(Char), NEW c \in Char, u \in G PROVE Append(u, c) \in G
  <2>1. u \in Text /\ Append(u, c) \in Text
    BY <1>0, AppendProperties
  <2>2. /\ Aged(u, n) \in Text /\ AgedOf(n)[c] \in Text
        /\ Aged(Append(u, c), n) = Aged(u, n) \o AgedOf(n)[c]
        /\ Aged(Append(u, c), n + 1) = Aged(u, n + 1) \o AgedOf(n + 1)[c]
    BY <1>0, <2>1, AgedFacts, AgedOfMaps DEF Maps
  <2>3. Escape(Aged(u, n) \o AgedOf(n)[c]) = Escape(Aged(u, n)) \o Escape(AgedOf(n)[c])
    BY <2>2, EscapeFacts
  <2>4. Escape(AgedOf(n)[c]) = AgedOf(n + 1)[c]
    BY EscapeAgedOf
  <2> QED BY <1>2, <2>1, <2>2, <2>3, <2>4
<1> HIDE DEF G
<1>3. Seq(Char) \subseteq G
  BY <1>1, <1>2, SeqStep
<1> QED BY <1>0, <1>3 DEF G

\* What was never written is read as it is, and so is what needs no escapes.
LEMMA AgedZero ==
    ASSUME NEW t \in Text
    PROVE  Aged(t, 0) = t
<1> DEFINE G == {u \in Text : Aged(u, 0) = u}
<1>0. Text = Seq(Char) /\ 0 \in Nat /\ <<>> \in Text
  BY EmptySeq DEF Text
<1>1. <<>> \in G
  BY <1>0, AgedFacts
<1>2. \A c \in Char : AgedOf(0)[c] = <<c>>
  <2>1. Doubled(0) = 1 /\ Doubled(0) - 1 = 0
    BY DoubledFacts
  <2>2. Times("slash", 0) = <<>> /\ Times("slash", 0 + 1) = Append(<<>>, "slash")
    BY TimesFacts DEF Char
  <2>3. Append(<<>>, "slash") = <<"slash">> /\ Append(<<>>, "quote") = <<"quote">>
    OBVIOUS
  <2>4. /\ AgedOf(0)["plain"] = <<"plain">> /\ AgedOf(0)["slash"] = Times("slash", Doubled(0))
        /\ AgedOf(0)["quote"] = Append(Times("slash", Doubled(0) - 1), "quote")
    BY DEF AgedOf, Char
  <2>5. /\ AgedOf(0)["plain"] = <<"plain">> /\ AgedOf(0)["slash"] = <<"slash">>
        /\ AgedOf(0)["quote"] = <<"quote">>
    BY <2>1, <2>2, <2>3, <2>4
  <2> QED BY <2>5 DEF Char
<1>3. ASSUME NEW u \in Seq(Char), NEW c \in Char, u \in G PROVE Append(u, c) \in G
  <2>1. Append(u, c) \in Text /\ u \in Text
    BY <1>0, AppendProperties
  <2>2. Aged(Append(u, c), 0) = Aged(u, 0) \o AgedOf(0)[c]
    BY <1>0, <2>1, AgedFacts
  <2> QED BY <1>2, <1>3, <2>1, <2>2, AppendIsConcat
<1> HIDE DEF G
<1>4. Seq(Char) \subseteq G
  BY <1>1, <1>3, SeqStep
<1> QED BY <1>0, <1>4 DEF G

LEMMA AgedPlain ==
    ASSUME NEW t \in Text, \A i \in DOMAIN t : t[i] = "plain", NEW n \in Nat
    PROVE  Aged(t, n) = t
<1> DEFINE P == {"plain"}
           G == {u \in Text : Aged(u, n) = u}
<1>0. Text = Seq(Char) /\ <<>> \in Text /\ P \subseteq Char
  BY EmptySeq DEF Text, Char
<1>1. <<>> \in G
  BY <1>0, AgedFacts
<1>2. ASSUME NEW u \in Seq(P), NEW c \in P, u \in G PROVE Append(u, c) \in G
  <2>1. c = "plain" /\ c \in Char /\ u \in Text /\ u \in Seq(Char)
    BY <1>0, <1>2
  <2>2. Append(u, c) \in Text
    BY <1>0, <2>1, AppendProperties
  <2>3. AgedOf(n)[c] = <<c>>
    BY <2>1 DEF AgedOf
  <2>4. Aged(Append(u, c), n) = Aged(u, n) \o AgedOf(n)[c]
    BY <2>1, AgedFacts
  <2> QED BY <1>2, <2>1, <2>2, <2>3, <2>4, AppendIsConcat
<1> HIDE DEF G
<1>3. Seq(P) \subseteq G
  <2> HIDE DEF P
  <2> QED BY <1>1, <1>2, SeqStep
<1>4. t \in Seq(P)
  <2>1. Len(t) \in Nat /\ DOMAIN t = 1 .. Len(t) /\ t \in [1 .. Len(t) -> Char]
    BY <1>0, LenProperties
  <2>2. t \in [1 .. Len(t) -> P]
    BY <2>1
  <2> QED BY <2>1, <2>2, SeqDef
<1> QED BY <1>3, <1>4 DEF G

\* What write puts between quotation marks is what unquote takes out.
LEMMA UnquoteQuoted ==
    ASSUME NEW t \in Text
    PROVE  Unquote(Quoted(t)) = Escape(t) /\ Quoted(t) \in Text
<1> DEFINE e == Escape(t)
           q == <<"quote">> \o e \o <<"quote">>
<1>1. e \in Seq(Char) /\ Len(e) \in Nat
  BY EscapeFacts, LenProperties DEF Text
<1> HIDE DEF e
<1>2. /\ q \in Seq(Char) /\ Len(q) = Len(e) + 2 /\ q[1] = "quote"
      /\ q[Len(e) + 2] = "quote"
  BY <1>1 DEF Char
<1>3. SubSeq(q, 2, Len(q) - 1) = e
  BY <1>1, <1>2
<1>4. Head(q) = "quote" /\ Last(q) = "quote" /\ Len(q) >= 2
  BY <1>1, <1>2 DEF Last
<1> QED BY <1>2, <1>3, <1>4 DEF Unquote, Quoted, e, Text

(***************************************************************************)
(* Part 3: parse, line by line.                                            *)
(***************************************************************************)

Line == [kind : Kinds, text : Text]
HeaderLine == Line \ {Open}
Network == [ssid : Text \ {<<>>}, psk : Text]

State ==
    {st \in [header : Seq(HeaderLine), inBlock : BOOLEAN,
             cur : [ssid : Text, psk : Text], nets : Seq(Network),
             headerDone : BOOLEAN] : st.inBlock => st.headerDone}

LEMMA LineFacts ==
    /\ Open \in Line /\ Shut \in Line /\ Empty \in Line /\ Empty \in HeaderLine
    /\ Open # Shut /\ Open # Empty /\ Shut # Empty
    /\ \A t \in Text : /\ Field("ssid", t) \in HeaderLine /\ Field("ssid", t) # Shut
                       /\ Field("psk", t) \in HeaderLine /\ Field("psk", t) # Shut
<1>1. <<>> \in Text
  BY EmptySeq DEF Text
<1>2. Open.kind = "open" /\ Shut.kind = "shut" /\ Empty.kind = "empty"
  BY DEF Open, Shut, Empty, Bare
<1>3. Open \in Line /\ Shut \in Line /\ Empty \in Line
  BY <1>1 DEF Open, Shut, Empty, Bare, Line, Kinds
<1>4. ASSUME NEW t \in Text, NEW k \in {"ssid", "psk"}
      PROVE  Field(k, t) \in Line /\ Field(k, t).kind = k
  BY DEF Field, Line, Kinds
<1> QED BY <1>2, <1>3, <1>4 DEF HeaderLine

LEMMA UnquoteType ==
    ASSUME NEW t \in Text
    PROVE  Unquote(t) \in Text
<1>1. t \in Seq(Char) /\ Len(t) \in Nat /\ \A i \in 1 .. Len(t) : t[i] \in Char
  BY LenProperties, ElementOfSeq DEF Text
<1>2. SubSeq(t, 2, Len(t) - 1) \in Seq(Char)
  BY <1>1, SubSeqProperties
<1> QED BY <1>2 DEF Unquote, Text

LEMMA StartType == Start \in State
<1>1. <<>> \in Text /\ <<>> \in Seq(HeaderLine) /\ <<>> \in Seq(Network)
  BY EmptySeq DEF Text
<1> QED BY <1>1 DEF Start, NoNetwork, State

\* What a line does, by what it is.
LEMMA ScanFacts ==
    ASSUME NEW st \in State, NEW l \in Line
    PROVE  /\ l = Open => Scan(st, l) = Opened(st)
           /\ l # Open /\ ~st.headerDone =>
                Scan(st, l) = [st EXCEPT !.header = Append(@, l)]
           /\ l = Shut /\ st.inBlock => Scan(st, l) = Closed(st)
           /\ l.kind = "ssid" /\ st.inBlock =>
                Scan(st, l) = [st EXCEPT !.cur.ssid = Unquote(l.text)]
           /\ l.kind = "psk" /\ st.inBlock =>
                Scan(st, l) = [st EXCEPT !.cur.psk = Unquote(l.text)]
           /\ st.headerDone /\ ~st.inBlock /\ l # Open => Scan(st, l) = st
           /\ st.inBlock /\ l \notin {Open, Shut} /\ l.kind \notin {"ssid", "psk"} =>
                Scan(st, l) = st
<1>1. st.inBlock => st.headerDone
  BY DEF State
<1>2. Open.kind = "open" /\ Shut.kind = "shut"
  BY DEF Open, Shut, Bare
<1>3. Open # Shut
  BY LineFacts
<1>4. CASE l = Open BY <1>1, <1>2, <1>3, <1>4 DEF Scan
<1>5. CASE l = Shut BY <1>1, <1>2, <1>3, <1>5 DEF Scan
<1>6. CASE l # Open /\ l # Shut BY <1>1, <1>2, <1>6 DEF Scan
<1> QED BY <1>4, <1>5, <1>6

LEMMA ScanType ==
    ASSUME NEW st \in State, NEW l \in Line
    PROVE  Scan(st, l) \in State
<1>0. /\ st.header \in Seq(HeaderLine) /\ st.nets \in Seq(Network)
      /\ st.cur \in [ssid : Text, psk : Text] /\ l.text \in Text
      /\ st \in [header : Seq(HeaderLine), inBlock : BOOLEAN,
                 cur : [ssid : Text, psk : Text], nets : Seq(Network),
                 headerDone : BOOLEAN]
  BY DEF State, Line
<1>1. <<>> \in Text /\ Unquote(l.text) \in Text
  BY <1>0, EmptySeq, UnquoteType DEF Text
<1>2. CASE l = Open
  <2>1. Scan(st, l) = Opened(st)
    BY <1>2, ScanFacts
  <2>2. NoNetwork \in [ssid : Text, psk : Text]
    BY <1>1 DEF NoNetwork
  <2> QED BY <2>1, <2>2, <1>0 DEF Opened, State
<1>3. CASE l # Open /\ ~st.headerDone
  <2>1. Append(st.header, l) \in Seq(HeaderLine)
    <3>1. l \in HeaderLine
      BY <1>3 DEF HeaderLine
    <3> QED BY <3>1, <1>0, AppendProperties
  <2>2. Scan(st, l) = [st EXCEPT !.header = Append(@, l)]
    BY <1>3, ScanFacts
  <2> QED BY <2>1, <2>2, <1>0 DEF State
<1>4. CASE l = Shut /\ st.inBlock
  <2>1. Scan(st, l) = Closed(st)
    BY <1>4, ScanFacts
  <2>2. st.cur.ssid # <<>> => Append(st.nets, st.cur) \in Seq(Network)
    <3>1. st.cur.ssid # <<>> => st.cur \in Network
      BY <1>0 DEF Network
    <3> QED BY <3>1, <1>0, AppendProperties
  <2> QED BY <2>1, <2>2, <1>0 DEF Closed, State
<1>5. CASE l.kind = "ssid" /\ st.inBlock
  <2>1. Scan(st, l) = [st EXCEPT !.cur.ssid = Unquote(l.text)]
    BY <1>5, ScanFacts
  <2> QED BY <2>1, <1>0, <1>1 DEF State
<1>6. CASE l.kind = "psk" /\ st.inBlock
  <2>1. Scan(st, l) = [st EXCEPT !.cur.psk = Unquote(l.text)]
    BY <1>6, ScanFacts
  <2> QED BY <2>1, <1>0, <1>1 DEF State
<1>7. CASE /\ l # Open /\ st.headerDone
           /\ ~(l = Shut /\ st.inBlock) /\ ~(l.kind = "ssid" /\ st.inBlock)
           /\ ~(l.kind = "psk" /\ st.inBlock)
  <2>1. Scan(st, l) = st
    BY <1>7, ScanFacts
  <2> QED BY <2>1
<1> QED BY <1>2, <1>3, <1>4, <1>5, <1>6, <1>7

LEMMA ScannedDefined ==
    ASSUME NEW f \in Seq(Line)
    PROVE  /\ Scanned(f) \in [0 .. Len(f) -> State] /\ Scanned(f)[0] = Start
           /\ \A i \in 1 .. Len(f) : Scanned(f)[i] = Scan(Scanned(f)[i - 1], f[i])
<1> DEFINE n == Len(f)
           step == [i \in 1 .. n |-> [st \in State |-> Scan(st, f[i])]]
           IsScan(g) == g = [i \in 0 .. Len(f) |->
                               IF i = 0 THEN Start ELSE Scan(g[i - 1], f[i])]
           scan == CHOOSE g : IsScan(g)
<1>1. n \in Nat /\ \A i \in 1 .. n : f[i] \in Line
  BY LenProperties, ElementOfSeq
<1>2. Stays(State, n, step)
  <2> SUFFICES ASSUME NEW i \in 1 .. n, NEW st \in State PROVE Scan(st, f[i]) \in State
    BY DEF Stays
  <2> QED BY <1>1, ScanType
<1> HIDE DEF n, step
<1>3. PICK g : Solves(g, State, n, Start, step)
  BY <1>1, <1>2, StartType, Recursion
<1>4. /\ g \in [0 .. n -> State] /\ g[0] = Start
      /\ \A i \in 1 .. n : g[i] = step[i][g[i - 1]]
  BY <1>3 DEF Solves
<1>5. \A i \in 1 .. n : g[i] = Scan(g[i - 1], f[i])
  <2> SUFFICES ASSUME NEW i \in 1 .. n PROVE g[i] = Scan(g[i - 1], f[i])
    OBVIOUS
  <2>1. g[i - 1] \in State
    BY <1>1, <1>4
  <2> QED BY <2>1, <1>4 DEF step
<1>6. IsScan(g)
  <2>1. \A i \in 0 .. n : g[i] = IF i = 0 THEN Start ELSE Scan(g[i - 1], f[i])
    <3> SUFFICES ASSUME NEW i \in 0 .. n
                 PROVE  g[i] = IF i = 0 THEN Start ELSE Scan(g[i - 1], f[i])
      OBVIOUS
    <3>1. i # 0 => i \in 1 .. n
      BY <1>1
    <3> QED BY <3>1, <1>4, <1>5
  <2> QED BY <2>1, <1>4 DEF n
<1>7. IsScan(scan) /\ Scanned(f) = scan
  BY <1>6 DEF Scanned
<1> HIDE DEF scan
<1>8. scan[0] = Start /\ \A i \in 1 .. n : scan[i] = Scan(scan[i - 1], f[i])
  BY <1>1, <1>7 DEF n
<1>9. \A i \in 0 .. n : scan[i] = g[i]
  <2>1. \A i \in 1 .. n : scan[i - 1] = g[i - 1] => scan[i] = g[i]
    BY <1>5, <1>8
  <2>2. scan[0] = g[0] /\ n \in Nat
    BY <1>1, <1>4, <1>8
  <2>3. Alike(scan, g, n)
    BY <2>1, <2>2 DEF Alike
  <2> QED BY <2>2, <2>3, Agreement
<1>10. scan \in [0 .. n -> State]
  BY <1>4, <1>7, <1>9 DEF n
<1> QED BY <1>7, <1>8, <1>10 DEF n

\* One more line is one more turn of the loop.
LEMMA ParsedAppend ==
    /\ Parsed(<<>>) = Start
    /\ \A f \in Seq(Line) : /\ Parsed(f) \in State
                            /\ \A l \in Line : Parsed(Append(f, l)) = Scan(Parsed(f), l)
<1>1. Parsed(<<>>) = Start
  <2>1. <<>> \in Seq(Line) /\ Len(<<>>) = 0
    BY EmptySeq
  <2> QED BY <2>1, ScannedDefined DEF Parsed
<1>2. ASSUME NEW f \in Seq(Line) PROVE Parsed(f) \in State
  <2>1. Len(f) \in 0 .. Len(f)
    BY LenProperties
  <2> QED BY <2>1, ScannedDefined DEF Parsed
<1>3. ASSUME NEW f \in Seq(Line), NEW l \in Line
      PROVE  Parsed(Append(f, l)) = Scan(Parsed(f), l)
  <2> DEFINE n == Len(f)
             u == Append(f, l)
             g == Scanned(f)
             h == Scanned(u)
  <2>1. /\ n \in Nat /\ u \in Seq(Line) /\ Len(u) = n + 1 /\ u[n + 1] = l
        /\ \A i \in 1 .. n : u[i] = f[i]
    BY AppendProperties, LenProperties
  <2>2. g[0] = Start /\ \A i \in 1 .. n : g[i] = Scan(g[i - 1], f[i])
    BY ScannedDefined
  <2>3. h[0] = Start /\ \A i \in 1 .. n + 1 : h[i] = Scan(h[i - 1], u[i])
    <3> HIDE DEF u
    <3> QED BY <2>1, ScannedDefined
  <2> HIDE DEF g, h, u, n
  <2>4. \A i \in 1 .. n : g[i - 1] = h[i - 1] => g[i] = h[i]
    <3> SUFFICES ASSUME NEW i \in 1 .. n, g[i - 1] = h[i - 1] PROVE g[i] = h[i]
      OBVIOUS
    <3>1. i \in 1 .. n + 1
      BY <2>1
    <3> QED BY <3>1, <2>1, <2>2, <2>3
  <2>5. \A i \in 0 .. n : g[i] = h[i]
    <3>1. g[0] = h[0] /\ n \in Nat
      BY <2>1, <2>2, <2>3
    <3>2. Alike(g, h, n)
      BY <3>1, <2>4 DEF Alike
    <3> QED BY <3>1, <3>2, Agreement
  <2>6. n \in 0 .. n /\ n + 1 \in 1 .. n + 1 /\ (n + 1) - 1 = n
    BY <2>1
  <2>7. h[n + 1] = Scan(g[n], l)
    BY <2>1, <2>3, <2>5, <2>6
  <2> QED BY <2>1, <2>7 DEF Parsed, g, h, u, n
<1> QED BY <1>1, <1>2, <1>3

(***************************************************************************)
(* Part 4: what write writes is parsed back, with one layer of escapes.    *)
(***************************************************************************)

Keeping(A, K) == [a \in A |-> IF a \in K THEN <<>> ELSE <<a>>]

LEMMA WithoutFacts ==
    ASSUME NEW A, NEW K, NEW seq \in Seq(A)
    PROVE  /\ Without(seq, K) \in Seq(A) /\ Without(<<>>, K) = <<>>
           /\ \A a \in A : Without(Append(seq, a), K) =
                IF a \in K THEN Without(seq, K) ELSE Append(Without(seq, K), a)
<1> DEFINE h == Keeping(A, K)
<1>1. Maps(h, A, Seq(A))
  <2> SUFFICES ASSUME NEW a \in A PROVE h[a] \in Seq(A)
    BY DEF Maps
  <2>1. <<>> \in Seq(A) /\ <<a>> \in Seq(A)
    BY EmptySeq
  <2> QED BY <2>1 DEF Keeping
<1>2. \A t \in Seq(A) : Without(t, K) = FlatMap(h, t)
  <2> SUFFICES ASSUME NEW t \in Seq(A) PROVE Without(t, K) = FlatMap(h, t)
    OBVIOUS
  <2>1. \A i \in DOMAIN t : t[i] \in A
    BY LenProperties, ElementOfSeq
  <2>2. Mapped(h, t) = [i \in DOMAIN t |-> IF t[i] \in K THEN <<>> ELSE <<t[i]>>]
    BY <2>1 DEF Mapped, Keeping
  <2> QED BY <2>2 DEF Without, FlatMap
<1>3. \A a \in A : h[a] = IF a \in K THEN <<>> ELSE <<a>>
  BY DEF Keeping
<1> HIDE DEF h
<1>4. FlatMap(h, seq) \in Seq(A) /\ FlatMap(h, <<>>) = <<>> /\ <<>> \in Seq(A)
  BY <1>1, FlatMapFacts, EmptySeq
<1>5. ASSUME NEW a \in A
      PROVE  Without(Append(seq, a), K) =
               IF a \in K THEN Without(seq, K) ELSE Append(Without(seq, K), a)
  <2> DEFINE w == FlatMap(h, seq)
  <2>1. FlatMap(h, Append(seq, a)) = w \o h[a]
    BY <1>1, FlatMapFacts
  <2>2. Append(seq, a) \in Seq(A)
    BY AppendProperties
  <2>3. w \in Seq(A) /\ Without(seq, K) = w /\ Without(Append(seq, a), K) = w \o h[a]
    BY <1>2, <1>4, <2>1, <2>2
  <2> HIDE DEF w
  <2>4. w \o <<>> = w /\ w \o <<a>> = Append(w, a)
    BY <2>3, ConcatEmptySeq, AppendIsConcat
  <2> QED BY <1>3, <2>3, <2>4
<1> QED BY <1>2, <1>4, <1>5

\* Ending the last line takes an empty line off the end, and nothing else.
LEMMA TerminatedFacts ==
    ASSUME NEW h \in Seq(HeaderLine)
    PROVE  /\ Terminated(h) \in Seq(HeaderLine)
           /\ Meaningful(Terminated(h)) = Meaningful(h)
           /\ Meaningful(Append(Terminated(h), Empty)) = Meaningful(h)
           /\ Terminated(h) \o <<Empty>> = Append(Terminated(h), Empty)
           /\ Len(Terminated(h)) =
                IF h # <<>> /\ Last(h) = Empty THEN Len(h) - 1 ELSE Len(h)
<1>0. Empty \in HeaderLine
  BY LineFacts
<1>1. \A u \in Seq(HeaderLine) : Meaningful(Append(u, Empty)) = Meaningful(u)
  BY <1>0, WithoutFacts DEF Meaningful
<1>2. CASE h # <<>> /\ Last(h) = Empty
  <2>1. PICK u \in Seq(HeaderLine), e \in HeaderLine : h = Append(u, e)
    BY <1>2, SequenceEmptyOrAppend
  <2>2. Len(h) = Len(u) + 1 /\ h[Len(u) + 1] = e /\ Len(u) \in Nat
    BY <2>1, AppendProperties, LenProperties
  <2>3. e = Empty
    BY <1>2, <2>2 DEF Last
  <2>4. Front(h) = u
    BY <2>1, <2>2 DEF Front
  <2>5. Terminated(h) = u
    BY <1>2, <2>4 DEF Terminated
  <2>6. Append(u, Empty) = u \o <<Empty>>
    BY <1>0, AppendIsConcat
  <2>7. Meaningful(h) = Meaningful(u) /\ Meaningful(Append(u, Empty)) = Meaningful(h)
    BY <1>1, <2>1, <2>3
  <2>8. Len(u) = Len(h) - 1
    BY <2>2
  <2> QED BY <1>2, <2>5, <2>6, <2>7, <2>8
<1>3. CASE ~(h # <<>> /\ Last(h) = Empty)
  <2>1. Terminated(h) = h
    BY <1>3 DEF Terminated
  <2> QED BY <1>0, <1>1, <1>3, <2>1, AppendIsConcat
<1> QED BY <1>2, <1>3

LEMMA ParsedHeader ==
    ASSUME NEW h \in Seq(HeaderLine)
    PROVE  /\ Parsed(h).header = h /\ Parsed(h).nets = <<>>
           /\ ~Parsed(h).inBlock /\ ~Parsed(h).headerDone
<1> DEFINE G == {u \in Seq(HeaderLine) :
                   /\ Parsed(u).header = u /\ Parsed(u).nets = <<>>
                   /\ ~Parsed(u).inBlock /\ ~Parsed(u).headerDone}
<1>1. <<>> \in G
  <2>1. <<>> \in Seq(HeaderLine) /\ Parsed(<<>>) = Start
    BY EmptySeq, ParsedAppend
  <2> QED BY <2>1 DEF Start
<1>2. ASSUME NEW u \in Seq(HeaderLine), NEW l \in HeaderLine, u \in G
      PROVE  Append(u, l) \in G
  <2> DEFINE st == Parsed(u)
  <2>1. /\ u \in Seq(Line) /\ l \in Line /\ l # Open
        /\ Append(u, l) \in Seq(HeaderLine)
    BY SeqMonotonic, AppendProperties DEF HeaderLine
  <2>2. st \in State /\ Parsed(Append(u, l)) = Scan(st, l)
    BY <2>1, ParsedAppend
  <2>3. st.header = u /\ st.nets = <<>> /\ ~st.inBlock /\ ~st.headerDone
    BY <1>2
  <2> HIDE DEF st
  <2>4. Parsed(Append(u, l)) = [st EXCEPT !.header = Append(@, l)]
    BY <2>1, <2>2, <2>3, ScanFacts
  <2> QED BY <2>1, <2>2, <2>3, <2>4 DEF State
<1> HIDE DEF G
<1>3. Seq(HeaderLine) \subseteq G
  BY <1>1, <1>2, SeqStep
<1> QED BY <1>3 DEF G

EscapedNet == [n \in Network |-> [ssid |-> Escape(n.ssid), psk |-> Escape(n.psk)]]

LEMMA EscapedNetMaps == Maps(EscapedNet, Network, Network)
  BY EscapeFacts DEF Maps, EscapedNet, Network

\* parse of one more block that write has written.
LEMMA ParsedBlock ==
    ASSUME NEW f \in Seq(Line), ~Parsed(f).inBlock, NEW n \in Network
    PROVE  LET st == Parsed(f)
               p  == Parsed(f \o Block(n))
           IN  /\ f \o Block(n) \in Seq(Line)
               /\ p.header = IF st.headerDone THEN st.header ELSE Append(st.header, Empty)
               /\ ~p.inBlock /\ p.headerDone
               /\ p.nets = Append(st.nets, EscapedNet[n])
<1> DEFINE l3 == Field("ssid", Quoted(n.ssid))
           l4 == Field("psk", Quoted(n.psk))
           f1 == Append(f, Empty)
           f2 == Append(f1, Open)
           f3 == Append(f2, l3)
           f4 == Append(f3, l4)
           f5 == Append(f4, Shut)
           st == Parsed(f)
           s1 == Scan(st, Empty)
           s2 == Scan(s1, Open)
           s3 == Scan(s2, l3)
           s4 == Scan(s3, l4)
           s5 == Scan(s4, Shut)
<1>1. /\ n.ssid \in Text /\ n.ssid # <<>> /\ n.psk \in Text
      /\ Unquote(Quoted(n.ssid)) = Escape(n.ssid) /\ Quoted(n.ssid) \in Text
      /\ Unquote(Quoted(n.psk)) = Escape(n.psk) /\ Quoted(n.psk) \in Text
      /\ Escape(n.ssid) # <<>>
  BY UnquoteQuoted, EscapeFacts DEF Network
<1>2. /\ Empty \in Line /\ Open \in Line /\ Shut \in Line /\ l3 \in Line /\ l4 \in Line
      /\ Empty # Open /\ Empty # Shut /\ Open # Shut
      /\ l3.kind = "ssid" /\ l3.text = Quoted(n.ssid)
      /\ l4.kind = "psk" /\ l4.text = Quoted(n.psk)
  BY <1>1, LineFacts DEF HeaderLine, Field
<1>3. f \o Block(n) = f5
  <2>1. Block(n) = <<Empty, Open, l3, l4, Shut>>
    BY DEF Block
  <2> HIDE DEF l3, l4
  <2> QED BY <2>1, <1>2
<1> HIDE DEF l3, l4
<1>4. f1 \in Seq(Line) /\ f2 \in Seq(Line) /\ f3 \in Seq(Line) /\ f4 \in Seq(Line)
      /\ f5 \in Seq(Line)
  BY <1>2, AppendProperties
<1> HIDE DEF f1, f2, f3, f4, f5
<1>5. Parsed(f1) = s1 /\ Parsed(f2) = s2 /\ Parsed(f3) = s3 /\ Parsed(f4) = s4
      /\ Parsed(f5) = s5 /\ st \in State
  <2>1. Parsed(f1) = Scan(Parsed(f), Empty) BY <1>2, ParsedAppend DEF f1
  <2>2. Parsed(f2) = Scan(Parsed(f1), Open) BY <1>2, <1>4, ParsedAppend DEF f2
  <2>3. Parsed(f3) = Scan(Parsed(f2), l3) BY <1>2, <1>4, ParsedAppend DEF f3
  <2>4. Parsed(f4) = Scan(Parsed(f3), l4) BY <1>2, <1>4, ParsedAppend DEF f4
  <2>5. Parsed(f5) = Scan(Parsed(f4), Shut) BY <1>2, <1>4, ParsedAppend DEF f5
  <2> QED BY <2>1, <2>2, <2>3, <2>4, <2>5, ParsedAppend
<1>6. s1 \in State /\ s2 \in State /\ s3 \in State /\ s4 \in State
  BY <1>2, <1>5, ScanType
<1> HIDE DEF st, s1, s2, s3, s4, s5
<1>7. /\ s1.header = IF st.headerDone THEN st.header ELSE Append(st.header, Empty)
      /\ s1.nets = st.nets
  <2>1. CASE st.headerDone
    BY <2>1, <1>2, <1>5, ScanFacts DEF s1, st
  <2>2. CASE ~st.headerDone
    <3>1. s1 = [st EXCEPT !.header = Append(@, Empty)]
      BY <2>2, <1>2, <1>5, ScanFacts DEF s1
    <3> QED BY <3>1, <2>2, <1>5 DEF State
  <2> QED BY <2>1, <2>2
<1>8. s2.header = s1.header /\ s2.nets = s1.nets /\ s2.inBlock = TRUE /\ s2.headerDone = TRUE
  <2>1. s2 = Opened(s1)
    BY <1>2, <1>6, ScanFacts DEF s2
  <2> QED BY <2>1, <1>6 DEF Opened, State
<1>9. /\ s3.header = s1.header /\ s3.nets = s1.nets /\ s3.inBlock = TRUE /\ s3.headerDone = TRUE
      /\ s3.cur.ssid = Escape(n.ssid)
  <2>1. s3 = [s2 EXCEPT !.cur.ssid = Escape(n.ssid)]
    BY <1>1, <1>2, <1>6, <1>8, ScanFacts DEF s3
  <2> QED BY <2>1, <1>6, <1>8 DEF State
<1>10. /\ s4.header = s1.header /\ s4.nets = s1.nets /\ s4.inBlock = TRUE /\ s4.headerDone = TRUE
       /\ s4.cur.ssid = Escape(n.ssid) /\ s4.cur.psk = Escape(n.psk)
  <2>1. s4 = [s3 EXCEPT !.cur.psk = Escape(n.psk)]
    BY <1>1, <1>2, <1>6, <1>9, ScanFacts DEF s4
  <2> QED BY <2>1, <1>6, <1>9 DEF State
<1>11. s4.cur = EscapedNet[n]
  <2>1. s4.cur \in [ssid : Text, psk : Text]
    BY <1>6 DEF State
  <2> QED BY <2>1, <1>10 DEF EscapedNet
<1>12. /\ s5.header = s1.header /\ s5.nets = Append(s1.nets, EscapedNet[n])
       /\ s5.inBlock = FALSE /\ s5.headerDone = TRUE
  <2>1. s5 = Closed(s4)
    BY <1>2, <1>6, <1>10, ScanFacts DEF s5
  <2> QED BY <2>1, <1>1, <1>6, <1>10, <1>11 DEF Closed, State
<1> QED BY <1>3, <1>4, <1>5, <1>7, <1>12 DEF st

\* The round trip through write and parse, for any header and networks: the networks come
\* back in their order with one more layer of escapes, and the header with an end
\* (config.go:125-199).
THEOREM RenderParsed ==
    ASSUME NEW h \in Seq(HeaderLine), NEW nets \in Seq(Network)
    PROVE  LET p == Parsed(Render(h, nets)) IN
           /\ Render(h, nets) \in Seq(Line)
           /\ p.header = IF nets = <<>> THEN Terminated(h) ELSE Append(Terminated(h), Empty)
           /\ p.nets = Mapped(EscapedNet, nets)
<1> DEFINE BlockOf == [n \in Network |-> Block(n)]
           t == Terminated(h)
           R(ns) == t \o FlatMap(BlockOf, ns)
           Good(ns) == LET p == Parsed(R(ns)) IN
             /\ R(ns) \in Seq(Line) /\ ~p.inBlock /\ p.headerDone = (ns # <<>>)
             /\ p.header = IF ns = <<>> THEN t ELSE Append(t, Empty)
             /\ p.nets = Mapped(EscapedNet, ns)
           G == {ns \in Seq(Network) : Good(ns)}
<1>1. t \in Seq(HeaderLine) /\ t \in Seq(Line)
  BY TerminatedFacts, SeqMonotonic DEF HeaderLine
<1>2. Maps(BlockOf, Network, Seq(Line))
  <2> SUFFICES ASSUME NEW n \in Network PROVE Block(n) \in Seq(Line)
    BY DEF Maps
  <2>1. Field("ssid", Quoted(n.ssid)) \in Line /\ Field("psk", Quoted(n.psk)) \in Line
    BY UnquoteQuoted, LineFacts DEF Network, HeaderLine
  <2> QED BY <2>1, LineFacts DEF Block
<1>3. \A n \in Network : BlockOf[n] = Block(n)
  OBVIOUS
<1>4. \A ns \in Seq(Network) : Render(h, ns) = R(ns)
  <2> SUFFICES ASSUME NEW ns \in Seq(Network)
               PROVE  Mapped(BlockOf, ns) = [i \in DOMAIN ns |-> Block(ns[i])]
    BY DEF Render, FlatMap
  <2>1. \A i \in DOMAIN ns : ns[i] \in Network
    BY LenProperties, ElementOfSeq
  <2> QED BY <2>1 DEF Mapped
<1> HIDE DEF BlockOf, t
<1>5. <<>> \in G
  <2>1. <<>> \in Seq(Network) /\ FlatMap(BlockOf, <<>>) = <<>>
    BY <1>2, EmptySeq, FlatMapFacts
  <2>2. R(<<>>) = t
    BY <1>1, <2>1, ConcatEmptySeq
  <2>3. Mapped(EscapedNet, <<>>) = <<>>
    BY DEF Mapped
  <2>4. /\ Parsed(t).header = t /\ Parsed(t).nets = <<>>
        /\ ~Parsed(t).inBlock /\ ~Parsed(t).headerDone /\ Parsed(t) \in State
    BY <1>1, ParsedHeader, ParsedAppend
  <2>5. Parsed(t).headerDone = FALSE
    BY <2>4 DEF State
  <2> QED BY <1>1, <2>1, <2>2, <2>3, <2>4, <2>5
<1>6. ASSUME NEW ns \in Seq(Network), NEW n \in Network, ns \in G PROVE Append(ns, n) \in G
  <2> DEFINE r == R(ns)
             m == Append(ns, n)
             p == Parsed(R(m))
  <2>1. m \in Seq(Network) /\ m # <<>>
    BY AppendProperties
  <2>2. R(m) = r \o Block(n)
    <3> DEFINE x == FlatMap(BlockOf, ns)
               y == BlockOf[n]
    <3>1. x \in Seq(Line) /\ FlatMap(BlockOf, m) = x \o y
      BY <1>2, FlatMapFacts
    <3>2. y \in Seq(Line)
      BY <1>2 DEF Maps
    <3> HIDE DEF x, y
    <3>3. t \o (x \o y) = (t \o x) \o y
      <4>1. t \in Seq(Line)
        BY <1>1
      <4> QED BY <4>1, <3>1, <3>2, ConcatAssociative, SMTT(30)
    <3> QED BY <1>3, <3>1, <3>3 DEF x, y
  <2>3. /\ r \in Seq(Line) /\ ~Parsed(r).inBlock /\ Parsed(r).headerDone = (ns # <<>>)
        /\ Parsed(r).header = IF ns = <<>> THEN t ELSE Append(t, Empty)
        /\ Parsed(r).nets = Mapped(EscapedNet, ns)
    BY <1>6
  <2>4. Mapped(EscapedNet, m) = Append(Mapped(EscapedNet, ns), EscapedNet[n])
    BY EscapedNetMaps, MappedFacts
  <2> HIDE DEF r, m, R
  <2>5. /\ R(m) \in Seq(Line) /\ ~p.inBlock /\ p.headerDone
        /\ p.header = IF Parsed(r).headerDone THEN Parsed(r).header
                                              ELSE Append(Parsed(r).header, Empty)
        /\ p.nets = Append(Parsed(r).nets, EscapedNet[n])
    BY <2>2, <2>3, ParsedBlock
  <2>6. p \in State
    BY <2>5, ParsedAppend
  <2>7. p.headerDone = TRUE
    BY <2>5, <2>6 DEF State
  <2>8. p.header = Append(t, Empty)
    BY <2>3, <2>5
  <2>9. Good(m)
    BY <2>1, <2>3, <2>4, <2>5, <2>7, <2>8
  <2> QED BY <2>1, <2>9 DEF m
<1> HIDE DEF G
<1>7. Seq(Network) \subseteq G
  BY <1>5, <1>6, SeqStep
<1>8. Good(nets)
  BY <1>7 DEF G
<1> QED BY <1>4, <1>8 DEF t

(***************************************************************************)
(* Part 5: the book, and what is left of it without a name.                *)
(***************************************************************************)

Entry == [ssid : Text \ {<<>>}, psk : Text, age : Nat]
Reading == [b \in Entry |-> ReadAs(b)]
Aging == [b \in Entry |-> [b EXCEPT !.age = @ + 1]]

\* A network that is written and read again has aged.
LEMMA ReadingFacts ==
    /\ Maps(Reading, Entry, Network) /\ Maps(Aging, Entry, Entry)
    /\ \A b \in Entry : EscapedNet[Reading[b]] = Reading[Aging[b]]
<1> SUFFICES ASSUME NEW b \in Entry
             PROVE  /\ Reading[b] \in Network /\ Aging[b] \in Entry
                    /\ EscapedNet[Reading[b]] = Reading[Aging[b]]
  BY DEF Maps
<1>1. b.ssid \in Text /\ b.ssid # <<>> /\ b.psk \in Text /\ b.age \in Nat
  BY DEF Entry
<1>2. /\ Aged(b.ssid, b.age) \in Text \ {<<>>} /\ Aged(b.psk, b.age) \in Text
  BY <1>1, AgedFacts
<1>3. /\ Reading[b] = ReadAs(b) /\ ReadAs(b) \in Network
      /\ ReadAs(b).ssid = Aged(b.ssid, b.age) /\ ReadAs(b).psk = Aged(b.psk, b.age)
  BY <1>2 DEF Reading, ReadAs, Network
<1>4. /\ Aging[b] \in Entry /\ Aging[b].ssid = b.ssid /\ Aging[b].psk = b.psk
      /\ Aging[b].age = b.age + 1
  BY DEF Aging, Entry
<1>5. Reading[Aging[b]] = [ssid |-> Aged(b.ssid, b.age + 1), psk |-> Aged(b.psk, b.age + 1)]
  BY <1>4 DEF Reading, ReadAs
<1>6. EscapedNet[ReadAs(b)] = [ssid |-> Escape(Aged(b.ssid, b.age)),
                               psk |-> Escape(Aged(b.psk, b.age))]
  BY <1>3 DEF EscapedNet
<1>7. /\ Escape(Aged(b.ssid, b.age)) = Aged(b.ssid, b.age + 1)
      /\ Escape(Aged(b.psk, b.age)) = Aged(b.psk, b.age + 1)
  BY <1>1, EscapeAged
<1> QED BY <1>3, <1>4, <1>5, <1>6, <1>7

\* Only the elements that occur matter to what is taken out.
LEMMA WithoutRange ==
    ASSUME NEW A, NEW seq \in Seq(A), NEW K, NEW M,
           \A a \in A : a \in Range(seq) => (a \in K <=> a \in M)
    PROVE  Without(seq, K) = Without(seq, M)
<1>1. \A i \in DOMAIN seq : seq[i] \in A /\ seq[i] \in Range(seq)
  BY LenProperties, ElementOfSeq DEF Range
<1>2. \A i \in DOMAIN seq : (IF seq[i] \in K THEN <<>> ELSE <<seq[i]>>)
                          = (IF seq[i] \in M THEN <<>> ELSE <<seq[i]>>)
  BY <1>1
<1>3. [i \in DOMAIN seq |-> IF seq[i] \in K THEN <<>> ELSE <<seq[i]>>]
        = [i \in DOMAIN seq |-> IF seq[i] \in M THEN <<>> ELSE <<seq[i]>>]
  BY <1>2
<1> QED BY <1>3 DEF Without

\* Taking out before or after a function is the same.
LEMMA WithoutMapped ==
    ASSUME NEW A, NEW B, NEW h, Maps(h, A, B), NEW K, NEW M,
           \A a \in A : a \in K <=> h[a] \in M, NEW seq \in Seq(A)
    PROVE  Mapped(h, Without(seq, K)) = Without(Mapped(h, seq), M)
<1> DEFINE G == {s \in Seq(A) : Mapped(h, Without(s, K)) = Without(Mapped(h, s), M)}
<1>1. <<>> \in G
  <2>1. <<>> \in Seq(A) /\ Without(<<>>, K) = <<>> /\ Without(<<>>, M) = <<>>
    BY EmptySeq, WithoutFacts
  <2>2. Mapped(h, <<>>) = <<>>
    BY DEF Mapped
  <2> QED BY <2>1, <2>2
<1>2. ASSUME NEW s \in Seq(A), NEW a \in A, s \in G PROVE Append(s, a) \in G
  <2> DEFINE w == Without(s, K)
             m == Mapped(h, s)
             e == h[a]
  <2>1. /\ Append(s, a) \in Seq(A) /\ w \in Seq(A)
        /\ Without(Append(s, a), K) = IF a \in K THEN w ELSE Append(w, a)
    BY AppendProperties, WithoutFacts
  <2>2. m \in Seq(B) /\ Mapped(h, Append(s, a)) = Append(m, e) /\ e \in B
    <3>1. e \in B
      BY DEF Maps
    <3> QED BY <3>1, MappedFacts
  <2>3. Mapped(h, w) = Without(m, M)
    BY <1>2
  <2>4. Mapped(h, Append(w, a)) = Append(Mapped(h, w), e)
    <3> HIDE DEF w
    <3> QED BY <2>1, MappedFacts
  <2> HIDE DEF w, m, e
  <2>5. Without(Append(m, e), M) = IF e \in M THEN Without(m, M)
                                   ELSE Append(Without(m, M), e)
    BY <2>2, WithoutFacts
  <2>6. a \in K <=> e \in M
    BY DEF e
  <2>7. Mapped(h, Without(Append(s, a), K)) = Without(Mapped(h, Append(s, a)), M)
    BY <2>1, <2>2, <2>3, <2>4, <2>5, <2>6
  <2> QED BY <2>1, <2>7
<1> HIDE DEF G
<1>3. Seq(A) \subseteq G
  BY <1>1, <1>2, SeqStep
<1> QED BY <1>3 DEF G

LEMMA MappedTwice ==
    ASSUME NEW A, NEW B, NEW C, NEW g, NEW h, Maps(g, A, B), Maps(h, B, C), NEW s \in Seq(A)
    PROVE  Mapped(h, Mapped(g, s)) = [i \in DOMAIN s |-> h[g[s[i]]]]
<1>1. DOMAIN s = 1 .. Len(s) /\ DOMAIN Mapped(g, s) = DOMAIN s
  BY LenProperties DEF Mapped
<1> QED BY <1>1 DEF Mapped

(***************************************************************************)
(* Part 6: the steps.                                                      *)
(***************************************************************************)

\* Entries that have been written no more than n times.
EntryTo(n) == [ssid : Text \ {<<>>}, psk : Text, age : 0 .. n]

Inv == TypeOK /\ ReadsAsWritten

LEMMA InvFacts ==
    ASSUME Inv
    PROVE  /\ writes \in Nat /\ writes <= Writes
           /\ file \in Seq(Line) /\ Parsed(file) \in State
           /\ Parsed(file).header \in Seq(HeaderLine) /\ Nets(file) \in Seq(Network)
           /\ book \in Seq(EntryTo(writes)) /\ book \in Seq(Entry)
           /\ EntryTo(writes) \subseteq Entry
           /\ Nets(file) = Mapped(Reading, book)
<1>1. writes \in Nat /\ writes <= Writes /\ file \in Seq(Line)
      /\ book \in Seq(EntryTo(writes))
  BY FormatAssumption DEF Inv, TypeOK, Line, EntryTo
<1>2. EntryTo(writes) \subseteq Entry
  BY <1>1 DEF EntryTo, Entry
<1>3. book \in Seq(Entry)
  BY <1>1, <1>2, SeqMonotonic
<1>4. Parsed(file) \in State
  BY <1>1, ParsedAppend
<1>5. \A i \in DOMAIN book : book[i] \in Entry
  BY <1>3, LenProperties, ElementOfSeq
<1>6. [i \in DOMAIN book |-> ReadAs(book[i])] = Mapped(Reading, book)
  BY <1>5 DEF Mapped, Reading
<1> QED BY <1>1, <1>2, <1>3, <1>4, <1>6 DEF Inv, ReadsAsWritten, State, Nets

\* What is written is what the book says, before it ages.
Writing(bs) ==
    /\ bs \in Seq(EntryTo(writes))
    /\ Mapped(Reading, bs) \in Seq(Network)
    /\ Write(Render(Parsed(file).header, Mapped(Reading, bs)), bs)

LEMMA AddWrites ==
    ASSUME Inv, NEW s \in Names, NEW p \in Phrases, AddNetwork(s, p)
    PROVE  LET e == [ssid |-> s, psk |-> p, age |-> 0]
           IN  Writing(Append(book, e)) /\ Reading[e] = [ssid |-> s, psk |-> p]
<1> DEFINE e == [ssid |-> s, psk |-> p, age |-> 0]
<1>1. s \in Text /\ s # <<>> /\ p \in Text
  BY FormatAssumption
<1>2. e \in EntryTo(writes) /\ e \in Entry
  BY <1>1, InvFacts DEF EntryTo, Entry
<1>3. Reading[e] = [ssid |-> s, psk |-> p]
  BY <1>1, <1>2, AgedZero DEF Reading, ReadAs
<1>4. Write(Render(Parsed(file).header, Append(Nets(file), [ssid |-> s, psk |-> p])),
            Append(book, e))
  BY DEF AddNetwork, Nets
<1> HIDE DEF e
<1>5. Mapped(Reading, Append(book, e)) = Append(Nets(file), Reading[e])
  BY <1>2, InvFacts, ReadingFacts, MappedFacts
<1>6. Append(book, e) \in Seq(EntryTo(writes)) /\ Append(book, e) \in Seq(Entry)
  BY <1>2, InvFacts, AppendProperties
<1>7. Mapped(Reading, Append(book, e)) \in Seq(Network)
  BY <1>6, ReadingFacts, MappedFacts
<1>8. Writing(Append(book, e))
  BY <1>3, <1>4, <1>5, <1>6, <1>7 DEF Writing
<1> QED BY <1>3, <1>8 DEF e

LEMMA RemoveWrites ==
    ASSUME Inv, NEW s, RemoveNetwork(s)
    PROVE  LET bs == Without(book, {b \in Entry : Reading[b].ssid = s})
           IN  /\ Writing(bs)
               /\ Mapped(Reading, bs) = Without(Nets(file), {n \in Network : n.ssid = s})
<1> DEFINE K == {b \in Entry : Reading[b].ssid = s}
           M == {n \in Network : n.ssid = s}
           bs == Without(book, K)
<1>1. Without(book, {b \in Range(book) : ReadAs(b).ssid = s}) = bs
  <2>1. \A b \in Entry : Reading[b] = ReadAs(b)
    BY DEF Reading
  <2>2. \A b \in Entry : b \in Range(book) =>
          (b \in {c \in Range(book) : ReadAs(c).ssid = s} <=> b \in K)
    BY <2>1
  <2> HIDE DEF K
  <2> QED BY <2>2, InvFacts, WithoutRange
<1>2. Others(Nets(file), s) = Without(Nets(file), M)
  <2>1. \A n \in Network : n \in Range(Nets(file)) =>
          (n \in {c \in Range(Nets(file)) : c.ssid = s} <=> n \in M)
    OBVIOUS
  <2> HIDE DEF M
  <2> QED BY <2>1, InvFacts, WithoutRange DEF Others
<1>3. Mapped(Reading, bs) = Without(Nets(file), M)
  <2>1. \A b \in Entry : b \in K <=> Reading[b] \in M
    BY ReadingFacts DEF Maps
  <2> HIDE DEF K, M
  <2> QED BY <2>1, InvFacts, ReadingFacts, WithoutMapped
<1>4. Write(Render(Parsed(file).header, Without(Nets(file), M)), bs)
  BY <1>1, <1>2 DEF RemoveNetwork, Nets
<1> HIDE DEF K, M
<1>5. bs \in Seq(EntryTo(writes)) /\ bs \in Seq(Entry)
  BY InvFacts, WithoutFacts
<1>6. Mapped(Reading, bs) \in Seq(Network)
  BY <1>5, ReadingFacts, MappedFacts
<1>7. Writing(bs)
  BY <1>3, <1>4, <1>5, <1>6 DEF Writing
<1> QED BY <1>3, <1>7 DEF K, M

LEMMA OlderFacts ==
    ASSUME NEW n \in Nat, NEW bs \in Seq(EntryTo(n))
    PROVE  /\ Older(bs) \in Seq(EntryTo(n + 1)) /\ Older(bs) = Mapped(Aging, bs)
           /\ Mapped(EscapedNet, Mapped(Reading, bs)) = Mapped(Reading, Older(bs))
<1>1. EntryTo(n) \subseteq Entry
  BY DEF EntryTo, Entry
<1>2. bs \in Seq(Entry) /\ \A i \in DOMAIN bs : bs[i] \in Entry
  BY <1>1, SeqMonotonic, LenProperties, ElementOfSeq
<1>3. Older(bs) = Mapped(Aging, bs)
  BY <1>2 DEF Older, Mapped, Aging
<1>4. Maps(Aging, EntryTo(n), EntryTo(n + 1))
  <2> SUFFICES ASSUME NEW b \in EntryTo(n) PROVE Aging[b] \in EntryTo(n + 1)
    BY DEF Maps
  <2>1. b \in Entry /\ b.age + 1 \in 0 .. n + 1
    BY <1>1 DEF EntryTo
  <2>2. Aging[b] = [b EXCEPT !.age = b.age + 1]
    BY <2>1 DEF Aging
  <2> QED BY <2>1, <2>2 DEF EntryTo
<1>5. Older(bs) \in Seq(EntryTo(n + 1))
  BY <1>3, <1>4, MappedFacts
<1>6. Mapped(EscapedNet, Mapped(Reading, bs)) = [i \in DOMAIN bs |-> EscapedNet[Reading[bs[i]]]]
  BY <1>2, ReadingFacts, EscapedNetMaps, MappedTwice
<1>7. Mapped(Reading, Mapped(Aging, bs)) = [i \in DOMAIN bs |-> Reading[Aging[bs[i]]]]
  BY <1>2, ReadingFacts, MappedTwice
<1>8. \A i \in DOMAIN bs : EscapedNet[Reading[bs[i]]] = Reading[Aging[bs[i]]]
  BY <1>2, ReadingFacts
<1> QED BY <1>3, <1>5, <1>6, <1>7, <1>8

LEMMA WriteKeepsInv ==
    ASSUME Inv, NEW bs, Writing(bs)
    PROVE  Inv'
<1> DEFINE h == Parsed(file).header
           ns == Mapped(Reading, bs)
<1>1. /\ bs \in Seq(EntryTo(writes)) /\ ns \in Seq(Network) /\ h \in Seq(HeaderLine)
      /\ file' = Render(h, ns) /\ writes' = writes + 1 /\ book' = Older(bs)
      /\ writes < Writes /\ writes \in Nat
  BY InvFacts DEF Writing, Write
<1>2. /\ book' \in Seq(EntryTo(writes + 1))
      /\ Mapped(EscapedNet, ns) = Mapped(Reading, book')
  BY <1>1, OlderFacts
<1> HIDE DEF h, ns
<1>3. file' \in Seq(Line) /\ Parsed(file').nets = Mapped(EscapedNet, ns)
  BY <1>1, RenderParsed
<1>4. writes' \in 0 .. Writes /\ book' \in Seq(EntryTo(writes'))
  BY <1>1, <1>2, FormatAssumption
<1>5. EntryTo(writes') \subseteq Entry
  BY <1>1 DEF EntryTo, Entry
<1>6. book' \in Seq(Entry) /\ \A i \in DOMAIN book' : book'[i] \in Entry
  BY <1>4, <1>5, SeqMonotonic, LenProperties, ElementOfSeq
<1>7. Nets(file') = [i \in DOMAIN book' |-> ReadAs(book'[i])]
  <2>1. Mapped(Reading, book') = [i \in DOMAIN book' |-> ReadAs(book'[i])]
    BY <1>6 DEF Mapped, Reading
  <2> QED BY <2>1, <1>2, <1>3 DEF Nets
<1>8. \A i \in DOMAIN Nets(file') : Nets(file')[i] \in Network
  <2>1. Parsed(file') \in State
    BY <1>3, ParsedAppend
  <2>2. Nets(file') \in Seq(Network)
    BY <2>1 DEF State, Nets
  <2> QED BY <2>2, LenProperties, ElementOfSeq
<1>9. TypeOK'
  BY <1>3, <1>4, <1>8 DEF TypeOK, Line, EntryTo, Network
<1>10. ReadsAsWritten'
  BY <1>7 DEF ReadsAsWritten
<1> QED BY <1>9, <1>10 DEF Inv

LEMMA InvStep == Inv /\ [Next]_vars => Inv'
<1> SUFFICES ASSUME Inv, [Next]_vars PROVE Inv'
  OBVIOUS
<1>1. CASE UNCHANGED vars
  BY <1>1 DEF Inv, TypeOK, ReadsAsWritten, vars
<1>2. ASSUME NEW s \in Names, NEW p \in Phrases, AddNetwork(s, p) PROVE Inv'
  BY <1>2, AddWrites, WriteKeepsInv
<1>3. ASSUME NEW i \in DOMAIN Nets(file), RemoveNetwork(Nets(file)[i].ssid) PROVE Inv'
  BY <1>3, RemoveWrites, WriteKeepsInv
<1> QED BY <1>1, <1>2, <1>3 DEF Next, Over

(***************************************************************************)
(* Part 7: the file as it was found.  parse's state after any number of    *)
(* lines: the block that is open, what it holds, and the blocks before it. *)
(***************************************************************************)

\* The line that opened the block that is open at the end of f.
Stands(f, i) ==
    /\ i \in 1 .. Len(f) /\ f[i] = Open
    /\ \A k \in i + 1 .. Len(f) : f[k] \notin {Open, Shut}

\* The block that line j closes, if there is one.
Piece(f, j) ==
    IF OpensOf(f, j) = {} THEN <<>>
    ELSE <<BlockAt(f, CHOOSE i \in OpensOf(f, j) : TRUE, j)>>

Pieces(f) == [j \in DOMAIN f |-> Piece(f, j)]

\* What parse knows of a file is what the definition of its blocks says.
Found(f) ==
    LET st == Parsed(f)
        n  == Len(f)
    IN  /\ st.inBlock = \E i \in 1 .. n : Stands(f, i)
        /\ \A i \in 1 .. n : Stands(f, i) =>
             /\ st.cur.ssid = Value(f, i, n, "ssid")
             /\ st.cur.psk = Value(f, i, n, "psk")
        /\ Pieces(f) \in Seq(Seq(EntryTo(0)))
        /\ Mapped(Reading, Blocks(f)) = st.nets

\* u is f and one more line.
Extends(u, f, l, n) ==
    /\ f \in Seq(Line) /\ u \in Seq(Line) /\ l \in Line /\ u = Append(f, l)
    /\ n \in Nat /\ Len(f) = n /\ Len(u) = n + 1 /\ u[n + 1] = l
    /\ DOMAIN f = 1 .. n /\ DOMAIN u = 1 .. n + 1
    /\ \A i \in 1 .. n : u[i] = f[i]

LEMMA ExtendsAppend ==
    ASSUME NEW f \in Seq(Line), NEW l \in Line
    PROVE  Extends(Append(f, l), f, l, Len(f))
  BY AppendProperties, LenProperties DEF Extends

\* A set of naturals that is not empty and is bounded has a maximum.
LEMMA MaxNat ==
    ASSUME NEW n \in Nat, NEW T \in SUBSET (0 .. n), T # {}
    PROVE  Max(T) \in T /\ \A m \in T : m <= Max(T)
<1> DEFINE D == {d \in Nat : n - d \in T}
<1>1. D \in SUBSET Nat /\ D # {}
  <2>1. PICK m \in T : TRUE
    OBVIOUS
  <2>2. n - m \in Nat /\ n - (n - m) = m
    BY <2>1
  <2> QED BY <2>1, <2>2
<1>2. PICK d \in D : \A e \in D : d <= e
  <2> HIDE DEF D
  <2> QED BY <1>1, LeastNat
<1>3. n - d \in T /\ d \in Nat
  BY <1>2
<1>4. ASSUME NEW m \in T PROVE n - d >= m
  <2>1. n - m \in Nat /\ n - (n - m) = m /\ m \in Nat
    OBVIOUS
  <2>2. n - m \in D
    BY <2>1
  <2> QED BY <1>2, <1>3, <2>1, <2>2
<1>5. \E x \in T : \A y \in T : x >= y
  BY <1>3, <1>4
<1>6. Max(T) \in T /\ \A y \in T : Max(T) >= y
  BY <1>5 DEF Max
<1> QED BY <1>6

\* The lines of one kind among those from i to j.
LinesOf(f, i, j, k) == {m \in i .. j : f[m].kind = k}

LEMMA LinesOfFacts ==
    ASSUME NEW f, NEW i \in Nat, NEW j \in Nat, NEW k
    PROVE  /\ LinesOf(f, i, j, k) = {} => Value(f, i, j, k) = <<>>
           /\ LinesOf(f, i, j, k) # {} =>
                /\ Value(f, i, j, k) = Unquote(f[Max(LinesOf(f, i, j, k))].text)
                /\ Max(LinesOf(f, i, j, k)) \in LinesOf(f, i, j, k)
                /\ \A m \in LinesOf(f, i, j, k) : m <= Max(LinesOf(f, i, j, k))
<1> DEFINE at == LinesOf(f, i, j, k)
<1>1. Value(f, i, j, k) = IF at = {} THEN <<>> ELSE Unquote(f[Max(at)].text)
  BY DEF Value, LinesOf
<1>2. at \in SUBSET (0 .. j)
  BY DEF LinesOf
<1> HIDE DEF at
<1>3. at # {} => Max(at) \in at /\ \A m \in at : m <= Max(at)
  BY <1>2, MaxNat
<1> QED BY <1>1, <1>3 DEF at

\* One more line changes no value before it.
LEMMA ValueBefore ==
    ASSUME NEW u, NEW f, NEW l, NEW n, Extends(u, f, l, n),
           NEW i \in 1 .. n + 1, NEW j \in 1 .. n, NEW k
    PROVE  Value(u, i, j, k) = Value(f, i, j, k)
<1>0. n \in Nat /\ i \in Nat /\ \A m \in 1 .. n : u[m] = f[m]
  BY DEF Extends
<1>1. j \in Nat /\ \A m \in i .. j : m \in 1 .. n /\ u[m] = f[m]
  BY <1>0
<1>2. LinesOf(u, i, j, k) = LinesOf(f, i, j, k)
  BY <1>1 DEF LinesOf
<1> DEFINE at == LinesOf(f, i, j, k)
<1>3. at # {} => u[Max(at)] = f[Max(at)]
  <2>1. at # {} => Max(at) \in at
    BY <1>0, LinesOfFacts
  <2>2. at \subseteq i .. j
    BY DEF LinesOf
  <2> HIDE DEF at
  <2> QED BY <2>1, <2>2, <1>1
<1> QED BY <1>0, <1>2, <1>3, LinesOfFacts

\* The value that the line gives, if it is of the kind.
LEMMA ValueFacts ==
    ASSUME NEW u, NEW f, NEW l, NEW n, Extends(u, f, l, n), NEW i \in 1 .. n + 1, NEW k
    PROVE  /\ Value(u, i, n + 1, k) =
                IF l.kind = k THEN Unquote(l.text) ELSE Value(f, i, n, k)
           /\ Value(f, n + 1, n, k) = <<>>
<1>0. /\ n \in Nat /\ i \in Nat /\ n + 1 \in Nat /\ u[n + 1] = l
      /\ \A m \in 1 .. n : u[m] = f[m]
  BY DEF Extends
<1>1. CASE l.kind = k
  <2> DEFINE at == LinesOf(u, i, n + 1, k)
  <2>1. n + 1 \in at /\ at \subseteq i .. n + 1
    BY <1>0, <1>1 DEF LinesOf
  <2>2. /\ Value(u, i, n + 1, k) = Unquote(u[Max(at)].text)
        /\ Max(at) \in at /\ \A m \in at : m <= Max(at)
    BY <1>0, <2>1, LinesOfFacts
  <2> HIDE DEF at
  <2>3. Max(at) = n + 1
    <3> DEFINE x == Max(at)
    <3>1. x \in i .. n + 1 /\ n + 1 <= x
      BY <2>1, <2>2
    <3> HIDE DEF x
    <3>2. x = n + 1
      BY <3>1, <1>0
    <3> QED BY <3>2 DEF x
  <2>4. LinesOf(f, n + 1, n, k) = {}
    BY <1>0 DEF LinesOf
  <2> QED BY <1>0, <1>1, <2>2, <2>3, <2>4, LinesOfFacts
<1>2. CASE l.kind # k
  <2> DEFINE at == LinesOf(f, i, n, k)
  <2>1. \A m \in i .. n + 1 : m # n + 1 => m \in i .. n /\ u[m] = f[m]
    BY <1>0
  <2>2. \A m \in i .. n : m \in i .. n + 1 /\ u[m] = f[m]
    BY <1>0
  <2>3. LinesOf(u, i, n + 1, k) = at
    BY <1>0, <1>2, <2>1, <2>2 DEF LinesOf
  <2>4. at # {} => u[Max(at)] = f[Max(at)]
    <3>1. at # {} => Max(at) \in at
      BY <1>0, LinesOfFacts
    <3>2. at \subseteq i .. n
      BY DEF LinesOf
    <3> HIDE DEF at
    <3> QED BY <3>1, <3>2, <2>2
  <2>5. Value(u, i, n + 1, k) = Value(f, i, n, k)
    BY <1>0, <2>3, <2>4, LinesOfFacts
  <2>6. LinesOf(f, n + 1, n, k) = {}
    BY <1>0 DEF LinesOf
  <2> QED BY <1>0, <1>2, <2>5, <2>6, LinesOfFacts
<1> QED BY <1>1, <1>2

\* Nor any block before it; the block that it ends is the open one.
LEMMA PieceFacts ==
    ASSUME NEW u, NEW f, NEW l, NEW n, Extends(u, f, l, n)
    PROVE  /\ \A j \in 1 .. n : Piece(u, j) = Piece(f, j)
           /\ \A i : i \in OpensOf(u, n + 1) <=>
                l = Shut /\ Stands(f, i) /\ Value(f, i, n, "ssid") # <<>>
<1>0. /\ n \in Nat /\ Len(f) = n /\ u[n + 1] = l /\ DOMAIN f = 1 .. n
      /\ DOMAIN u = 1 .. n + 1 /\ \A m \in 1 .. n : u[m] = f[m]
  BY DEF Extends
<1>1. ASSUME NEW j \in 1 .. n PROVE Piece(u, j) = Piece(f, j)
  <2>1. ASSUME NEW i \in 1 .. n + 1 PROVE Delimits(u, i, j) <=> i \in 1 .. n /\ Delimits(f, i, j)
    <3>1. i < j => i \in 1 .. n /\ u[i] = f[i]
      BY <1>0
    <3>2. \A k \in i + 1 .. j - 1 : k \in 1 .. n /\ u[k] = f[k]
      BY <1>0
    <3>3. u[j] = f[j]
      BY <1>0
    <3> QED BY <3>1, <3>2, <3>3 DEF Delimits
  <2>2. \A i \in 1 .. n + 1 : Value(u, i, j, "ssid") = Value(f, i, j, "ssid")
                           /\ Value(u, i, j, "psk") = Value(f, i, j, "psk")
    <3> SUFFICES ASSUME NEW i \in 1 .. n + 1, NEW k PROVE Value(u, i, j, k) = Value(f, i, j, k)
      OBVIOUS
    <3> QED BY ValueBefore
  <2>3. \A i \in 1 .. n : i \in 1 .. n + 1
    BY <1>0
  <2>4. OpensOf(u, j) = OpensOf(f, j) /\ OpensOf(u, j) \subseteq 1 .. n + 1
    BY <1>0, <2>1, <2>2, <2>3 DEF OpensOf
  <2>5. \A i \in 1 .. n + 1 : BlockAt(u, i, j) = BlockAt(f, i, j)
    BY <2>2 DEF BlockAt
  <2> DEFINE c == CHOOSE i \in OpensOf(f, j) : TRUE
  <2>6. OpensOf(f, j) # {} => c \in 1 .. n + 1
    BY <2>4
  <2> HIDE DEF c
  <2>7. Piece(u, j) = IF OpensOf(f, j) = {} THEN <<>> ELSE <<BlockAt(u, c, j)>>
    BY <2>4 DEF Piece, c
  <2>8. Piece(f, j) = IF OpensOf(f, j) = {} THEN <<>> ELSE <<BlockAt(f, c, j)>>
    BY DEF Piece, c
  <2> QED BY <2>5, <2>6, <2>7, <2>8
<1>2. ASSUME NEW i
      PROVE  i \in OpensOf(u, n + 1) <=>
               l = Shut /\ Stands(f, i) /\ Value(f, i, n, "ssid") # <<>>
  <2>1. i \in OpensOf(u, n + 1) <=>
          i \in 1 .. n + 1 /\ Delimits(u, i, n + 1) /\ Value(u, i, n + 1, "ssid") # <<>>
    BY <1>0 DEF OpensOf
  <2>2. ASSUME i \in 1 .. n + 1 PROVE Delimits(u, i, n + 1) <=> l = Shut /\ Stands(f, i)
    <3>1. i < n + 1 <=> i \in 1 .. n
      BY <1>0, <2>2
    <3>2. i \in 1 .. n => u[i] = f[i]
      BY <1>0
    <3>3. i + 1 .. (n + 1) - 1 = i + 1 .. n
      BY <1>0, <2>2
    <3>4. \A k \in i + 1 .. n : u[k] = f[k]
      <4>1. \A k \in i + 1 .. n : k \in 1 .. n
        BY <1>0, <2>2
      <4> QED BY <4>1, <1>0
    <3> QED BY <1>0, <3>1, <3>2, <3>3, <3>4 DEF Delimits, Stands
  <2>3. Stands(f, i) => i \in 1 .. n + 1
    BY <1>0 DEF Stands
  <2>4. ASSUME i \in 1 .. n + 1, l = Shut
        PROVE  Value(u, i, n + 1, "ssid") = Value(f, i, n, "ssid")
    <3>1. l.kind # "ssid"
      BY <2>4 DEF Shut, Bare
    <3> QED BY <2>4, <3>1, ValueFacts
  <2> QED BY <2>1, <2>2, <2>3, <2>4
<1> QED BY <1>1, <1>2

\* A turn of the loop, by what it does to the open block and the blocks before it.
LEMMA ScanEffect ==
    ASSUME NEW st \in State, NEW l \in Line
    PROVE  LET s == Scan(st, l) IN
           /\ s.inBlock = (l = Open \/ (l # Shut /\ st.inBlock))
           /\ s.nets = IF l = Shut /\ st.inBlock /\ st.cur.ssid # <<>>
                         THEN Append(st.nets, st.cur) ELSE st.nets
           /\ l = Open => s.cur = NoNetwork
           /\ l \notin {Open, Shut} /\ st.inBlock =>
                /\ s.cur.ssid = IF l.kind = "ssid" THEN Unquote(l.text) ELSE st.cur.ssid
                /\ s.cur.psk = IF l.kind = "psk" THEN Unquote(l.text) ELSE st.cur.psk
<1>0. /\ st \in [header : Seq(HeaderLine), inBlock : BOOLEAN,
                 cur : [ssid : Text, psk : Text], nets : Seq(Network),
                 headerDone : BOOLEAN]
      /\ st.inBlock => st.headerDone
      /\ Open # Shut
      /\ Open.kind = "open" /\ Shut.kind = "shut"
  BY LineFacts DEF State, Open, Shut, Bare
<1>1. CASE l = Open
  <2>1. Scan(st, l) = Opened(st)
    BY <1>1, ScanFacts
  <2>2. /\ Opened(st).inBlock = TRUE /\ Opened(st).nets = st.nets
        /\ Opened(st).cur = NoNetwork
    BY <1>0 DEF Opened
  <2> QED BY <1>0, <1>1, <2>1, <2>2
<1>2. CASE l # Open /\ ~st.inBlock
  <2>1. st.inBlock = FALSE
    BY <1>0, <1>2
  <2>2. \/ Scan(st, l) = [st EXCEPT !.header = Append(@, l)]
        \/ Scan(st, l) = st
    BY <1>2, ScanFacts
  <2>3. Scan(st, l).inBlock = st.inBlock /\ Scan(st, l).nets = st.nets
    BY <2>2, <1>0
  <2> QED BY <1>2, <2>1, <2>3
<1>3. CASE l = Shut /\ st.inBlock
  <2>1. Scan(st, l) = Closed(st)
    BY <1>3, ScanFacts
  <2> QED BY <2>1, <1>0, <1>3 DEF Closed
<1>4. CASE l \notin {Open, Shut} /\ st.inBlock
  <2>0. st.inBlock = TRUE
    BY <1>0, <1>4
  <2>1. CASE l.kind = "ssid"
    <3>1. Scan(st, l) = [st EXCEPT !.cur.ssid = Unquote(l.text)]
      BY <1>4, <2>1, ScanFacts
    <3> QED BY <1>0, <1>4, <2>0, <2>1, <3>1
  <2>2. CASE l.kind = "psk"
    <3>1. Scan(st, l) = [st EXCEPT !.cur.psk = Unquote(l.text)]
      BY <1>4, <2>2, ScanFacts
    <3> QED BY <1>0, <1>4, <2>0, <2>2, <3>1
  <2>3. CASE l.kind \notin {"ssid", "psk"}
    <3>1. Scan(st, l) = st
      BY <1>4, <2>3, ScanFacts
    <3> QED BY <1>4, <2>0, <2>3, <3>1
  <2> QED BY <2>1, <2>2, <2>3
<1> QED BY <1>1, <1>2, <1>3, <1>4

\* Which block is open after one more line, and what it holds.
LEMMA StandsStep ==
    ASSUME NEW u, NEW f, NEW l, NEW n, Extends(u, f, l, n), Found(f)
    PROVE  /\ Parsed(u).inBlock = \E i \in 1 .. n + 1 : Stands(u, i)
           /\ \A i \in 1 .. n + 1 : Stands(u, i) =>
                /\ Parsed(u).cur.ssid = Value(u, i, n + 1, "ssid")
                /\ Parsed(u).cur.psk = Value(u, i, n + 1, "psk")
<1> DEFINE st == Parsed(f)
           s == Parsed(u)
<1>0. /\ n \in Nat /\ Len(f) = n /\ Len(u) = n + 1 /\ u[n + 1] = l /\ l \in Line
      /\ \A m \in 1 .. n : u[m] = f[m] /\ m \in 1 .. n + 1
      /\ n + 1 \in 1 .. n + 1
  BY DEF Extends
<1>1. st \in State /\ s = Scan(st, l)
  BY ParsedAppend DEF Extends
<1>2. /\ st.inBlock = \E i \in 1 .. n : Stands(f, i)
      /\ \A i \in 1 .. n : Stands(f, i) => /\ st.cur.ssid = Value(f, i, n, "ssid")
                                           /\ st.cur.psk = Value(f, i, n, "psk")
  BY <1>0 DEF Found
<1> HIDE DEF st, s
<1>3. CASE l = Open
  <2>1. s.inBlock = TRUE /\ s.cur = NoNetwork
    BY <1>1, <1>0, <1>3, ScanEffect
  <2>2. Stands(u, n + 1)
    BY <1>0, <1>3 DEF Stands
  <2>3. ASSUME NEW i \in 1 .. n + 1, Stands(u, i) PROVE i = n + 1
    <3>1. i # n + 1 => n + 1 \in i + 1 .. n + 1
      BY <1>0
    <3> QED BY <1>0, <1>3, <2>3, <3>1 DEF Stands
  <2>4. Value(u, n + 1, n + 1, "ssid") = <<>> /\ Value(u, n + 1, n + 1, "psk") = <<>>
    <3>1. l.kind = "open"
      BY <1>3 DEF Open, Bare
    <3> QED BY <1>0, <3>1, ValueFacts
  <2>5. s.cur.ssid = <<>> /\ s.cur.psk = <<>>
    BY <2>1 DEF NoNetwork
  <2> QED BY <1>0, <2>1, <2>2, <2>3, <2>4, <2>5 DEF s
<1>4. ASSUME l # Open, NEW i \in 1 .. n + 1
      PROVE  Stands(u, i) <=> l # Shut /\ i \in 1 .. n /\ Stands(f, i)
  <2>1. CASE i = n + 1
    BY <1>0, <1>4, <2>1 DEF Stands
  <2>2. CASE i # n + 1
    <3>1. i \in 1 .. n /\ u[i] = f[i] /\ n + 1 \in i + 1 .. n + 1
      BY <1>0, <2>2
    <3>2. \A k \in i + 1 .. n : k \in i + 1 .. n + 1 /\ u[k] = f[k]
      BY <1>0, <3>1
    <3>3. \A k \in i + 1 .. n + 1 : k = n + 1 \/ k \in i + 1 .. n
      BY <1>0, <3>1
    <3>4. Stands(u, i) => l # Shut /\ Stands(f, i)
      BY <1>0, <3>1, <3>2 DEF Stands
    <3>5. l # Shut /\ Stands(f, i) => Stands(u, i)
      BY <1>0, <1>4, <3>1, <3>2, <3>3 DEF Stands
    <3> QED BY <3>1, <3>4, <3>5
  <2> QED BY <2>1, <2>2
<1>5. CASE l = Shut
  <2>1. s.inBlock = FALSE
    <3>1. l # Open
      BY <1>5, LineFacts
    <3>2. s.inBlock = (l = Open \/ (l # Shut /\ st.inBlock))
      BY <1>0, <1>1, ScanEffect
    <3> QED BY <1>5, <3>1, <3>2
  <2>2. \A i \in 1 .. n + 1 : ~Stands(u, i)
    BY <1>4, <1>5, LineFacts
  <2> QED BY <2>1, <2>2 DEF s
<1>6. CASE l \notin {Open, Shut}
  <2>1. s.inBlock = st.inBlock
    <3>1. st.inBlock \in BOOLEAN
      BY <1>1 DEF State
    <3> QED BY <1>0, <1>1, <1>6, <3>1, ScanEffect
  <2>2. \A i \in 1 .. n + 1 : Stands(u, i) <=> i \in 1 .. n /\ Stands(f, i)
    BY <1>4, <1>6
  <2>3. s.inBlock = \E i \in 1 .. n + 1 : Stands(u, i)
    <3>1. (\E i \in 1 .. n + 1 : Stands(u, i)) <=> \E i \in 1 .. n : Stands(f, i)
      BY <1>0, <2>2
    <3> QED BY <1>2, <2>1, <3>1
  <2>4. ASSUME NEW i \in 1 .. n + 1, Stands(u, i)
        PROVE  /\ s.cur.ssid = Value(u, i, n + 1, "ssid")
               /\ s.cur.psk = Value(u, i, n + 1, "psk")
    <3>1. /\ i \in 1 .. n /\ Stands(f, i) /\ st.inBlock
          /\ st.cur.ssid = Value(f, i, n, "ssid") /\ st.cur.psk = Value(f, i, n, "psk")
      BY <1>2, <2>2, <2>4
    <3>2. /\ s.cur.ssid = IF l.kind = "ssid" THEN Unquote(l.text) ELSE st.cur.ssid
          /\ s.cur.psk = IF l.kind = "psk" THEN Unquote(l.text) ELSE st.cur.psk
      BY <1>0, <1>1, <1>6, <3>1, ScanEffect
    <3>3. \A k : Value(u, i, n + 1, k) =
             IF l.kind = k THEN Unquote(l.text) ELSE Value(f, i, n, k)
      BY ValueFacts
    <3> QED BY <3>1, <3>2, <3>3
  <2> QED BY <2>3, <2>4 DEF s
<1> QED BY <1>3, <1>5, <1>6

\* Which blocks there are after one more line.
LEMMA PiecesStep ==
    ASSUME NEW u, NEW f, NEW l, NEW n, Extends(u, f, l, n), Found(f)
    PROVE  /\ Pieces(u) \in Seq(Seq(EntryTo(0)))
           /\ Mapped(Reading, Blocks(u)) = Parsed(u).nets
<1> DEFINE st == Parsed(f)
           ps == Pieces(f)
           p  == Piece(u, n + 1)
           E  == EntryTo(0)
           bs == FlattenSeq(ps)
<1>0. /\ n \in Nat /\ Len(f) = n /\ u[n + 1] = l /\ DOMAIN f = 1 .. n
      /\ DOMAIN u = 1 .. n + 1 /\ l \in Line
  BY DEF Extends
<1>1. st \in State /\ Parsed(u) = Scan(st, l)
  BY ParsedAppend DEF Extends
<1>2. /\ st.inBlock = \E i \in 1 .. n : Stands(f, i)
      /\ \A i \in 1 .. n : Stands(f, i) => /\ st.cur.ssid = Value(f, i, n, "ssid")
                                           /\ st.cur.psk = Value(f, i, n, "psk")
      /\ ps \in Seq(Seq(E)) /\ Mapped(Reading, bs) = st.nets
  BY <1>0 DEF Found, Blocks, Pieces, Piece
<1>3. \A i : i \in OpensOf(u, n + 1) <=>
        l = Shut /\ Stands(f, i) /\ Value(f, i, n, "ssid") # <<>>
  BY PieceFacts
<1>4. ASSUME p \in Seq(E)
      PROVE  Pieces(u) = Append(ps, p) /\ Append(ps, p) \in Seq(Seq(E))
  <2>1. ps = [j \in 1 .. n |-> Piece(f, j)]
    BY <1>0 DEF Pieces
  <2>2. Pieces(u) = [j \in 1 .. n + 1 |-> Piece(u, j)]
    BY <1>0 DEF Pieces
  <2>3. \A j \in 1 .. n : Piece(u, j) = Piece(f, j)
    BY PieceFacts
  <2> DEFINE K == Seq(E)
             a == Append(ps, p)
  <2>4. ps \in Seq(K) /\ p \in K
    BY <1>2, <1>4
  <2> HIDE DEF K, ps, p
  <2>5. Len(ps) = n
    BY <1>0, <2>1, <2>4, LenProperties
  <2>6. /\ a \in Seq(K) /\ Len(a) = n + 1 /\ a[n + 1] = p
        /\ \A j \in 1 .. n : a[j] = ps[j]
    BY <2>4, <2>5, AppendProperties
  <2> HIDE DEF a
  <2>7. a = [j \in 1 .. n + 1 |-> a[j]]
    BY <2>6, LenProperties
  <2>8. \A j \in 1 .. n + 1 : a[j] = Piece(u, j)
    <3>1. \A j \in 1 .. n : a[j] = Piece(u, j)
      BY <2>1, <2>3, <2>6
    <3>2. \A j \in 1 .. n + 1 : j \in 1 .. n \/ j = n + 1
      BY <1>0
    <3> QED BY <3>1, <3>2, <2>6 DEF p
  <2>9. Pieces(u) = a
    BY <2>2, <2>7, <2>8
  <2> QED BY <2>6, <2>9 DEF K, a
<1>5. ASSUME p \in Seq(E) PROVE Blocks(u) = bs \o p /\ bs \in Seq(E)
  <2>1. Blocks(u) = FlattenSeq(Pieces(u))
    BY DEF Blocks, Pieces, Piece
  <2> HIDE DEF ps, p, E
  <2> QED BY <1>2, <1>4, <1>5, <2>1, FlattenAppend
<1>6. CASE l = Shut /\ st.inBlock /\ st.cur.ssid # <<>>
  <2> DEFINE c == CHOOSE i \in OpensOf(u, n + 1) : TRUE
             e == BlockAt(u, c, n + 1)
  <2>1. PICK i \in 1 .. n : Stands(f, i)
    BY <1>2, <1>6
  <2>2. i \in OpensOf(u, n + 1)
    BY <1>2, <1>3, <1>6, <2>1
  <2>3. c \in OpensOf(u, n + 1)
    BY <2>2
  <2>4. Stands(f, c) /\ c \in 1 .. n /\ c \in 1 .. n + 1
    BY <1>0, <1>3, <2>3 DEF Stands
  <2>5. p = <<e>>
    BY <2>2 DEF Piece
  <2> HIDE DEF c
  <2>6. /\ Value(u, c, n + 1, "ssid") = st.cur.ssid
        /\ Value(u, c, n + 1, "psk") = st.cur.psk
    <3>1. l.kind = "shut"
      BY <1>6 DEF Shut, Bare
    <3>2. Value(u, c, n + 1, "ssid") = Value(f, c, n, "ssid")
      BY <2>4, <3>1, ValueFacts
    <3>3. Value(u, c, n + 1, "psk") = Value(f, c, n, "psk")
      BY <2>4, <3>1, ValueFacts
    <3> QED BY <1>2, <2>4, <3>2, <3>3
  <2>7. st.cur \in [ssid : Text, psk : Text] /\ st.nets \in Seq(Network)
    BY <1>1 DEF State
  <2>8. e = [ssid |-> st.cur.ssid, psk |-> st.cur.psk, age |-> 0]
    BY <2>6 DEF BlockAt
  <2>9. e \in E /\ e \in Entry
    BY <1>6, <2>7, <2>8 DEF EntryTo, Entry
  <2>10. Reading[e] = st.cur
    <3>1. Reading[e] = [ssid |-> Aged(st.cur.ssid, 0), psk |-> Aged(st.cur.psk, 0)]
      BY <2>8, <2>9 DEF Reading, ReadAs
    <3>2. Aged(st.cur.ssid, 0) = st.cur.ssid /\ Aged(st.cur.psk, 0) = st.cur.psk
      BY <2>7, AgedZero
    <3> QED BY <2>7, <3>1, <3>2
  <2> HIDE DEF e, E
  <2>11. p \in Seq(E)
    <3>1. <<e>> \in Seq(E)
      BY <2>9
    <3> QED BY <2>5, <3>1
  <2>12. bs \in Seq(Entry)
    <3>1. E \subseteq Entry
      BY DEF E, EntryTo, Entry
    <3> QED BY <3>1, <1>5, <2>11, SeqMonotonic
  <2>13. Blocks(u) = Append(bs, e)
    <3> HIDE DEF bs, p
    <3> QED BY <1>5, <2>5, <2>9, <2>11, AppendIsConcat
  <2>14. Mapped(Reading, Append(bs, e)) = Append(Mapped(Reading, bs), Reading[e])
    <3> HIDE DEF bs
    <3> QED BY <2>9, <2>12, ReadingFacts, MappedFacts
  <2>15. Parsed(u).nets = Append(st.nets, st.cur)
    <3> HIDE DEF st
    <3>1. Scan(st, l).nets = IF l = Shut /\ st.inBlock /\ st.cur.ssid # <<>>
                               THEN Append(st.nets, st.cur) ELSE st.nets
      BY <1>0, <1>1, ScanEffect
    <3> QED BY <1>1, <1>6, <3>1
  <2> QED BY <1>2, <1>4, <2>10, <2>11, <2>13, <2>14, <2>15 DEF E
<1>7. CASE ~(l = Shut /\ st.inBlock /\ st.cur.ssid # <<>>)
  <2>1. OpensOf(u, n + 1) = {}
    <3> SUFFICES ASSUME NEW i, i \in OpensOf(u, n + 1) PROVE FALSE
      OBVIOUS
    <3>1. l = Shut /\ Stands(f, i) /\ Value(f, i, n, "ssid") # <<>> /\ i \in 1 .. n
      BY <1>0, <1>3 DEF Stands
    <3> QED BY <1>2, <1>7, <3>1
  <2>2. p = <<>> /\ p \in Seq(E)
    BY <2>1, EmptySeq DEF Piece
  <2>3. Parsed(u).nets = st.nets
    BY <1>0, <1>1, <1>7, ScanEffect
  <2>4. Blocks(u) = bs
    <3> HIDE DEF bs, p, E
    <3>1. Blocks(u) = bs \o p /\ bs \in Seq(E)
      BY <1>5, <2>2
    <3> QED BY <2>2, <3>1, ConcatEmptySeq
  <2> QED BY <1>2, <1>4, <2>2, <2>3, <2>4
<1> QED BY <1>6, <1>7

\* parse finds the blocks that the definition says are there.
LEMMA FoundAll == \A f \in Seq(Line) : Found(f)
<1> DEFINE G == {f \in Seq(Line) : Found(f)}
<1>1. <<>> \in G
  <2>1. /\ <<>> \in Seq(Line) /\ Len(<<>>) = 0 /\ Parsed(<<>>) = Start
        /\ <<>> \in Seq(Seq(EntryTo(0)))
    BY EmptySeq, ParsedAppend
  <2>2. Pieces(<<>>) = <<>>
    BY DEF Pieces
  <2>3. Blocks(<<>>) = <<>>
    BY <2>2, FlattenEmpty DEF Blocks, Pieces, Piece
  <2>4. Mapped(Reading, <<>>) = <<>>
    BY DEF Mapped
  <2>5. Start.inBlock = FALSE /\ Start.nets = <<>>
    BY DEF Start
  <2>6. \A i : i \notin 1 .. 0
    OBVIOUS
  <2>7. Found(<<>>)
    <3>1. Parsed(<<>>).inBlock = \E i \in 1 .. 0 : Stands(<<>>, i)
      BY <2>1, <2>5, <2>6
    <3>2. Mapped(Reading, Blocks(<<>>)) = Parsed(<<>>).nets
      BY <2>1, <2>3, <2>4, <2>5
    <3>3. Pieces(<<>>) \in Seq(Seq(EntryTo(0)))
      BY <2>1, <2>2
    <3> QED BY <2>1, <2>6, <3>1, <3>2, <3>3 DEF Found
  <2> QED BY <2>1, <2>7
<1>2. ASSUME NEW f \in Seq(Line), NEW l \in Line, f \in G PROVE Append(f, l) \in G
  <2> DEFINE u == Append(f, l)
             n == Len(f)
  <2>1. Extends(u, f, l, n) /\ Found(f)
    BY <1>2, ExtendsAppend
  <2> HIDE DEF u, n
  <2>2. u \in Seq(Line) /\ Len(u) = n + 1
    BY <2>1 DEF Extends
  <2>3. /\ Parsed(u).inBlock = \E i \in 1 .. n + 1 : Stands(u, i)
        /\ \A i \in 1 .. n + 1 : Stands(u, i) =>
             /\ Parsed(u).cur.ssid = Value(u, i, n + 1, "ssid")
             /\ Parsed(u).cur.psk = Value(u, i, n + 1, "psk")
    BY <2>1, StandsStep
  <2>4. /\ Pieces(u) \in Seq(Seq(EntryTo(0)))
        /\ Mapped(Reading, Blocks(u)) = Parsed(u).nets
    BY <2>1, PiecesStep
  <2>5. Found(u)
    BY <2>2, <2>3, <2>4 DEF Found
  <2> QED BY <2>2, <2>5 DEF u
<1> HIDE DEF G
<1>3. Seq(Line) \subseteq G
  BY <1>1, <1>2, SeqStep
<1> QED BY <1>3 DEF G

\* The pieces of all lines, one after the other, are entries that were never written.
LEMMA BlocksType ==
    ASSUME NEW f \in Seq(Line)
    PROVE  Blocks(f) \in Seq(EntryTo(0)) /\ Mapped(Reading, Blocks(f)) = Nets(f)
<1> DEFINE E == EntryTo(0)
<1>1. Pieces(f) \in Seq(Seq(E)) /\ Mapped(Reading, Blocks(f)) = Parsed(f).nets
  BY FoundAll DEF Found
<1>2. Blocks(f) = FlattenSeq(Pieces(f))
  BY DEF Blocks, Pieces, Piece
<1> HIDE DEF E
<1>3. FlattenSeq(Pieces(f)) \in Seq(E)
  BY <1>1, EmptySeq, FlattenAppend
<1> QED BY <1>1, <1>2, <1>3 DEF E, Nets

LEMMA InitInv == Init => Inv
<1> SUFFICES ASSUME Init PROVE Inv
  OBVIOUS
<1>1. file \in Seq(Line) /\ writes = 0 /\ book = Blocks(file) /\ Writes \in Nat
  BY FormatAssumption DEF Init, Line
<1>2. book \in Seq(EntryTo(0)) /\ Mapped(Reading, book) = Nets(file)
  BY <1>1, BlocksType
<1>3. EntryTo(0) \subseteq Entry
  BY DEF EntryTo, Entry
<1>4. \A i \in DOMAIN book : book[i] \in Entry
  BY <1>2, <1>3, LenProperties, ElementOfSeq
<1>5. Mapped(Reading, book) = [i \in DOMAIN book |-> ReadAs(book[i])]
  BY <1>4 DEF Mapped, Reading
<1>6. Parsed(file) \in State
  BY <1>1, ParsedAppend
<1>7. Nets(file) \in Seq(Network)
  BY <1>6 DEF Nets, State
<1>8. \A i \in DOMAIN Nets(file) : Nets(file)[i] \in Network
  BY <1>7, LenProperties, ElementOfSeq
<1>9. TypeOK
  BY <1>1, <1>2, <1>8 DEF TypeOK, EntryTo, Line, Network
<1>10. ReadsAsWritten
  BY <1>2, <1>5 DEF ReadsAsWritten
<1> QED BY <1>9, <1>10 DEF Inv

LEMMA InvAlways == Spec => []Inv
<1>1. Init => Inv
  BY InitInv
<1>2. Inv /\ [Next]_vars => Inv'
  BY InvStep
<1> QED BY <1>1, <1>2, PTL DEF Spec

(***************************************************************************)
(* Part 8: the theorems.                                                   *)
(***************************************************************************)

\* Whatever was installed, the file is made of lines, the book has aged no more than
\* the file was written, and every network that is read has a name (config.go:125-171).
THEOREM Typed == Spec => []TypeOK
<1>1. Inv => TypeOK
  BY DEF Inv
<1> QED BY <1>1, InvAlways, PTL

\* Every network of any installed file, and every one that is added, is read for ever
\* with its own passphrase and one layer of escapes for each write (config.go:125-199).
THEOREM ReadBack == Spec => []ReadsAsWritten
<1>1. Inv => ReadsAsWritten
  BY DEF Inv
<1> QED BY <1>1, InvAlways, PTL

\* parse, which keeps one block and a few flags, finds in any sequence of lines exactly
\* the blocks that the definition says are there, with their last names and passphrases
\* (config.go:125-171).
THEOREM ParseFindsBlocks ==
    ASSUME NEW f \in Seq([kind : Kinds, text : Text])
    PROVE  Nets(f) = [i \in DOMAIN Blocks(f) |->
                        [ssid |-> Blocks(f)[i].ssid, psk |-> Blocks(f)[i].psk]]
<1> DEFINE bs == Blocks(f)
<1>1. bs \in Seq(EntryTo(0)) /\ Mapped(Reading, bs) = Nets(f)
  BY BlocksType DEF Line
<1> HIDE DEF bs
<1>2. ASSUME NEW i \in DOMAIN bs
      PROVE  Reading[bs[i]] = [ssid |-> bs[i].ssid, psk |-> bs[i].psk]
  <2> DEFINE b == bs[i]
  <2>1. b \in EntryTo(0)
    BY <1>1, LenProperties, ElementOfSeq
  <2> HIDE DEF b
  <2>2. b \in Entry /\ b.ssid \in Text /\ b.psk \in Text /\ b.age = 0
    BY <2>1 DEF EntryTo, Entry
  <2>3. Aged(b.ssid, 0) = b.ssid /\ Aged(b.psk, 0) = b.psk
    BY <2>2, AgedZero
  <2>4. Reading[b] = [ssid |-> b.ssid, psk |-> b.psk]
    BY <2>2, <2>3 DEF Reading, ReadAs
  <2> QED BY <2>4 DEF b
<1>3. Mapped(Reading, bs) = [i \in DOMAIN bs |-> [ssid |-> bs[i].ssid, psk |-> bs[i].psk]]
  BY <1>2 DEF Mapped
<1> QED BY <1>1, <1>3 DEF bs

\* A step writes, or leaves everything.
LEMMA StepWrites ==
    ASSUME Inv, [Next]_vars
    PROVE  UNCHANGED vars \/ \E bs : Writing(bs)
<1>1. ASSUME NEW s \in Names, NEW p \in Phrases, AddNetwork(s, p) PROVE \E bs : Writing(bs)
  BY <1>1, AddWrites
<1>2. ASSUME NEW i \in DOMAIN Nets(file), RemoveNetwork(Nets(file)[i].ssid)
      PROVE  \E bs : Writing(bs)
  BY <1>2, RemoveWrites
<1> QED BY <1>1, <1>2 DEF Next, Over

\* No rewrite loses a line of the header or adds more than the empty line that ends it,
\* which it adds once (config.go:166-169, 177-179).
THEOREM HeaderKept == Spec => HeaderSettles
<1> DEFINE h == Parsed(file).header
           g == Parsed(file').header
           Kept == /\ Meaningful(g) = Meaningful(h)
                   /\ Len(g) <= IF h # <<>> /\ Last(h) = Empty THEN Len(h) ELSE Len(h) + 1
<1>1. ASSUME Inv, NEW bs, Writing(bs) PROVE Kept
  <2> DEFINE ns == Mapped(Reading, bs)
             t  == Terminated(h)
  <2>1. ns \in Seq(Network) /\ h \in Seq(HeaderLine) /\ file' = Render(h, ns)
    BY <1>1, InvFacts DEF Writing, Write
  <2> HIDE DEF h, ns
  <2>2. g = IF ns = <<>> THEN t ELSE Append(t, Empty)
    BY <2>1, RenderParsed
  <2>3. /\ t \in Seq(HeaderLine) /\ Meaningful(t) = Meaningful(h)
        /\ Meaningful(Append(t, Empty)) = Meaningful(h)
        /\ Len(t) = IF h # <<>> /\ Last(h) = Empty THEN Len(h) - 1 ELSE Len(h)
    BY <2>1, TerminatedFacts
  <2> HIDE DEF t, g
  <2>4. Len(Append(t, Empty)) = Len(t) + 1 /\ Len(t) \in Nat /\ Len(h) \in Nat
    BY <2>1, <2>3, AppendProperties, LenProperties, LineFacts
  <2>5. Meaningful(g) = Meaningful(h)
    BY <2>2, <2>3
  <2>6. Len(g) <= IF h # <<>> /\ Last(h) = Empty THEN Len(h) ELSE Len(h) + 1
    BY <2>2, <2>3, <2>4
  <2> QED BY <2>5, <2>6
<1> HIDE DEF Kept
<1>2. Inv /\ [Next]_vars => [Kept]_vars
  BY <1>1, StepWrites
<1> QED BY <1>2, InvAlways, PTL DEF Spec, HeaderSettles, Kept, h, g

(***************************************************************************)
(* Part 9: what the cells of WifiDoc make of it.                           *)
(***************************************************************************)

\* FlattenSeq from the empty sequence, one element at a time.
LEMMA FlattenSteps ==
    ASSUME NEW S, NEW ss \in Seq(Seq(S))
    PROVE  \E h \in [0 .. Len(ss) -> Seq(S)] :
             /\ h[0] = <<>> /\ h[Len(ss)] = FlattenSeq(ss)
             /\ \A i \in 1 .. Len(ss) : h[i] = h[i - 1] \o ss[i]
<1> DEFINE n == Len(ss)
           K == Seq(S)
<1>1. n \in Nat /\ <<>> \in K /\ (ss = <<>> => n = 0) /\ (ss # <<>> => n # 0)
      /\ \A i \in 1 .. n : ss[i] \in K
  BY LenProperties, ElementOfSeq, EmptySeq
<1>2. CASE ss = <<>>
  <2> DEFINE h == [i \in 0 .. n |-> <<>>]
  <2>1. h \in [0 .. n -> K] /\ h[0] = <<>> /\ h[n] = <<>> /\ FlattenSeq(ss) = <<>>
    BY <1>1, <1>2, FlattenEmpty
  <2>2. \A i : i \notin 1 .. n
    BY <1>1, <1>2
  <2> QED BY <2>1, <2>2
<1>3. CASE ss # <<>>
  <2>1. PICK g : Flattens(g, S, ss) /\ FlattenSeq(ss) = g[n]
    BY <1>3, FlattenDefined
  <2>2. /\ g \in [1 .. n -> K] /\ g[1] = ss[1]
        /\ \A i \in 2 .. n : g[i] = g[i - 1] \o ss[i]
    BY <2>1 DEF Flattens
  <2> DEFINE h == [i \in 0 .. n |-> IF i = 0 THEN <<>> ELSE g[i]]
  <2> HIDE DEF n, K
  <2>3. h \in [0 .. n -> K] /\ h[0] = <<>> /\ h[n] = FlattenSeq(ss)
    <3>1. \A i \in 0 .. n : i # 0 => i \in 1 .. n
      BY <1>1
    <3>2. \A i \in 0 .. n : h[i] \in K
      BY <3>1, <2>2, <1>1
    <3>3. 0 \in 0 .. n /\ n \in 0 .. n
      BY <1>1
    <3> QED BY <3>2, <3>3, <2>1, <1>1, <1>3
  <2>4. \A i \in 1 .. n : h[i] = h[i - 1] \o ss[i]
    <3> SUFFICES ASSUME NEW i \in 1 .. n PROVE h[i] = h[i - 1] \o ss[i]
      OBVIOUS
    <3>0. i \in 0 .. n /\ i - 1 \in 0 .. n /\ h[i] = g[i]
      BY <1>1
    <3>1. CASE i = 1
      <4>1. h[0] = <<>> /\ i - 1 = 0 /\ ss[1] \in Seq(S)
        BY <3>1, <2>3, <1>1 DEF K
      <4>2. <<>> \o ss[1] = ss[1]
        BY <4>1, ConcatEmptySeq
      <4> QED BY <3>0, <3>1, <4>1, <4>2, <2>2
    <3>2. CASE i # 1
      <4>1. i \in 2 .. n /\ h[i - 1] = g[i - 1]
        BY <3>2, <3>0, <1>1
      <4> QED BY <3>0, <4>1, <2>2
    <3> QED BY <3>1, <3>2
  <2> HIDE DEF h
  <2> QED BY <2>3, <2>4 DEF n, K
<1> QED BY <1>2, <1>3

\* Remove's loop on names is Without.
LEMMA DocWithout ==
    ASSUME NEW S, NEW t \in Seq(S), NEW s
    PROVE  Doc!Without(t, s) = Without(t, {s})
<1> DEFINE n == Len(t)
           K == Seq(S)
           ss == [i \in DOMAIN t |-> IF t[i] \in {s} THEN <<>> ELSE <<t[i]>>]
           IsKept(g) == g = [i \in 0 .. Len(t) |->
                               IF i = 0 THEN <<>>
                               ELSE IF t[i] = s THEN g[i - 1]
                               ELSE Append(g[i - 1], t[i])]
           kept == CHOOSE g : IsKept(g)
<1>1. n \in Nat /\ DOMAIN t = 1 .. n /\ \A i \in 1 .. n : t[i] \in S
  BY LenProperties, ElementOfSeq
<1>2. ss \in Seq(K) /\ Len(ss) = n
  <2>1. \A i \in 1 .. n : (IF t[i] \in {s} THEN <<>> ELSE <<t[i]>>) \in K
    BY <1>1, EmptySeq
  <2>2. ss \in [1 .. n -> K]
    BY <1>1, <2>1
  <2> HIDE DEF n, K
  <2>3. ss \in Seq(K)
    BY <1>1, <2>2, SeqDef
  <2> QED BY <1>1, <2>2, <2>3, LenProperties
<1>3. \A i \in 1 .. n : ss[i] = IF t[i] = s THEN <<>> ELSE <<t[i]>>
  BY <1>1
<1>4. Without(t, {s}) = FlattenSeq(ss)
  BY DEF Without
<1> HIDE DEF ss
<1>5. PICK h : /\ h \in [0 .. n -> K] /\ h[0] = <<>> /\ h[n] = FlattenSeq(ss)
               /\ \A i \in 1 .. n : h[i] = h[i - 1] \o ss[i]
  <2>1. PICK h \in [0 .. Len(ss) -> Seq(S)] :
          /\ h[0] = <<>> /\ h[Len(ss)] = FlattenSeq(ss)
          /\ \A i \in 1 .. Len(ss) : h[i] = h[i - 1] \o ss[i]
    BY <1>2, FlattenSteps
  <2> QED BY <1>2, <2>1
<1> HIDE DEF n
<1>6. \A i \in 1 .. n : h[i] = IF t[i] = s THEN h[i - 1] ELSE Append(h[i - 1], t[i])
  <2> SUFFICES ASSUME NEW i \in 1 .. n
               PROVE  h[i] = IF t[i] = s THEN h[i - 1] ELSE Append(h[i - 1], t[i])
    OBVIOUS
  <2> DEFINE w == h[i - 1]
             e == t[i]
  <2>1. w \in Seq(S) /\ e \in S
    <3>1. i - 1 \in 0 .. n
      BY <1>1
    <3> QED BY <3>1, <1>1, <1>5
  <2>2. h[i] = w \o ss[i] /\ ss[i] = IF e = s THEN <<>> ELSE <<e>>
    BY <1>3, <1>5
  <2> HIDE DEF w, e
  <2>3. w \o <<>> = w /\ w \o <<e>> = Append(w, e)
    BY <2>1, ConcatEmptySeq, AppendIsConcat
  <2>4. h[i] = IF e = s THEN w ELSE Append(w, e)
    BY <2>2, <2>3
  <2> QED BY <2>4 DEF w, e
<1>7. IsKept(h)
  <2>1. \A i \in 0 .. n : h[i] = IF i = 0 THEN <<>>
                                 ELSE IF t[i] = s THEN h[i - 1]
                                 ELSE Append(h[i - 1], t[i])
    <3> SUFFICES ASSUME NEW i \in 0 .. n
                 PROVE  h[i] = IF i = 0 THEN <<>>
                               ELSE IF t[i] = s THEN h[i - 1]
                               ELSE Append(h[i - 1], t[i])
      OBVIOUS
    <3>0. n \in Nat
      BY <1>1
    <3>1. i # 0 => i \in 1 .. n
      BY <3>0
    <3> QED BY <3>1, <1>5, <1>6
  <2> QED BY Zenon, <2>1, <1>5 DEF n
<1>8. IsKept(kept) /\ Doc!Kept(t, s) = kept
  BY <1>7 DEF Doc!Kept
<1> HIDE DEF kept
<1>9. kept[0] = <<>>
      /\ \A i \in 1 .. n : kept[i] = IF t[i] = s THEN kept[i - 1] ELSE Append(kept[i - 1], t[i])
  <2>1. kept = [i \in 0 .. n |-> IF i = 0 THEN <<>>
                                 ELSE IF t[i] = s THEN kept[i - 1]
                                 ELSE Append(kept[i - 1], t[i])]
    BY <1>8 DEF n
  <2>2. 0 \in 0 .. n /\ \A i \in 1 .. n : i \in 0 .. n /\ i # 0
    BY <1>1
  <2> QED BY <2>1, <2>2
<1> HIDE DEF K
<1>10. \A i \in 0 .. n : kept[i] = h[i]
  <2>1. \A i \in 1 .. n : kept[i - 1] = h[i - 1] => kept[i] = h[i]
    BY <1>6, <1>9
  <2>2. kept[0] = h[0] /\ n \in Nat
    BY <1>1, <1>5, <1>9
  <2>3. Alike(kept, h, n)
    BY <2>1, <2>2 DEF Alike
  <2> QED BY <2>2, <2>3, Agreement
<1>11. n \in 0 .. n
  BY <1>1
<1> QED BY <1>4, <1>5, <1>8, <1>10, <1>11 DEF Doc!Without, n

SsidOf == [n \in Network |-> n.ssid]
NameOf == [b \in Entry |-> b.ssid]

LEMMA NamesMap ==
    /\ Maps(SsidOf, Network, Text \ {<<>>}) /\ Maps(NameOf, Entry, Text \ {<<>>})
  BY DEF Maps, SsidOf, NameOf, Network, Entry

\* Plain names are read as they were given.
LEMMA PlainRead ==
    ASSUME NEW bs \in Seq(Entry), PlainNames(bs)
    PROVE  Mapped(SsidOf, Mapped(Reading, bs)) = Mapped(NameOf, bs)
<1>1. Mapped(SsidOf, Mapped(Reading, bs)) = [i \in DOMAIN bs |-> SsidOf[Reading[bs[i]]]]
  BY ReadingFacts, NamesMap, MappedTwice
<1>2. ASSUME NEW i \in DOMAIN bs PROVE SsidOf[Reading[bs[i]]] = NameOf[bs[i]]
  <2> DEFINE b == bs[i]
  <2>1. b \in Entry
    BY LenProperties, ElementOfSeq
  <2>2. \A c \in DOMAIN b.ssid : b.ssid[c] = "plain"
    BY DEF PlainNames
  <2> HIDE DEF b
  <2>3. b.ssid \in Text /\ b.age \in Nat
    BY <2>1 DEF Entry
  <2>4. Aged(b.ssid, b.age) = b.ssid
    BY <2>2, <2>3, AgedPlain
  <2>5. Reading[b] \in Network /\ Reading[b].ssid = Aged(b.ssid, b.age)
    BY <2>1, ReadingFacts DEF Maps, Reading, ReadAs
  <2>6. SsidOf[Reading[b]] = NameOf[b]
    BY <2>1, <2>4, <2>5 DEF SsidOf, NameOf
  <2> QED BY <2>6 DEF b
<1> QED BY <1>1, <1>2 DEF Mapped

\* Ageing changes no name.
LEMMA OlderNames ==
    ASSUME NEW bs \in Seq(Entry)
    PROVE  /\ Mapped(NameOf, Older(bs)) = Mapped(NameOf, bs)
           /\ PlainNames(Older(bs)) <=> PlainNames(bs)
<1>1. \A i \in DOMAIN bs : bs[i] \in Entry
  BY LenProperties, ElementOfSeq
<1>2. DOMAIN Older(bs) = DOMAIN bs
  BY DEF Older
<1>3. \A i \in DOMAIN bs : Older(bs)[i] \in Entry /\ Older(bs)[i].ssid = bs[i].ssid
  BY <1>1 DEF Older, Entry
<1>4. \A i \in DOMAIN bs : NameOf[Older(bs)[i]] = NameOf[bs[i]]
  BY <1>1, <1>3 DEF NameOf
<1>5. Mapped(NameOf, Older(bs)) = Mapped(NameOf, bs)
  BY <1>2, <1>4 DEF Mapped
<1>6. PlainNames(Older(bs)) <=> PlainNames(bs)
  BY <1>2, <1>3 DEF PlainNames
<1> QED BY <1>5, <1>6

\* The cells of a file: whether its header says anything, and the names that it has.
LEMMA CellsRead ==
    ASSUME NEW f \in Seq(Line)
    PROVE  LET ns == Mapped(SsidOf, Nets(f)) IN
           /\ ns \in Seq(Text \ {<<>>})
           /\ Cells(f) = Doc!Render(Meaningful(Parsed(f).header) # <<>>, ns)
           /\ Doc!HasHeader(Cells(f)) = (Meaningful(Parsed(f).header) # <<>>)
           /\ Doc!Nets(Cells(f)) = ns
<1> DEFINE h == Meaningful(Parsed(f).header)
           ns == Mapped(SsidOf, Nets(f))
           T == Text \ {<<>>}
<1>1. Nets(f) \in Seq(Network)
  BY ParsedAppend DEF Nets, State
<1>2. ns \in Seq(T)
  BY <1>1, NamesMap, MappedFacts
<1>3. ns = [i \in DOMAIN Nets(f) |-> Nets(f)[i].ssid]
  <2>1. \A i \in DOMAIN Nets(f) : Nets(f)[i] \in Network
    BY <1>1, LenProperties, ElementOfSeq
  <2> QED BY <2>1 DEF Mapped, SsidOf
<1>4. Cells(f) = (IF h = <<>> THEN <<>> ELSE << <<>> >>) \o ns
  BY <1>3 DEF Cells
<1>5. Doc!Render(h # <<>>, ns) = IF h # <<>> THEN << <<>> >> \o ns ELSE ns
  BY DEF Doc!Render
<1> HIDE DEF h, ns, T
<1>6. <<>> \o ns = ns
  BY <1>2, ConcatEmptySeq
<1>7. CASE h = <<>>
  <2>1. Cells(f) = ns
    BY <1>4, <1>6, <1>7
  <2>2. ns # <<>> => ns[1] \in T
    BY <1>2, LenProperties, ElementOfSeq, EmptySeq
  <2>3. Doc!HasHeader(Cells(f)) = FALSE
    BY <2>1, <2>2 DEF Doc!HasHeader, T
  <2>4. Doc!Nets(Cells(f)) = ns
    BY <2>1, <2>3 DEF Doc!Nets
  <2> QED BY <1>2, <1>5, <1>7, <2>1, <2>3, <2>4 DEF h, ns, T
<1>8. CASE h # <<>>
  <2> DEFINE x == << <<>> >> \o ns
  <2>1. Cells(f) = x
    BY <1>4, <1>8
  <2>2. x # <<>> /\ x[1] = <<>> /\ Tail(x) = ns
    BY <1>2
  <2> HIDE DEF x
  <2>3. Doc!HasHeader(Cells(f)) = TRUE
    BY <2>1, <2>2 DEF Doc!HasHeader
  <2>4. Doc!Nets(Cells(f)) = ns
    BY <2>1, <2>2, <2>3 DEF Doc!Nets
  <2> QED BY <1>2, <1>5, <1>8, <2>1, <2>3, <2>4 DEF h, ns, T, x
<1> QED BY <1>7, <1>8

\* After a write the cells have the same header, and the names that were written.
LEMMA CellsWritten ==
    ASSUME Inv, NEW bs, Writing(bs), PlainNames(book')
    PROVE  /\ file' \in Seq(Line) /\ bs \in Seq(Entry) /\ PlainNames(bs)
           /\ Cells(file') = Doc!Render(Doc!HasHeader(Cells(file)), Mapped(NameOf, bs))
<1> DEFINE h == Parsed(file).header
           ns == Mapped(Reading, bs)
<1>1. /\ bs \in Seq(EntryTo(writes)) /\ ns \in Seq(Network) /\ h \in Seq(HeaderLine)
      /\ file' = Render(h, ns) /\ book' = Older(bs) /\ writes \in Nat
      /\ file \in Seq(Line) /\ EntryTo(writes) \subseteq Entry
  BY InvFacts DEF Writing, Write
<1>2. bs \in Seq(Entry)
  BY <1>1, SeqMonotonic
<1>3. PlainNames(bs)
  BY <1>1, <1>2, OlderNames
<1>4. Mapped(EscapedNet, ns) = Mapped(Reading, Older(bs))
  BY <1>1, OlderFacts
<1>5. Older(bs) \in Seq(Entry)
  <2>1. Older(bs) \in Seq(EntryTo(writes + 1))
    BY <1>1, OlderFacts
  <2>2. EntryTo(writes + 1) \subseteq Entry
    BY <1>1 DEF EntryTo, Entry
  <2> QED BY <2>1, <2>2, SeqMonotonic
<1> HIDE DEF h, ns
<1>6. /\ file' \in Seq(Line) /\ Parsed(file').nets = Mapped(EscapedNet, ns)
      /\ Parsed(file').header = IF ns = <<>> THEN Terminated(h) ELSE Append(Terminated(h), Empty)
  BY <1>1, RenderParsed
<1>7. Meaningful(Parsed(file').header) = Meaningful(h)
  BY <1>1, <1>6, TerminatedFacts
<1>8. Mapped(SsidOf, Nets(file')) = Mapped(NameOf, bs)
  <2>1. PlainNames(Older(bs))
    BY <1>1
  <2>2. Mapped(SsidOf, Mapped(Reading, Older(bs))) = Mapped(NameOf, Older(bs))
    BY <1>5, <2>1, PlainRead
  <2> QED BY <1>2, <1>4, <1>6, <2>2, OlderNames DEF Nets
<1>9. Cells(file') = Doc!Render(Meaningful(h) # <<>>, Mapped(NameOf, bs))
  BY <1>6, <1>7, <1>8, CellsRead
<1>10. Doc!HasHeader(Cells(file)) = (Meaningful(h) # <<>>)
  BY <1>1, CellsRead DEF h
<1> QED BY <1>2, <1>3, <1>6, <1>9, <1>10

\* The request that a step answers, as WifiDoc sees it.
Answers(q) ==
    /\ ~Doc!Invalid(q) /\ ~Doc!Refused(Cells(file), q)
    /\ Cells(file') = Doc!Edited(Cells(file), q)

LEMMA AddAnswers ==
    ASSUME Inv, NEW s \in Names, NEW p \in Phrases, AddNetwork(s, p),
           PlainNames(book), PlainNames(book')
    PROVE  Answers([op |-> "add", ssid |-> s])
<1> DEFINE e == [ssid |-> s, psk |-> p, age |-> 0]
           q == [op |-> "add", ssid |-> s]
           ns == Mapped(SsidOf, Nets(file))
<1>1. s \in Text /\ s # <<>> /\ p \in Text
  BY FormatAssumption
<1>2. Writing(Append(book, e)) /\ e \in Entry
  BY <1>1, AddWrites DEF Entry
<1>3. /\ file \in Seq(Line) /\ book \in Seq(Entry) /\ Nets(file) = Mapped(Reading, book)
      /\ Nets(file) \in Seq(Network)
  BY InvFacts
<1>4. ~Doc!Invalid(q)
  <2>1. s # <<"blank">>
    <3>1. s \in Seq(Char) /\ 1 \in 1 .. Len(s) => s[1] \in Char
      BY ElementOfSeq
    <3>2. Len(<<"blank">>) = 1 /\ <<"blank">>[1] = "blank" /\ "blank" \notin Char
      BY DEF Char
    <3> QED BY <1>1, <3>1, <3>2 DEF Text
  <2> QED BY <2>1 DEF Doc!Invalid
<1>5. Doc!Nets(Cells(file)) = ns
  BY <1>3, CellsRead
<1>6. s \notin Range(ns)
  <2>1. \A i \in DOMAIN Nets(file) : Nets(file)[i].ssid # s
    BY DEF AddNetwork, Known, Nets
  <2>2. DOMAIN ns = DOMAIN Nets(file)
    BY DEF Mapped
  <2>3. \A i \in DOMAIN Nets(file) : ns[i] = Nets(file)[i].ssid
    <3>1. \A i \in DOMAIN Nets(file) : Nets(file)[i] \in Network
      BY <1>3, LenProperties, ElementOfSeq
    <3> QED BY <3>1 DEF Mapped, SsidOf
  <2> HIDE DEF ns
  <2> QED BY <2>1, <2>2, <2>3 DEF Range
<1>7. ~Doc!Refused(Cells(file), q)
  <2> HIDE DEF ns
  <2> QED BY <1>5, <1>6 DEF Doc!Refused, Doc!Range, Range
<1>8. ns = Mapped(NameOf, book)
  BY <1>3, PlainRead
<1>9. Mapped(NameOf, Append(book, e)) = Append(Mapped(NameOf, book), s)
  <2>1. NameOf[e] = s
    BY <1>2 DEF NameOf
  <2> HIDE DEF e
  <2>2. Mapped(NameOf, Append(book, e)) = Append(Mapped(NameOf, book), NameOf[e])
    BY <1>2, <1>3, NamesMap, MappedFacts
  <2> QED BY <2>1, <2>2
<1> HIDE DEF e, ns
<1>10. Cells(file') = Doc!Render(Doc!HasHeader(Cells(file)), Append(ns, s))
  BY <1>2, <1>8, <1>9, CellsWritten
<1>11. Doc!Edited(Cells(file), q) = Doc!Render(Doc!HasHeader(Cells(file)), Append(ns, s))
  BY <1>5 DEF Doc!Edited
<1> QED BY <1>4, <1>7, <1>10, <1>11 DEF Answers

LEMMA RemoveAnswers ==
    ASSUME Inv, NEW i \in DOMAIN Nets(file), RemoveNetwork(Nets(file)[i].ssid),
           PlainNames(book), PlainNames(book')
    PROVE  /\ Answers([op |-> "remove", ssid |-> Nets(file)[i].ssid])
           /\ Nets(file)[i].ssid \in {b.ssid : b \in Range(book)}
<1> DEFINE s == Nets(file)[i].ssid
           q == [op |-> "remove", ssid |-> s]
           ns == Mapped(SsidOf, Nets(file))
           M == {n \in Network : n.ssid = s}
           bs == Without(book, {b \in Entry : Reading[b].ssid = s})
<1>1. /\ file \in Seq(Line) /\ book \in Seq(Entry) /\ Nets(file) = Mapped(Reading, book)
      /\ Nets(file) \in Seq(Network) /\ DOMAIN book = DOMAIN Nets(file)
  BY InvFacts DEF Mapped
<1>2. Writing(bs) /\ Mapped(Reading, bs) = Without(Nets(file), M)
  BY RemoveWrites
<1>3. /\ \A j \in DOMAIN Nets(file) : Nets(file)[j] \in Network
      /\ \A j \in DOMAIN book : book[j] \in Entry
  BY <1>1, LenProperties, ElementOfSeq
<1>4. DOMAIN ns = DOMAIN Nets(file) /\ ns[i] = s
  BY <1>3 DEF Mapped, SsidOf
<1>5. Doc!Nets(Cells(file)) = ns /\ ns \in Seq(Text \ {<<>>})
  BY <1>1, CellsRead
<1>6. ns = Mapped(NameOf, book)
  BY <1>1, PlainRead
<1>7. s \in {b.ssid : b \in Range(book)}
  <2>1. i \in DOMAIN book /\ book[i] \in Entry
    BY <1>1, <1>3
  <2>2. Mapped(NameOf, book)[i] = book[i].ssid
    BY <2>1 DEF Mapped, NameOf
  <2>3. s = book[i].ssid
    <3> HIDE DEF s, ns
    <3> QED BY <1>4, <1>6, <2>2
  <2>4. book[i] \in Range(book)
    BY <2>1 DEF Range
  <2> QED BY <2>3, <2>4
<1>8. ~Doc!Invalid(q)
  BY DEF Doc!Invalid
<1>9. ~Doc!Refused(Cells(file), q)
  <2> HIDE DEF ns, s
  <2> QED BY <1>4, <1>5 DEF Doc!Refused, Doc!Range
<1>10. /\ bs \in Seq(Entry) /\ PlainNames(bs)
       /\ Cells(file') = Doc!Render(Doc!HasHeader(Cells(file)), Mapped(NameOf, bs))
  <2> HIDE DEF bs
  <2> QED BY <1>2, CellsWritten
<1>11. Mapped(NameOf, bs) = Doc!Without(ns, s)
  <2>1. Mapped(SsidOf, Mapped(Reading, bs)) = Mapped(NameOf, bs)
    <3> HIDE DEF bs
    <3> QED BY <1>10, PlainRead
  <2>2. Mapped(SsidOf, Without(Nets(file), M)) = Without(ns, {s})
    <3>1. \A n \in Network : n \in M <=> SsidOf[n] \in {s}
      BY DEF SsidOf
    <3> DEFINE K == {s}
               T == Text \ {<<>>}
    <3>2. Maps(SsidOf, Network, T)
      BY NamesMap
    <3> HIDE DEF M, K, T, s
    <3>3. \A n \in Network : n \in M <=> SsidOf[n] \in K
      BY <3>1 DEF K
    <3>4. Mapped(SsidOf, Without(Nets(file), M)) = Without(ns, K)
      BY <1>1, <3>2, <3>3, WithoutMapped
    <3> QED BY <3>4 DEF K
  <2>3. Doc!Without(ns, s) = Without(ns, {s})
    <3> HIDE DEF ns, s
    <3> QED BY <1>5, DocWithout
  <2> QED BY <1>2, <2>1, <2>2, <2>3
<1>12. Doc!Edited(Cells(file), q) = Doc!Render(Doc!HasHeader(Cells(file)), Doc!Without(ns, s))
  <2> HIDE DEF ns, s
  <2> QED BY <1>5 DEF Doc!Edited
<1>13. Answers(q)
  <2> HIDE DEF bs, ns, q
  <2> QED BY <1>8, <1>9, <1>10, <1>11, <1>12 DEF Answers
<1> QED BY <1>7, <1>13

\* While every name is plain, each change of the file is the one that WifiDoc, and with it
\* the system calls of WifiConfig, makes of the file's cells (config.go:44-86).
THEOREM CellsAreEnough == Spec => CellsSuffice
<1> DEFINE Enough ==
             PlainNames(book) /\ PlainNames(book') /\ writes' > writes =>
               \E o \in {"add", "remove"}, s \in Names \cup {b.ssid : b \in Range(book)} :
                 LET q == [op |-> o, ssid |-> s] IN
                   /\ ~Doc!Invalid(q) /\ ~Doc!Refused(Cells(file), q)
                   /\ Cells(file') = Doc!Edited(Cells(file), q)
<1>1. ASSUME Inv, Next PROVE Enough
  <2> SUFFICES ASSUME PlainNames(book), PlainNames(book'), writes' > writes
               PROVE  \E o \in {"add", "remove"}, s \in Names \cup {b.ssid : b \in Range(book)} :
                        Answers([op |-> o, ssid |-> s])
    BY DEF Answers
  <2>1. CASE Over
    <3>1. writes' = writes /\ writes \in Nat
      BY <1>1, <2>1, InvFacts DEF Over, vars
    <3> QED BY <3>1
  <2>2. ASSUME NEW s \in Names, NEW p \in Phrases, AddNetwork(s, p)
        PROVE  Answers([op |-> "add", ssid |-> s])
    BY <1>1, <2>2, AddAnswers
  <2>3. ASSUME NEW i \in DOMAIN Nets(file), RemoveNetwork(Nets(file)[i].ssid)
        PROVE  /\ Answers([op |-> "remove", ssid |-> Nets(file)[i].ssid])
               /\ Nets(file)[i].ssid \in {b.ssid : b \in Range(book)}
    BY <1>1, <2>3, RemoveAnswers
  <2> QED BY <1>1, <2>1, <2>2, <2>3 DEF Next
<1> HIDE DEF Enough
<1>2. Inv /\ [Next]_vars => [Enough]_vars
  BY <1>1
<1> QED BY <1>2, InvAlways, PTL DEF Spec, CellsSuffice, Enough
===============================================================================
