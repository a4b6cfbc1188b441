---------------------------- MODULE InductionLemmas ---------------------------
(***************************************************************************)
(* Induction over the naturals and over sequences, said of sets instead of *)
(* predicates, and what it gives of functions that are defined by          *)
(* recursion over the positions of a sequence.                             *)
(***************************************************************************)
EXTENDS TLAPS, SequenceTheorems, WellFoundedInduction

(***************************************************************************)
(* A set of naturals that is not empty has a least element, which is what  *)
(* an induction over the positions of a sequence rests on.                 *)
(***************************************************************************)
LEMMA LeastNat ==
    ASSUME NEW T \in SUBSET Nat, T # {}
    PROVE  \E n \in T : \A m \in T : n <= m
<1> DEFINE R == {ss \in Nat \X Nat : ss[1] < ss[2]}
<1>1. IsWellFoundedOn(R, Nat)
  BY NatLessThanWellFounded DEF OpToRel
<1>2. \A n, m \in Nat : <<m, n>> \in R <=> m < n
  OBVIOUS
<1> HIDE DEF R
<1>3. PICK n \in T : \A m \in T : ~(<<m, n>> \in R)
  BY <1>1, WFMin
<1>4. ASSUME NEW m \in T PROVE n <= m
  <2>1. n \in Nat /\ m \in Nat /\ ~(<<m, n>> \in R)
    BY <1>3
  <2>2. ~(m < n)
    BY <2>1, <1>2
  <2> QED BY <2>1, <2>2
<1> QED BY <1>4

\* Induction from 0 up to n.
LEMMA UpTo ==
    ASSUME NEW n \in Nat, NEW G, 0 \in G,
           \A i \in 0 .. n : i # n /\ i \in G => i + 1 \in G
    PROVE  0 .. n \subseteq G
<1> SUFFICES ASSUME (0 .. n) \ G # {} PROVE FALSE
  OBVIOUS
<1> DEFINE Bad == (0 .. n) \ G
<1>1. Bad \in SUBSET Nat /\ Bad # {}
  OBVIOUS
<1> HIDE DEF Bad
<1>2. PICK b \in Bad : \A m \in Bad : b <= m
  BY <1>1, LeastNat
<1>3. b \in 0 .. n /\ b \notin G /\ b # 0
  BY <1>2 DEF Bad
<1>4. b - 1 \in 0 .. n /\ b - 1 # n /\ (b - 1) + 1 = b /\ ~(b <= b - 1)
  BY <1>3
<1>5. b - 1 \in G
  BY <1>2, <1>4 DEF Bad
<1> QED BY <1>3, <1>4, <1>5

\* Induction over the naturals.
LEMMA NatStep ==
    ASSUME NEW G, 0 \in G, \A n \in Nat : n \in G => n + 1 \in G
    PROVE  Nat \subseteq G
<1> SUFFICES ASSUME NEW n \in Nat PROVE n \in G
  OBVIOUS
<1>1. 0 .. n \subseteq G
  BY UpTo
<1> QED BY <1>1

\* Induction over sequences, by their last element.
LEMMA SeqStep ==
    ASSUME NEW S, NEW G, <<>> \in G,
           \A s \in Seq(S), e \in S : s \in G => Append(s, e) \in G
    PROVE  Seq(S) \subseteq G
<1> DEFINE H == {n \in Nat : \A s \in Seq(S) : Len(s) = n => s \in G}
<1>1. 0 \in H
  <2> SUFFICES ASSUME NEW s \in Seq(S), Len(s) = 0 PROVE s \in G
    OBVIOUS
  <2>1. s = <<>>
    BY EmptySeq
  <2> QED BY <2>1
<1>2. ASSUME NEW n \in Nat, n \in H PROVE n + 1 \in H
  <2> SUFFICES ASSUME NEW s \in Seq(S), Len(s) = n + 1 PROVE s \in G
    OBVIOUS
  <2>1. s # <<>>
    BY EmptySeq
  <2>2. PICK t \in Seq(S), e \in S : s = Append(t, e)
    BY <2>1, SequenceEmptyOrAppend
  <2>3. Len(t) = n
    BY <2>2, AppendProperties, LenProperties
  <2> QED BY <1>2, <2>2, <2>3
<1> HIDE DEF H
<1>3. Nat \subseteq H
  BY <1>1, <1>2, NatStep
<1> SUFFICES ASSUME NEW s \in Seq(S) PROVE s \in G
  OBVIOUS
<1>4. Len(s) \in H
  BY <1>3, LenProperties
<1> QED BY <1>4 DEF H

\* g is what n steps make of base, each step staying in S.
Stays(S, n, step) == \A i \in 1 .. n, x \in S : step[i][x] \in S
Solves(g, S, n, base, step) ==
    /\ g \in [0 .. n -> S] /\ g[0] = base
    /\ \A i \in 1 .. n : g[i] = step[i][g[i - 1]]

\* A recursion that stays in a set has a solution.
LEMMA Recursion ==
    ASSUME NEW S, NEW n \in Nat, NEW base \in S, NEW step, Stays(S, n, step)
    PROVE  \E g : Solves(g, S, n, base, step)
<1> DEFINE G == {m \in 0 .. n : \E g : Solves(g, S, m, base, step)}
<1>1. 0 \in G
  <2>1. Solves([i \in 0 .. 0 |-> base], S, 0, base, step)
    BY DEF Solves
  <2> QED BY <2>1
<1>2. ASSUME NEW m \in 0 .. n, m # n, m \in G PROVE m + 1 \in G
  <2>1. PICK g : Solves(g, S, m, base, step)
    BY <1>2
  <2>2. m + 1 \in 1 .. n /\ m \in 0 .. m
    BY <1>2
  <2> DEFINE h == [i \in 0 .. m + 1 |-> IF i <= m THEN g[i] ELSE step[m + 1][g[m]]]
  <2>3. g \in [0 .. m -> S] /\ g[0] = base /\ \A i \in 1 .. m : g[i] = step[i][g[i - 1]]
    BY <2>1 DEF Solves
  <2>4. h \in [0 .. m + 1 -> S]
    <3>1. step[m + 1][g[m]] \in S
      BY <2>2, <2>3 DEF Stays
    <3> QED BY <3>1, <2>3
  <2>5. \A i \in 1 .. m + 1 : h[i] = step[i][h[i - 1]]
    <3> SUFFICES ASSUME NEW i \in 1 .. m + 1 PROVE h[i] = step[i][h[i - 1]]
      OBVIOUS
    <3>1. CASE i = m + 1
      <4>1. h[i] = step[i][g[m]] /\ h[i - 1] = g[m]
        BY <3>1
      <4> QED BY <4>1
    <3>2. CASE i # m + 1
      <4>1. i \in 1 .. m /\ i - 1 \in 0 .. m /\ i \in 0 .. m
        BY <3>2
      <4>2. h[i] = g[i] /\ h[i - 1] = g[i - 1]
        BY <4>1
      <4> QED BY <4>1, <4>2, <2>3
    <3> QED BY <3>1, <3>2
  <2>6. h[0] = base
    BY <2>3
  <2> HIDE DEF h
  <2>7. Solves(h, S, m + 1, base, step)
    BY <2>4, <2>5, <2>6 DEF Solves
  <2> QED BY <2>2, <2>7
<1> HIDE DEF G
<1>3. 0 .. n \subseteq G
  BY <1>1, <1>2, UpTo
<1>4. n \in G
  BY <1>3
<1> QED BY <1>4 DEF G

\* g and h begin alike, and take equal steps from equal values.
Alike(g, h, n) ==
    g[0] = h[0] /\ \A i \in 1 .. n : g[i - 1] = h[i - 1] => g[i] = h[i]

\* Two solutions of the same recursion are equal.
LEMMA Agreement ==
    ASSUME NEW n \in Nat, NEW g, NEW h, Alike(g, h, n)
    PROVE  \A i \in 0 .. n : g[i] = h[i]
<1> DEFINE G == {i \in Nat : g[i] = h[i]}
<1>1. \A i \in 0 .. n : i # n /\ i \in G => i + 1 \in G
  <2> SUFFICES ASSUME NEW i \in 0 .. n, i # n, g[i] = h[i] PROVE g[i + 1] = h[i + 1]
    OBVIOUS
  <2>1. i + 1 \in 1 .. n /\ (i + 1) - 1 = i
    OBVIOUS
  <2> QED BY <2>1 DEF Alike
<1> HIDE DEF G
<1>2. 0 \in G
  BY DEF G, Alike
<1>3. 0 .. n \subseteq G
  BY <1>1, <1>2, UpTo
<1> QED BY <1>3 DEF G
===============================================================================
