----------------------------- MODULE ProgramProofs -----------------------------
(***************************************************************************)
(* What the program keeps across crashes, what it leaves behind, and that  *)
(* the profiles it serves can be used: for any answers of the panel, any   *)
(* nodes, filters, configurations and templates, any number of starts and  *)
(* of listeners.                                                           *)
(***************************************************************************)
EXTENDS Program, WellFoundedInduction, SequenceTheorems, TLAPS

-----------------------------------------------------------------------------
(* Sequences put together from sequences.                                  *)

LEMMA LeastNumber ==
  ASSUME NEW S \in SUBSET Nat, S # {} PROVE \E m \in S : \A k \in S : m <= k
<1>. DEFINE R == {ss \in Nat \X Nat : ss[1] < ss[2]}
<1>1. IsWellFoundedOn(R, Nat)
  BY NatLessThanWellFounded DEF OpToRel
<1>2. \A x \in Nat, y \in Nat : <<y, x>> \in R <=> y < x
  OBVIOUS
<1>. HIDE DEF R
<1>3. PICK m \in S : \A y \in S : ~ (<<y, m>> \in R)
  BY <1>1, WFMin
<1>4. \A k \in S : ~ (k < m)
  BY <1>2, <1>3
<1>. QED BY <1>4

\* A set of numbers that holds 1 and, up to n, the successor of each it holds.
LEMMA CountUp ==
  ASSUME NEW n \in Nat, NEW G \in SUBSET Nat, 1 \in G, \A k \in G : k < n => k + 1 \in G
  PROVE  1..n \subseteq G
<1>. SUFFICES ASSUME (1..n) \ G # {} PROVE FALSE
  OBVIOUS
<1>1. PICK m \in (1..n) \ G : \A k \in (1..n) \ G : m <= k
  <2>1. (1..n) \ G \in SUBSET Nat
    OBVIOUS
  <2>. QED BY <2>1, LeastNumber
<1>2. m - 1 \in 1..n /\ m - 1 \in G
  BY <1>1
<1>. QED BY <1>1, <1>2

\* The same from 0 on.
LEMMA CountFromZero ==
  ASSUME NEW n \in Nat, NEW G \in SUBSET Nat, 0 \in G, \A k \in G : k < n => k + 1 \in G
  PROVE  0..n \subseteq G
<1>. SUFFICES ASSUME (0..n) \ G # {} PROVE FALSE
  OBVIOUS
<1>1. PICK m \in (0..n) \ G : \A k \in (0..n) \ G : m <= k
  <2>1. (0..n) \ G \in SUBSET Nat
    OBVIOUS
  <2>. QED BY <2>1, LeastNumber
<1>2. m - 1 \in 0..n /\ m - 1 \in G
  BY <1>1
<1>. QED BY <1>1, <1>2

\* The sequences of a sequence, put one behind the other, one at a time.
LEMMA FlattenBuilt ==
  ASSUME NEW X, NEW ss \in Seq(Seq(X)), ss # <<>>
  PROVE  \E g \in [1..Len(ss) -> Seq(X)] :
           /\ g[1] = ss[1] /\ FlattenSeq(ss) = g[Len(ss)]
           /\ \A k \in 1..(Len(ss) - 1) : g[k + 1] = g[k] \o ss[k + 1]
<1>. DEFINE n == Len(ss)
            Joined(f, j) == IF j = 1 THEN ss[j] ELSE f[j - 1] \o ss[j]
            Built(m, g) == \A j \in 1..m : g[j] \in Seq(X) /\ g[j] = Joined(g, j)
            flatten == CHOOSE f : f = [j \in 1..n |-> Joined(f, j)]
<1>1. n \in Nat /\ n # 0 /\ \A j \in 1..n : ss[j] \in Seq(X)
  OBVIOUS
<1>. DEFINE G == {m \in 1..n : \E g : Built(m, g)}
<1>2. 1 \in G
  <2>1. Built(1, [j \in 1..1 |-> ss[j]])
    BY <1>1
  <2>. QED BY <1>1, <2>1
<1>3. ASSUME NEW k \in G, k < n PROVE k + 1 \in G
  <2>1. PICK g : Built(k, g)
    OBVIOUS
  <2>2. k \in 1..n /\ k + 1 \in 1..n /\ k # k + 1 /\ k + 1 # 1 /\ (k + 1) - 1 = k
    BY <1>1, <1>3
  <2>3. g[k] \in Seq(X) /\ ss[k + 1] \in Seq(X)
    BY <1>1, <2>1, <2>2
  <2>4. PICK x : x = g[k] \o ss[k + 1]
    OBVIOUS
  <2>. DEFINE h == [j \in 1..(k + 1) |-> IF j = k + 1 THEN x ELSE g[j]]
  <2>5. h[k] = g[k] /\ h[k + 1] = x /\ x \in Seq(X)
    <3>1. x \in Seq(X)
      BY <2>3, <2>4
    <3>. QED BY <2>2, <3>1
  <2>6. \A j \in 1..k : h[j] = g[j] /\ (j # 1 => h[j - 1] = g[j - 1])
    BY <2>2
  <2>. HIDE DEF h
  <2>7. Built(k + 1, h)
    <3>1. ASSUME NEW j \in 1..k PROVE h[j] \in Seq(X) /\ h[j] = Joined(h, j)
      BY <2>1, <2>6
    <3>2. h[k + 1] = Joined(h, k + 1) /\ h[k + 1] \in Seq(X)
      BY <2>2, <2>4, <2>5
    <3>3. \A j \in 1..(k + 1) : j \in 1..k \/ j = k + 1
      BY <2>2
    <3>. HIDE DEF Joined
    <3>. QED BY <3>1, <3>2, <3>3
  <2>. QED BY <2>2, <2>7
<1>4. G \in SUBSET Nat /\ n \in Nat /\ n >= 1
  BY <1>1
<1>. HIDE DEF G, n
<1>5. n \in G
  <2>1. 1..n \subseteq G
    BY <1>2, <1>3, <1>4, CountUp
  <2>. QED BY <1>4, <2>1
<1>6. PICK g : Built(n, g)
  BY <1>5 DEF G
<1>. DEFINE h == [j \in 1..n |-> g[j]]
<1>7. h = [j \in 1..n |-> Joined(h, j)]
  <2>1. \A j \in 1..n : h[j] = Joined(h, j)
    BY <1>4, <1>6
  <2>. QED BY <2>1
<1>8. flatten = [j \in 1..n |-> Joined(flatten, j)]
  BY <1>7
<1>9. FlattenSeq(ss) = flatten[n]
  BY <1>1 DEF FlattenSeq, n
<1>. HIDE DEF flatten
<1>. DEFINE H == {m \in 1..n : flatten[m] \in Seq(X)}
<1>10. 1 \in H
  BY <1>1, <1>4, <1>8
<1>11. ASSUME NEW k \in 1..(n - 1) PROVE flatten[k + 1] = flatten[k] \o ss[k + 1]
  <2>1. k + 1 \in 1..n /\ (k + 1) - 1 = k /\ k + 1 # 1
    BY <1>4
  <2>. QED BY <1>8, <2>1
<1>12. ASSUME NEW k \in H, k < n PROVE k + 1 \in H
  <2>1. k \in 1..(n - 1) /\ k + 1 \in 1..n
    BY <1>4, <1>12
  <2>2. flatten[k] \in Seq(X) /\ ss[k + 1] \in Seq(X)
    BY <1>1, <2>1
  <2>3. flatten[k + 1] = flatten[k] \o ss[k + 1]
    BY <1>11, <2>1
  <2>4. flatten[k + 1] \in Seq(X)
    BY <2>2, <2>3
  <2>. QED BY <2>1, <2>4
<1>13. H \in SUBSET Nat
  BY <1>4
<1>. HIDE DEF H
<1>14. 1..n \subseteq H
  BY <1>4, <1>10, <1>12, <1>13, CountUp
<1>15. flatten \in [1..n -> Seq(X)]
  <2>1. \A j \in 1..n : flatten[j] \in Seq(X)
    BY <1>14 DEF H
  <2>. QED BY <1>8, <2>1
<1>16. flatten[1] = ss[1]
  BY <1>4, <1>8
<1>. QED BY <1>9, <1>11, <1>15, <1>16 DEF n

\* Two sequences, one behind the other.
LEMMA JoinedSeqs ==
  ASSUME NEW X, NEW s \in Seq(X), NEW t \in Seq(X)
  PROVE  /\ s \o t \in Seq(X) /\ Len(s \o t) = Len(s) + Len(t) /\ Len(s) \in Nat /\ Len(t) \in Nat
         /\ ToSet(s \o t) = ToSet(s) \cup ToSet(t)
         /\ \A k \in 1..Len(s) : (s \o t)[k] = s[k]
         /\ \A k \in 1..Len(t) : (s \o t)[Len(s) + k] = t[k]
<1>. DEFINE st == s \o t
<1>1. st \in Seq(X) /\ Len(st) = Len(s) + Len(t) /\ Len(s) \in Nat /\ Len(t) \in Nat
  OBVIOUS
<1>2. DOMAIN s = 1..Len(s) /\ DOMAIN t = 1..Len(t) /\ DOMAIN st = 1..(Len(s) + Len(t))
  BY <1>1
<1>3. \A k \in 1..Len(s) : st[k] = s[k]
  BY <1>1
<1>4. \A k \in 1..Len(t) : st[Len(s) + k] = t[k]
  BY <1>1
<1>5. \A k \in 1..(Len(s) + Len(t)) : k \in 1..Len(s) \/ \E j \in 1..Len(t) : k = Len(s) + j
  <2>. SUFFICES ASSUME NEW k \in 1..(Len(s) + Len(t)), k \notin 1..Len(s)
                PROVE  \E j \in 1..Len(t) : k = Len(s) + j
    OBVIOUS
  <2>1. k - Len(s) \in 1..Len(t) /\ k = Len(s) + (k - Len(s))
    BY <1>1
  <2>. QED BY <2>1
<1>6. \A k \in 1..Len(s) : k \in 1..(Len(s) + Len(t))
  BY <1>1
<1>7. \A k \in 1..Len(t) : Len(s) + k \in 1..(Len(s) + Len(t))
  BY <1>1
<1>. HIDE DEF st
<1>8. ToSet(st) = ToSet(s) \cup ToSet(t)
  <2>1. ASSUME NEW x \in ToSet(st) PROVE x \in ToSet(s) \cup ToSet(t)
    <3>1. PICK k \in 1..(Len(s) + Len(t)) : x = st[k]
      BY <1>2 DEF ToSet
    <3>2. CASE k \in 1..Len(s)
      BY <1>2, <1>3, <3>1, <3>2 DEF ToSet
    <3>3. CASE k \notin 1..Len(s)
      <4>1. PICK j \in 1..Len(t) : k = Len(s) + j
        BY <1>5, <3>3
      <4>2. x = t[j]
        BY <1>4, <3>1, <4>1
      <4>. QED BY <1>2, <4>2 DEF ToSet
    <3>. QED BY <3>2, <3>3
  <2>2. \A x \in ToSet(s) : x \in ToSet(st)
    BY <1>2, <1>3, <1>6 DEF ToSet
  <2>3. \A x \in ToSet(t) : x \in ToSet(st)
    BY <1>2, <1>4, <1>7 DEF ToSet
  <2>. QED BY <2>1, <2>2, <2>3
<1>. QED BY <1>1, <1>3, <1>4, <1>8 DEF st

LEMMA FlattenEmpty == FlattenSeq(<<>>) = <<>>
BY DEF FlattenSeq

\* What is in it is what was in the sequences.
LEMMA FlattenToSet ==
  ASSUME NEW X, NEW ss \in Seq(Seq(X))
  PROVE  /\ FlattenSeq(ss) \in Seq(X)
         /\ ToSet(FlattenSeq(ss)) = UNION {ToSet(ss[k]) : k \in DOMAIN ss}
<1>. DEFINE All == UNION {ToSet(ss[k]) : k \in DOMAIN ss}
<1>1. ASSUME ss = <<>> PROVE FlattenSeq(ss) \in Seq(X) /\ ToSet(FlattenSeq(ss)) = All
  <2>1. DOMAIN ss = {} /\ ToSet(<<>>) = {} /\ <<>> \in Seq(X)
    BY <1>1 DEF ToSet
  <2>2. All = {}
    BY <2>1
  <2>3. FlattenSeq(ss) = <<>>
    BY <1>1, FlattenEmpty
  <2>. QED BY <2>1, <2>2, <2>3
<1>2. ASSUME ss # <<>> PROVE FlattenSeq(ss) \in Seq(X) /\ ToSet(FlattenSeq(ss)) = All
  <2>1. PICK g \in [1..Len(ss) -> Seq(X)] :
          /\ g[1] = ss[1] /\ FlattenSeq(ss) = g[Len(ss)]
          /\ \A k \in 1..(Len(ss) - 1) : g[k + 1] = g[k] \o ss[k + 1]
    BY <1>2, FlattenBuilt
  <2>2. /\ Len(ss) \in Nat /\ Len(ss) >= 1 /\ DOMAIN ss = 1..Len(ss)
        /\ \A k \in 1..Len(ss) : ss[k] \in Seq(X)
    BY <1>2
  <2>. DEFINE G == {m \in 1..Len(ss) : ToSet(g[m]) = UNION {ToSet(ss[k]) : k \in 1..m}}
  <2>3. 1 \in G /\ G \in SUBSET Nat
    <3>1. 1..1 = {1}
      OBVIOUS
    <3>. QED BY <2>1, <2>2, <3>1
  <2>4. ASSUME NEW k \in G, k < Len(ss) PROVE k + 1 \in G
    <3>1. k \in 1..(Len(ss) - 1) /\ k + 1 \in 1..Len(ss) /\ 1..(k + 1) = 1..k \cup {k + 1}
      BY <2>2, <2>4
    <3>2. g[k] \in Seq(X) /\ ss[k + 1] \in Seq(X)
      BY <2>1, <2>2, <3>1
    <3>5. g[k + 1] = g[k] \o ss[k + 1]
      BY <2>1, <3>1
    <3>3. ToSet(g[k + 1]) = ToSet(g[k]) \cup ToSet(ss[k + 1])
      BY <3>2, <3>5, JoinedSeqs
    <3>4. ToSet(g[k]) = UNION {ToSet(ss[j]) : j \in 1..k}
      BY <2>4
    <3>. QED BY <3>1, <3>3, <3>4
  <2>. HIDE DEF G
  <2>5. 1..Len(ss) \subseteq G
    BY <2>2, <2>3, <2>4, CountUp
  <2>6. Len(ss) \in G
    <3>1. Len(ss) \in 1..Len(ss)
      BY <2>2
    <3>. QED BY <2>5, <3>1
  <2>7. ToSet(g[Len(ss)]) = All /\ g[Len(ss)] \in Seq(X)
    BY <2>1, <2>2, <2>6 DEF G
  <2>. QED BY <2>1, <2>7
<1>. HIDE DEF All
<1>3. FlattenSeq(ss) \in Seq(X) /\ ToSet(FlattenSeq(ss)) = All
  BY <1>1, <1>2
<1>. QED BY <1>3 DEF All

\* As long as one put together from sequences of the same lengths.
LEMMA FlattenLen ==
  ASSUME NEW X, NEW ss \in Seq(Seq(X)), NEW Y, NEW tt \in Seq(Seq(Y)), Len(ss) = Len(tt),
         \A k \in 1..Len(ss) : Len(ss[k]) = Len(tt[k])
  PROVE  Len(FlattenSeq(ss)) = Len(FlattenSeq(tt))
<1>1. CASE ss = <<>>
  BY <1>1, FlattenEmpty
<1>2. CASE ss # <<>>
  <2>1. PICK g \in [1..Len(ss) -> Seq(X)] :
          /\ g[1] = ss[1] /\ FlattenSeq(ss) = g[Len(ss)]
          /\ \A k \in 1..(Len(ss) - 1) : g[k + 1] = g[k] \o ss[k + 1]
    BY <1>2, FlattenBuilt
  <2>2. tt # <<>>
    BY <1>2
  <2>3. PICK h \in [1..Len(tt) -> Seq(Y)] :
          /\ h[1] = tt[1] /\ FlattenSeq(tt) = h[Len(tt)]
          /\ \A k \in 1..(Len(tt) - 1) : h[k + 1] = h[k] \o tt[k + 1]
    BY <2>2, FlattenBuilt
  <2>4. /\ Len(ss) \in Nat /\ Len(ss) >= 1
        /\ \A k \in 1..Len(ss) : ss[k] \in Seq(X) /\ tt[k] \in Seq(Y)
    BY <1>2
  <2>. DEFINE G == {m \in 1..Len(ss) : Len(g[m]) = Len(h[m])}
  <2>5. 1 \in G /\ G \in SUBSET Nat
    BY <2>1, <2>3, <2>4
  <2>6. ASSUME NEW k \in G, k < Len(ss) PROVE k + 1 \in G
    <3>1. k \in 1..(Len(ss) - 1) /\ k + 1 \in 1..Len(ss)
      BY <2>4, <2>6
    <3>2. g[k] \in Seq(X) /\ ss[k + 1] \in Seq(X) /\ h[k] \in Seq(Y) /\ tt[k + 1] \in Seq(Y)
      BY <2>1, <2>3, <2>4, <3>1
    <3>3. g[k + 1] = g[k] \o ss[k + 1] /\ h[k + 1] = h[k] \o tt[k + 1]
      BY <2>1, <2>3, <3>1
    <3>4. Len(g[k] \o ss[k + 1]) = Len(g[k]) + Len(ss[k + 1])
      BY <3>2, JoinedSeqs
    <3>5. Len(h[k] \o tt[k + 1]) = Len(h[k]) + Len(tt[k + 1])
      BY <3>2, JoinedSeqs
    <3>6. Len(g[k]) = Len(h[k]) /\ Len(ss[k + 1]) = Len(tt[k + 1])
      BY <2>6, <3>1
    <3>. QED BY <3>1, <3>3, <3>4, <3>5, <3>6
  <2>. HIDE DEF G
  <2>7. 1..Len(ss) \subseteq G
    BY <2>4, <2>5, <2>6, CountUp
  <2>8. Len(ss) \in G
    BY <2>4, <2>7
  <2>. QED BY <2>1, <2>3, <2>8 DEF G
<1>. QED BY <1>1, <1>2

\* No two places of s hold the same.
Distinct(s) == \A j, k \in DOMAIN s : s[j] = s[k] => j = k

\* Nothing twice in two sequences of different things.
LEMMA JoinedDistinct ==
  ASSUME NEW X, NEW s \in Seq(X), NEW t \in Seq(X), Distinct(s), Distinct(t),
         ToSet(s) \cap ToSet(t) = {}
  PROVE  Distinct(s \o t)
<1>1. PICK st : st = s \o t
  OBVIOUS
<1>2. /\ Len(s) \in Nat /\ Len(t) \in Nat /\ DOMAIN st = 1..(Len(s) + Len(t))
      /\ DOMAIN s = 1..Len(s) /\ DOMAIN t = 1..Len(t)
  BY <1>1
<1>3. \A k \in DOMAIN st : IF k <= Len(s) THEN k \in DOMAIN s /\ st[k] = s[k] /\ st[k] \in ToSet(s)
                           ELSE /\ k - Len(s) \in DOMAIN t /\ st[k] = t[k - Len(s)]
                                /\ st[k] \in ToSet(t)
  <2>1. ASSUME NEW k \in DOMAIN st, k <= Len(s) PROVE k \in DOMAIN s /\ st[k] = s[k]
    BY <1>1, <1>2, <2>1
  <2>2. ASSUME NEW k \in DOMAIN st, ~ (k <= Len(s)) PROVE k - Len(s) \in DOMAIN t /\ st[k] = t[k - Len(s)]
    BY <1>1, <1>2, <2>2
  <2>. QED BY <2>1, <2>2 DEF ToSet
<1>4. ASSUME NEW j \in DOMAIN st, NEW k \in DOMAIN st, st[j] = st[k] PROVE j = k
  <2>1. CASE j <= Len(s) /\ k <= Len(s)
    BY <1>3, <1>4, <2>1 DEF Distinct
  <2>2. CASE ~ (j <= Len(s)) /\ ~ (k <= Len(s))
    <3>1. j - Len(s) = k - Len(s)
      BY <1>3, <1>4, <2>2 DEF Distinct
    <3>. QED BY <1>2, <3>1
  <2>3. (j <= Len(s)) <=> (k <= Len(s))
    BY <1>3, <1>4
  <2>. QED BY <2>1, <2>2, <2>3
<1>. QED BY <1>1, <1>4 DEF Distinct

\* Nothing twice in sequences of different things.
LEMMA FlattenDistinct ==
  ASSUME NEW X, NEW ss \in Seq(Seq(X)), \A k \in DOMAIN ss : Distinct(ss[k]),
         \A j, k \in DOMAIN ss : j # k => ToSet(ss[j]) \cap ToSet(ss[k]) = {}
  PROVE  Distinct(FlattenSeq(ss))
<1>1. CASE ss = <<>>
  BY <1>1, FlattenEmpty DEF Distinct
<1>2. CASE ss # <<>>
  <2>1. PICK g \in [1..Len(ss) -> Seq(X)] :
          /\ g[1] = ss[1] /\ FlattenSeq(ss) = g[Len(ss)]
          /\ \A k \in 1..(Len(ss) - 1) : g[k + 1] = g[k] \o ss[k + 1]
    BY <1>2, FlattenBuilt
  <2>2. /\ Len(ss) \in Nat /\ Len(ss) >= 1 /\ DOMAIN ss = 1..Len(ss)
        /\ \A k \in 1..Len(ss) : ss[k] \in Seq(X)
    BY <1>2
  <2>. DEFINE G == {m \in 1..Len(ss) : Distinct(g[m]) /\ ToSet(g[m]) = UNION {ToSet(ss[k]) : k \in 1..m}}
  <2>3. 1 \in G /\ G \in SUBSET Nat
    <3>1. 1..1 = {1}
      OBVIOUS
    <3>. QED BY <2>1, <2>2, <3>1
  <2>4. ASSUME NEW k \in G, k < Len(ss) PROVE k + 1 \in G
    <3>1. /\ k \in 1..(Len(ss) - 1) /\ k + 1 \in 1..Len(ss) /\ 1..(k + 1) = 1..k \cup {k + 1}
          /\ k + 1 \notin 1..k /\ 1..k \subseteq 1..Len(ss)
      BY <2>2, <2>4
    <3>2. g[k] \in Seq(X) /\ ss[k + 1] \in Seq(X)
      BY <2>1, <2>2, <3>1
    <3>3. g[k + 1] = g[k] \o ss[k + 1]
      BY <2>1, <3>1
    <3>4. ToSet(g[k + 1]) = ToSet(g[k]) \cup ToSet(ss[k + 1])
      BY <3>2, <3>3, JoinedSeqs
    <3>5. Distinct(g[k]) /\ ToSet(g[k]) = UNION {ToSet(ss[j]) : j \in 1..k}
      BY <2>4
    <3>6. \A j \in 1..k : ToSet(ss[j]) \cap ToSet(ss[k + 1]) = {}
      BY <2>2, <3>1
    <3>7. ToSet(g[k]) \cap ToSet(ss[k + 1]) = {}
      BY <3>5, <3>6
    <3>8. Distinct(g[k + 1])
      BY <2>2, <3>1, <3>2, <3>3, <3>5, <3>7, JoinedDistinct
    <3>9. ToSet(g[k + 1]) = UNION {ToSet(ss[j]) : j \in 1..(k + 1)}
      BY <3>1, <3>4, <3>5
    <3>. QED BY <3>1, <3>8, <3>9
  <2>. HIDE DEF G
  <2>5. 1..Len(ss) \subseteq G
    BY <2>2, <2>3, <2>4, CountUp
  <2>6. Len(ss) \in G
    <3>1. Len(ss) \in 1..Len(ss)
      BY <2>2
    <3>. QED BY <2>5, <3>1
  <2>. QED BY <2>1, <2>6 DEF G
<1>. QED BY <1>1, <1>2

-----------------------------------------------------------------------------
(* The lists of nodes                                                      *)

IsList(s) == s \in Seq(ToSet(s))

\* A sequence of elements of s is a list, and everything in it is in s.
LEMMA SubList ==
  ASSUME NEW s, NEW t, t \in Seq(ToSet(s))
  PROVE  IsList(t) /\ ToSet(t) \subseteq ToSet(s) /\ \A k \in DOMAIN t : t[k] \in ToSet(s)
<1>1. \A k \in 1..Len(t) : t[k] \in ToSet(s)
  OBVIOUS
<1>2. t \in Seq(ToSet(t))
  <2>1. \A k \in 1..Len(t) : t[k] \in ToSet(t)
    BY DEF ToSet
  <2>. QED BY <2>1
<1>. QED BY <1>1, <1>2 DEF IsList, ToSet

\* One by one: each element as a sequence of its own, or left out.
LEMMA EachIn ==
  ASSUME NEW s, IsList(s), NEW C \in SUBSET DOMAIN s
  PROVE  FlattenSeq([k \in DOMAIN s |-> IF k \in C THEN <<s[k]>> ELSE <<>>]) \in Seq(ToSet(s))
<1>. DEFINE parts == [k \in DOMAIN s |-> IF k \in C THEN <<s[k]>> ELSE <<>>]
<1>1. DOMAIN s = 1..Len(s) /\ Len(s) \in Nat /\ \A k \in DOMAIN s : s[k] \in ToSet(s)
  BY DEF IsList
<1>2. \A k \in 1..Len(s) : parts[k] \in Seq(ToSet(s))
  BY <1>1
<1>3. parts \in Seq(Seq(ToSet(s)))
  BY <1>1, <1>2
<1>. QED BY <1>3, FlattenToSet

LEMMA DedicatedIn == ASSUME NEW s, IsList(s) PROVE AllDedicated(s) \in Seq(ToSet(s))
<1>. DEFINE C == {k \in DOMAIN s : Dedicated(s[k])}
<1>1. [k \in DOMAIN s |-> IF Dedicated(s[k]) THEN <<s[k]>> ELSE <<>>]
        = [k \in DOMAIN s |-> IF k \in C THEN <<s[k]>> ELSE <<>>]
  OBVIOUS
<1>2. C \in SUBSET DOMAIN s
  OBVIOUS
<1>. HIDE DEF C
<1>. QED BY <1>1, <1>2, EachIn DEF AllDedicated

NodeList(ns) == IsList(ns) /\ UniqueNames(ns)

\* What Parse returns names each of its nodes differently.
LEMMA ParseNamed == ASSUME NEW b, IsBody(b) PROVE NodeList(Parse(b))
<1>1. NodeList(<<>>)
  BY DEF NodeList, IsList, UniqueNames
<1>2. IsList(b.nodes)
  BY DEF IsBody, IsList
<1>3. IsList(AllDedicated(b.nodes))
  BY <1>2, DedicatedIn, SubList
<1>4. Entries(b) = AllDedicated(b.nodes) \/ Entries(b) = <<>>
  BY DEF Entries, parseYAML, parseSurge
<1>. QED BY <1>1, <1>3, <1>4 DEF Parse, NodeList

LEMMA NothingParsed == Parse(NoBody) = <<>> /\ IsBody(NoBody) /\ ~Looks(NoBody)
<1>1. IsBody(NoBody)
  BY DEF IsBody, NoBody, ToSet, IsTemplate
<1>2. ~Looks(NoBody)
  BY DEF Looks, looksLikeSurge, NoBody, ToSet
<1>. QED BY <1>1, <1>2 DEF Parse, Entries, NoBody

LEMMA OpenedBody ==
  ASSUME NEW b \in Lists \cup Pages \cup {NoBody}, NEW key PROVE IsBody(Opened(b, key))
<1>1. IsBody(b)
  BY FetchAssumption, NothingParsed DEF FetchAssumption
<1>2. b = [fmt |-> b.fmt, nodes |-> b.nodes, lines |-> b.lines, sealed |-> b.sealed, size |-> b.size]
  BY <1>1 DEF IsBody
<1>3. Opened(b, key) = [fmt |-> b.fmt, nodes |-> b.nodes, lines |-> b.lines,
                        sealed |-> b.sealed /\ ident # key, size |-> b.size]
  BY <1>2 DEF Opened
<1>. QED BY <1>1, <1>3 DEF IsBody

LEMMA NoNodes == ASSUME NEW b, IsBody(b), Parse(b) # <<>> PROVE b.size > 0
<1>1. CASE b.nodes = <<>>
  <2>1. AllDedicated(b.nodes) = <<>>
    BY <1>1 DEF AllDedicated, FlattenSeq
  <2>. QED BY <2>1 DEF Parse, Entries, parseYAML, parseSurge
<1>. QED BY <1>1 DEF IsBody

\* The template is one of the bodies, or the fallback; the only body, if there is
\* just one that has anything.
LEMMA OneBody ==
  ASSUME NEW b, IsBody(b), NEW f PROVE pickTemplate(<<b>>, f) \in {b, f}
                                 /\ (b.size > 0 /\ ~Looks(f) => pickTemplate(<<b>>, f) = b)
<1>. DEFINE bs == <<b>>
<1>1. DOMAIN bs = {1} /\ bs[1] = b /\ b.size \in Nat
  BY DEF IsBody
<1>2. Max({1}) = 1 /\ Min({1}) = 1
  BY DEF Max, Min
<1>. HIDE DEF bs
<1>. DEFINE Largest(S) == {k \in S : \A j \in S : bs[j].size <= bs[k].size}
            surge == {k \in DOMAIN bs : Looks(bs[k])}
            filled == {k \in DOMAIN bs : bs[k].size > 0}
<1>3. \A S \in SUBSET DOMAIN bs : S # {} => bs[Max(Largest(S))] = b /\ bs[Min(Largest(S))] = b
  <2>1. \A S \in SUBSET DOMAIN bs : S # {} => Largest(S) = {1}
    BY <1>1
  <2>. QED BY <1>1, <1>2, <2>1
<1>4. surge \in SUBSET DOMAIN bs /\ filled \in SUBSET DOMAIN bs /\ (b.size > 0 => filled # {})
  BY <1>1
<1>5. pickTemplate(bs, f) =
        CASE surge # {} -> bs[Max(Largest(surge))]
          [] surge = {} /\ ~Looks(f) /\ filled # {} -> bs[Min(Largest(filled))]
          [] OTHER -> f
  BY DEF pickTemplate
<1>. HIDE DEF surge, filled, Largest
<1>6. pickTemplate(bs, f) \in {b, f} /\ (b.size > 0 /\ ~Looks(f) => pickTemplate(bs, f) = b)
  BY <1>3, <1>4, <1>5
<1>. QED BY <1>6 DEF bs

LEMMA TwoBodies ==
  ASSUME NEW b, IsBody(b), NEW c, IsBody(c), NEW f PROVE pickTemplate(<<b, c>>, f) \in {b, c, f}
<1>. DEFINE bs == <<b, c>>
            Largest(S) == {k \in S : \A j \in S : bs[j].size <= bs[k].size}
<1>1. DOMAIN bs = {1, 2} /\ bs[1] = b /\ bs[2] = c /\ b.size \in Nat /\ c.size \in Nat
  BY DEF IsBody
<1>. HIDE DEF bs
<1>2. \A S \in SUBSET {1, 2} : S # {} => Max(S) \in {1, 2} /\ Min(S) \in {1, 2}
  <2>1. \A S \in SUBSET {1, 2} : S # {} => S \in {{1}, {2}, {1, 2}}
    OBVIOUS
  <2>. QED BY <2>1 DEF Max, Min
<1>3. \A S \in SUBSET DOMAIN bs : S # {} => Largest(S) # {} /\ Largest(S) \in SUBSET {1, 2}
  <2>1. \A S \in SUBSET DOMAIN bs : S # {} => S \in {{1}, {2}, {1, 2}}
    BY <1>1
  <2>2. bs[1].size <= bs[2].size \/ bs[2].size <= bs[1].size
    BY <1>1
  <2>. QED BY <1>1, <2>1, <2>2
<1>4. \A S \in SUBSET DOMAIN bs : S # {} => bs[Max(Largest(S))] \in {b, c} /\ bs[Min(Largest(S))] \in {b, c}
  BY <1>1, <1>2, <1>3
<1>5. pickTemplate(bs, f) \in {b, c, f}
  BY <1>4 DEF pickTemplate
<1>. QED BY <1>5 DEF bs

-----------------------------------------------------------------------------
(* What Fetch was given and what it returns                                *)

Early == {"login", "identity", "create", "write", "anywhere"}

\* Every list names its nodes differently.  Until Fetch ends, what it holds is
\* the dedicated list, or the body of the config field.
FetchInv ==
  /\ NodeList(nodes) /\ NodeList(list)
  /\ at \in Early => held = {} /\ bodies = <<>> /\ list = <<>>
  /\ at = "template" => held \subseteq {"anywhere"} /\ bodies = <<>>
  /\ at = "download" =>
       /\ held \subseteq {"anywhere", "config"}
       /\ bodies = <<>> \/ (IsBody(bodies[1]) /\ bodies = <<bodies[1]>>)
       /\ "config" \in held => bodies # <<>> /\ Parse(bodies[1]) # <<>>
  /\ at \in {"template", "download"} => ("anywhere" \in held => list # <<>>)
  /\ NoListWasted

LEMMA NoList == NodeList(<<>>)
BY DEF NodeList, IsList, UniqueNames

LEMMA InitFetched == Init => FetchInv
BY NoList DEF Init, FetchInit, FetchInv, NoListWasted, Early

\* Nothing of what came changes, and Fetch does not go back.
LEMMA KeptFetched ==
  ASSUME FetchInv, UNCHANGED <<nodes, list, held, bodies, tmpl>>,
         at' = at \/ at' \in {"running", "exit", "fetched"} \/
           (at \in Early /\ at' \in Early \cup {"template", "failed"})
  PROVE  FetchInv'
BY DEF FetchInv, NoListWasted, Early

\* Everything is dropped.
LEMMA DroppedFetched ==
  ASSUME nodes' = <<>>, list' = <<>>, held' = {}, bodies' = <<>>
  PROVE  FetchInv'
BY NoList DEF FetchInv, NoListWasted, Early

LEMMA AnywhereFetched == ASSUME FetchInv, Anywhere PROVE FetchInv'
<1>1. /\ at = "anywhere" /\ at' = "template" /\ UNCHANGED <<bodies, nodes, tmpl>>
      /\ held = {} /\ bodies = <<>> /\ NodeList(nodes)
  BY DEF Anywhere, FetchInv, Early
<1>2. NodeList(list') /\ held' \subseteq {"anywhere"} /\ ("anywhere" \in held' => list' # <<>>)
  <2>1. CASE list' = <<>> /\ UNCHANGED <<reg, held>>
    BY <1>1, <2>1, NoList
  <2>2. CASE ~(list' = <<>> /\ UNCHANGED <<reg, held>>)
    <3>1. PICK answer \in Answers :
            /\ list' = IF getSigned(answer) /\ Verified(answer)
                       THEN nodesFromBody(answer, reg') ELSE <<>>
            /\ held' = IF list' # <<>> THEN {"anywhere"} ELSE {}
      BY <2>2 DEF Anywhere
    <3>2. answer.config \in Lists \cup Pages \cup {NoBody}
      BY DEF Answers
    <3>3. PICK key : key = reg'
      OBVIOUS
    <3>4. IsBody(Opened(answer.config, key))
      BY <3>2, OpenedBody
    <3>5. NodeList(nodesFromBody(answer, key))
      BY <3>4, ParseNamed, NoList DEF nodesFromBody
    <3>. QED BY <3>1, <3>3, <3>5, NoList
  <2>. QED BY <2>1, <2>2
<1>. QED BY <1>1, <1>2 DEF FetchInv, NoListWasted, Early

\* What Choose returns, and that it fails only without any nodes.
LEMMA ChooseEffect ==
  ASSUME NEW ns, NodeList(ns), NodeList(list), Choose(ns)
  PROVE  /\ NodeList(nodes') /\ at' \in {"failed", "fetched"}
         /\ at' = "failed" => list = <<>> /\ ns = <<>>
BY DEF Choose

LEMMA TemplateFailsFetched == ASSUME FetchInv, TemplateFails PROVE FetchInv'
<1>1. /\ at = "template" /\ UNCHANGED <<list, held, bodies, tmpl>> /\ Choose(<<>>)
      /\ held \subseteq {"anywhere"} /\ ("anywhere" \in held => list # <<>>) /\ NodeList(list)
  BY DEF TemplateFails, FetchInv
<1>2. /\ NodeList(nodes') /\ at' \in {"failed", "fetched"}
      /\ at' = "failed" => list = <<>>
  BY <1>1, NoList, ChooseEffect
<1>3. at' = "failed" => held' = {}
  BY <1>1, <1>2
<1>. QED BY <1>1, <1>2, <1>3 DEF FetchInv, NoListWasted, Early

LEMMA TemplateAnswerFetched == ASSUME FetchInv, TemplateAnswer PROVE FetchInv'
<1>1. PICK config \in Lists \cup Pages \cup {NoBody}, smart \in BOOLEAN :
        LET body == Opened(config, reg)
            bs == IF config = NoBody THEN <<>> ELSE <<body>>
        IN /\ bodies' = bs
           /\ held' = IF Parse(body) # <<>> THEN held \cup {"config"} ELSE held
           /\ IF smart THEN at' = "download" /\ UNCHANGED <<tmpl, nodes>>
              ELSE tmpl' = pickTemplate(bs, NoBody) /\ Choose(Parse(body))
  BY ZenonT(30) DEF TemplateAnswer
<1>2. PICK b : b = Opened(config, reg)
  OBVIOUS
<1>3. IsBody(b) /\ NodeList(Parse(b))
  BY <1>2, OpenedBody, ParseNamed
<1>4. config = NoBody => Parse(b) = <<>>
  BY <1>2, NothingParsed DEF Opened, NoBody, Parse, Entries
<1>5. /\ bodies' = IF config = NoBody THEN <<>> ELSE <<b>>
      /\ held' = IF Parse(b) # <<>> THEN held \cup {"config"} ELSE held
      /\ IF smart THEN at' = "download" /\ UNCHANGED <<tmpl, nodes>> ELSE Choose(Parse(b))
      /\ UNCHANGED list
  BY <1>1, <1>2 DEF TemplateAnswer
<1>6. /\ at = "template" /\ held \subseteq {"anywhere"} /\ ("anywhere" \in held => list # <<>>)
      /\ NodeList(list) /\ NodeList(nodes)
  BY DEF TemplateAnswer, FetchInv
<1>7. CASE smart
  <2>1. bodies' # <<>> => bodies'[1] = b /\ bodies' = <<bodies'[1]>>
    BY <1>5
  <2>2. at' = "download" /\ NodeList(nodes') /\ NodeList(list')
    BY <1>5, <1>6, <1>7
  <2>3. /\ held' \subseteq {"anywhere", "config"} /\ ("anywhere" \in held' => list' # <<>>)
        /\ "config" \in held' => bodies' # <<>> /\ Parse(b) # <<>>
    BY <1>4, <1>5, <1>6
  <2>. QED BY <1>3, <2>1, <2>2, <2>3 DEF FetchInv, NoListWasted, Early
<1>8. CASE ~smart
  <2>1. Choose(Parse(b))
    BY <1>5, <1>8
  <2>2. /\ NodeList(nodes') /\ at' \in {"failed", "fetched"}
        /\ at' = "failed" => list = <<>> /\ Parse(b) = <<>>
    BY <1>3, <1>6, <2>1, ChooseEffect
  <2>3. at' = "failed" => held' = {}
    BY <1>5, <1>6, <2>2
  <2>. QED BY <1>5, <1>6, <2>2, <2>3 DEF FetchInv, NoListWasted, Early
<1>. QED BY <1>7, <1>8

LEMMA SecondBody == ASSUME NEW b, NEW c PROVE Append(<<b>>, c) = <<b, c>>
<1>. DEFINE s == Append(<<b>>, c)
<1>1. <<b>> \in Seq({b, c})
  OBVIOUS
<1>2. s \in Seq({b, c}) /\ Len(s) = 2 /\ s[1] = b /\ s[2] = c
  BY <1>1
<1>3. s = [k \in 1..2 |-> s[k]]
  BY <1>2
<1>4. <<b, c>> = [k \in 1..2 |-> s[k]]
  BY <1>2
<1>. QED BY <1>3, <1>4

\* Only the subscription can hide the list of the config field.
LEMMA DownloadFetched == ASSUME FetchInv, Download PROVE FetchInv'
<1>1. /\ at = "download" /\ UNCHANGED list /\ NodeList(list)
      /\ held \subseteq {"anywhere", "config"} /\ ("anywhere" \in held => list # <<>>)
      /\ bodies = <<>> \/ (IsBody(bodies[1]) /\ bodies = <<bodies[1]>>)
      /\ "config" \in held => bodies # <<>> /\ Parse(bodies[1]) # <<>>
  BY DEF Download, FetchInv
<1>2. CASE /\ tmpl' = pickTemplate(bodies, NoBody)
           /\ Choose(Parse(tmpl')) /\ UNCHANGED <<bodies, held>>
  <2>1. PICK t : t = tmpl'
    OBVIOUS
  <2>2. IsBody(t) /\ ("config" \in held => t = bodies[1])
    <3>1. CASE bodies = <<>>
      <4>1. pickTemplate(<<>>, NoBody) = NoBody
        BY DEF pickTemplate
      <4>. QED BY <1>1, <1>2, <2>1, <3>1, <4>1, NothingParsed
    <3>2. CASE bodies # <<>>
      <4>1. PICK b : b = bodies[1]
        OBVIOUS
      <4>2. IsBody(b) /\ bodies = <<b>>
        BY <1>1, <3>2, <4>1
      <4>3. t \in {b, NoBody} /\ (b.size > 0 => t = b)
        BY <1>2, <2>1, <4>2, OneBody, NothingParsed
      <4>4. "config" \in held => b.size > 0
        BY <1>1, <4>1, <4>2, NoNodes
      <4>. QED BY <4>1, <4>2, <4>3, <4>4, NothingParsed
    <3>. QED BY <3>1, <3>2
  <2>3. Choose(Parse(t)) /\ NodeList(Parse(t))
    BY <1>2, <2>1, <2>2, ParseNamed
  <2>4. /\ NodeList(nodes') /\ at' \in {"failed", "fetched"}
        /\ at' = "failed" => list = <<>> /\ Parse(t) = <<>>
    BY <1>1, <2>3, ChooseEffect
  <2>5. at' = "failed" => held' = {}
    BY <1>1, <1>2, <2>2, <2>4
  <2>. QED BY <1>1, <2>4, <2>5 DEF FetchInv, NoListWasted, Early
<1>3. CASE ~(/\ tmpl' = pickTemplate(bodies, NoBody)
             /\ Choose(Parse(tmpl')) /\ UNCHANGED <<bodies, held>>)
  <2>1. PICK body \in Lists \cup Pages :
          /\ bodies' = Append(bodies, body)
          /\ tmpl' = pickTemplate(bodies', body)
          /\ held' = IF Parse(body) # <<>> THEN held \cup {"download"} ELSE held
          /\ Choose(IF Parse(body) # <<>> THEN Parse(body) ELSE Parse(tmpl'))
    BY <1>3, ZenonT(30) DEF Download
  <2>2. IsBody(body) /\ NodeList(Parse(body))
    BY FetchAssumption, ParseNamed DEF FetchAssumption
  <2>3. PICK t : t = tmpl'
    OBVIOUS
  <2>4. CASE bodies = <<>>
    <3>1. bodies' = <<body>>
      BY <2>1, <2>4
    <3>2. t = body
      BY <2>1, <2>2, <2>3, <3>1, OneBody
    <3>3. Choose(Parse(body))
      BY <2>1, <2>3, <3>2
    <3>4. /\ NodeList(nodes') /\ at' \in {"failed", "fetched"}
          /\ at' = "failed" => list = <<>> /\ Parse(body) = <<>>
      BY <1>1, <2>2, <3>3, ChooseEffect
    <3>5. at' = "failed" => held' = {}
      BY <1>1, <2>1, <2>4, <3>4
    <3>. QED BY <1>1, <3>4, <3>5 DEF FetchInv, NoListWasted, Early
  <2>5. CASE bodies # <<>>
    <3>1. PICK b : b = bodies[1]
      OBVIOUS
    <3>2. IsBody(b) /\ bodies = <<b>>
      BY <1>1, <2>5, <3>1
    <3>3. bodies' = <<b, body>> /\ Len(bodies') = 2 /\ bodies'[2] = body
      <4>1. Append(<<b>>, body) = <<b, body>>
        BY SecondBody
      <4>2. bodies' = <<b, body>>
        BY <2>1, <3>2, <4>1
      <4>. QED BY <4>2
    <3>4. t \in {b, body}
      <4>1. pickTemplate(<<b, body>>, body) \in {b, body}
        BY <2>2, <3>2, TwoBodies
      <4>. QED BY <2>1, <2>3, <3>3, <4>1
    <3>5. PICK ns : ns = IF Parse(body) # <<>> THEN Parse(body) ELSE Parse(t)
      OBVIOUS
    <3>6. NodeList(ns) /\ Choose(ns)
      BY <2>1, <2>2, <2>3, <3>2, <3>4, <3>5, ParseNamed
    <3>7. /\ NodeList(nodes') /\ at' \in {"failed", "fetched"}
          /\ at' = "failed" => list = <<>> /\ Parse(body) = <<>> /\ Parse(t) = <<>>
      BY <1>1, <3>5, <3>6, ChooseEffect
    <3>8. at' = "failed" => held' \subseteq {"config"} /\ (held' # {} => t = body)
      BY <1>1, <2>1, <3>1, <3>4, <3>7
    <3>. QED BY <1>1, <2>3, <3>3, <3>7, <3>8 DEF FetchInv, NoListWasted, Early
  <2>. QED BY <2>4, <2>5
<1>. QED BY <1>2, <1>3

LEMMA NextFetched == FetchInv /\ [Next]_vars => FetchInv'
<1>. SUFFICES ASSUME FetchInv, [Next]_vars PROVE FetchInv' OBVIOUS
<1>1. CASE Login \/ ReadIdentity \/ CreateIdentity \/ WriteIdentity
  <2>1. /\ UNCHANGED <<nodes, list, held, bodies, tmpl>>
        /\ at \in Early /\ at' \in Early \cup {"template", "failed"}
    BY <1>1 DEF Login, ReadIdentity, CreateIdentity, WriteIdentity, answerVars, Early
  <2>. QED BY <2>1, KeptFetched
<1>2. CASE FetchStep
  BY <1>1, <1>2, AnywhereFetched, TemplateFailsFetched, TemplateAnswerFetched, DownloadFetched
    DEF FetchStep
<1>3. CASE LoadProfile
  <2>1. PICK body \in Lists : nodes' = Parse(body)
    BY <1>3 DEF LoadProfile
  <2>2. NodeList(nodes')
    BY <2>1, FetchAssumption, ParseNamed DEF FetchAssumption
  <2>3. at' \in {"exit", "fetched"} /\ UNCHANGED list /\ NodeList(list)
    BY <1>3 DEF LoadProfile, FetchInv
  <2>. QED BY <2>2, <2>3 DEF FetchInv, NoListWasted, Early
<1>4. CASE Select \/ Killed
  BY <1>4, DroppedFetched DEF Select, Killed, Restart
<1>5. CASE Serves \/ Ended \/ UNCHANGED vars
  <2>1. UNCHANGED <<nodes, list, held, bodies, tmpl, at>>
    BY <1>5 DEF Serves, Ended, vars, fetchVars, answerVars
  <2>. QED BY <2>1, KeptFetched
<1>. QED BY <1>2, <1>3, <1>4, <1>5 DEF Next, Fetches

\* Fetch fails only when no answer it was given held a usable list, but for that of
\* a config field the subscription's template hides (Fetch, pickTemplate).
THEOREM ListsUsed == Spec => []NoListWasted
<1>1. FetchInv => NoListWasted
  BY DEF FetchInv
<1>. QED BY <1>1, InitFetched, NextFetched, PTL DEF Spec

-----------------------------------------------------------------------------
(* The identity                                                            *)

\* What was told to the panel, or is about to be, is in the file; and no key is
\* made while the panel knows one.
KeyInv ==
  /\ file = File(file.st, file.key)
  /\ (ident # NoKey /\ ~unread) => file = File("key", ident)
  /\ (reg # NoKey /\ ~unread) => file = File("key", reg)
  /\ at \in {"login", "identity", "create", "write"} => ident = NoKey
  /\ (at \in {"create", "write"} /\ ~unread) => reg = NoKey

\* What the invariant speaks of, but for the place.
keyVars == <<fileVars, ident, reg>>

LEMMA InitKey == Init => KeyInv
BY DEF Init, FetchInit, KeyInv, File

LEMMA ReadStep == ASSUME KeyInv, ReadIdentity PROVE KeyInv'
<1>1. UNCHANGED <<file, reg>>
  BY DEF ReadIdentity
<1>2. CASE file.st = "key" /\ ident' = file.key /\ at' = "anywhere" /\ UNCHANGED unread
  BY <1>1, <1>2 DEF KeyInv, File
<1>3. CASE file.st = "torn" /\ at' = "template" /\ UNCHANGED <<ident, unread>>
  BY <1>1, <1>3 DEF KeyInv, File
<1>4. CASE file.st \in {"absent", "empty", "comment"} /\ at' = "create" /\ UNCHANGED <<ident, unread>>
  BY <1>1, <1>4 DEF KeyInv, File, ReadIdentity
<1>5. CASE /\ file.st \in {"torn", "key"} /\ at' = "create"
           /\ unread' = (unread \/ file.st = "key") /\ UNCHANGED ident
  <2>1. ~unread' => ~unread /\ file.st # "key"
    BY <1>5, Zenon
  <2>2. file = File(file.st, file.key) /\ ident = NoKey
    BY DEF KeyInv, ReadIdentity
  <2>3. ~unread' => reg = NoKey
    BY <2>1 DEF KeyInv, File
  <2>4. at' = "create" /\ ident' = ident
    BY <1>5
  <2>. QED BY <1>1, <2>2, <2>3, <2>4 DEF KeyInv, File
<1>. QED BY <1>2, <1>3, <1>4, <1>5 DEF ReadIdentity

\* The file is emptied, and written: until then nobody has used a key.
LEMMA CreateStep == ASSUME KeyInv, CreateIdentity \/ WriteIdentity PROVE KeyInv'
<1>1. CASE CreateIdentity
  BY <1>1 DEF CreateIdentity, KeyInv, File
<1>2. CASE WriteIdentity
  BY <1>2 DEF WriteIdentity, KeyInv, File
<1>. QED BY <1>1, <1>2

\* The panel is told the identity; the answer may leave it as it was.
LEMMA TellStep == ASSUME KeyInv, Anywhere PROVE KeyInv'
<1>1. /\ UNCHANGED <<fileVars, ident>> /\ at' = "template"
      /\ reg' \in {reg, ident}
  BY ZenonT(30) DEF Anywhere
<1>. QED BY <1>1 DEF KeyInv, File, fileVars

\* Everything else leaves keys alone, and does not go back before the identity.
LEMMA OtherStep ==
  ASSUME KeyInv, UNCHANGED keyVars,
         at' = at \/ at' \notin {"login", "identity", "create", "write"} \/
           (at = "login" /\ at' = "identity")
  PROVE  KeyInv'
BY DEF KeyInv, keyVars, fileVars, File

LEMMA TemplateStep == ASSUME KeyInv, TemplateFails \/ TemplateAnswer \/ Download PROVE KeyInv'
<1>1. CASE TemplateFails
  <2>1. UNCHANGED keyVars /\ at' \in {"failed", "fetched"}
    BY <1>1 DEF TemplateFails, Choose, keyVars
  <2>. QED BY <2>1, OtherStep
<1>2. CASE TemplateAnswer
  <2>1. UNCHANGED keyVars /\ at' \in {"failed", "fetched", "download"}
    BY <1>2, ZenonT(30) DEF TemplateAnswer, Choose, keyVars
  <2>. QED BY <2>1, OtherStep
<1>3. CASE Download
  <2>1. UNCHANGED keyVars /\ at' \in {"failed", "fetched"}
    BY <1>3, ZenonT(30) DEF Download, Choose, keyVars
  <2>. QED BY <2>1, OtherStep
<1>. QED BY <1>1, <1>2, <1>3

LEMMA FetchKey == ASSUME KeyInv, FetchStep PROVE KeyInv'
<1>1. CASE Login
  <2>1. UNCHANGED keyVars /\ at = "login" /\ at' \in {"identity", "failed"}
    BY <1>1 DEF Login, keyVars
  <2>. QED BY <2>1, OtherStep
<1>. QED BY <1>1, ReadStep, CreateStep, TellStep, TemplateStep DEF FetchStep

LEMMA NextKey == KeyInv /\ [Next]_vars => KeyInv'
<1>. SUFFICES ASSUME KeyInv, [Next]_vars PROVE KeyInv' OBVIOUS
<1>1. CASE Fetches
  BY <1>1, FetchKey DEF Fetches
<1>2. CASE LoadProfile
  <2>1. UNCHANGED keyVars /\ at' \in {"exit", "fetched"}
    BY <1>2 DEF LoadProfile, keyVars
  <2>. QED BY <2>1, OtherStep
<1>3. CASE Select
  <2>1. UNCHANGED keyVars /\ at' \in {"exit", "running"}
    BY <1>3, ZenonT(30) DEF Select, keyVars
  <2>. QED BY <2>1, OtherStep
<1>4. CASE Killed
  BY <1>4 DEF Killed, Restart, KeyInv, File, fileVars
<1>5. CASE Serves \/ Ended \/ UNCHANGED vars
  <2>1. UNCHANGED <<keyVars, at>>
    BY <1>5 DEF Serves, Ended, vars, fetchVars, keyVars
  <2>. QED BY <2>1, OtherStep
<1>. QED BY <1>1, <1>2, <1>3, <1>4, <1>5 DEF Next

\* The identity the panel knows is the one in the file, whatever crashed or
\* failed while it was written (LoadOrCreateAge), unless the file was unreadable.
THEOREM IdentitySafe == Spec => []IdentityKept
<1>1. KeyInv => IdentityKept
  BY DEF KeyInv, IdentityKept, File
<1>. QED BY <1>1, InitKey, NextKey, PTL DEF Spec

-----------------------------------------------------------------------------
(* The sockets and the pools                                               *)

Points == {"off", "start", "up", "close", "listeners", "http", "pools", "maps", "down"}
SockStates == {"none", "open", "closed"}
PoolSet == [node : {node[l] : l \in L}, open : BOOLEAN]

Shapes ==
  /\ pc \in Points /\ i \in Nat
  /\ tcp \in [L -> SockStates] /\ hub \in [L -> SockStates]
  /\ maps \in Seq(L) /\ pools \in Seq(PoolSet)
  /\ pc = "off" => i = 1 /\ maps = <<>> /\ pools = <<>> /\ http = "none"

Open(l) == tcp[l] = "open" \/ hub[l] = "open"

\* An open listener is one of the maps, and Close has not passed it yet.
Listed ==
  \A l \in L : Open(l) =>
    /\ pc \in {"off", "start", "up", "close", "listeners"}
    /\ \E m \in DOMAIN maps : maps[m] = l /\ (pc = "listeners" => i <= m)

\* An open pool is one Close has taken out, until it closes them.
Taken ==
  \A p \in DOMAIN pools : pools[p].open =>
    /\ pc \notin {"maps", "down"}
    /\ pc \in {"listeners", "http", "pools"} => p \in doomed

\* The config server is the last to open, and closes after the listeners.
Config == http = "open" => pc \in {"up", "close", "listeners", "http"}

LifeInv == Shapes /\ Listed /\ Taken /\ Config

LEMMA OffHolds == Off => LifeInv
BY DEF Off, LifeInv, Shapes, Listed, Taken, Config, Open, Points, SockStates, PoolSet, L

LEMMA SwitchOffStep == SwitchOff => LifeInv'
BY DEF SwitchOff, LifeInv, Shapes, Listed, Taken, Config, Open, Points, SockStates, PoolSet, L

LEMMA BootStep == ASSUME LifeInv, NEW ns, NEW quiet, Boot(ns, quiet) PROVE LifeInv'
<1>1. /\ pc' = "start" /\ i' \in Nat /\ maps' = <<>> /\ pools' = <<>> /\ http' = "none"
      /\ L' = DOMAIN ns
      /\ tcp' = [l \in L' |-> "none"] /\ hub' = [l \in L' |-> "none"]
  BY DEF Boot, LifeInv, Shapes, L
<1>. QED BY <1>1 DEF LifeInv, Shapes, Listed, Taken, Config, Open, Points, SockStates

\* What is kept when the nodes, the maps, the pools and the position are.
LEMMA QuietStep ==
  ASSUME LifeInv, UNCHANGED <<node, i, maps, pools, doomed>>,
         pc' \in Points, pc' # "off", pc # "off",
         pc' = pc \/ (pc' \in {"up", "close"} /\ pc \in {"start", "up"}),
         tcp' \in [L -> SockStates], hub' \in [L -> SockStates],
         \A l \in L : (tcp'[l] = "open" => tcp[l] = "open") /\ (hub'[l] = "open" => hub[l] = "open"),
         http' = "open" => http = "open" \/ pc' = "up"
  PROVE  LifeInv'
<1>1. L' = L /\ PoolSet' = PoolSet
  BY DEF L, PoolSet
<1>2. Shapes'
  BY <1>1 DEF LifeInv, Shapes
<1>3. Listed'
  BY <1>1 DEF LifeInv, Shapes, Listed, Open
<1>4. Taken'
  BY DEF LifeInv, Taken
<1>5. Config'
  BY DEF LifeInv, Config, Shapes, Points
<1>. QED BY <1>2, <1>3, <1>4, <1>5 DEF LifeInv

\* A pool that is made is made for the node of the listener.
LEMMA PoolStep ==
  ASSUME LifeInv, i \in L, UNCHANGED node, DialerFor PROVE pools' \in Seq(PoolSet)
<1>1. CASE NewPool
  <2>1. [node |-> node[i], open |-> TRUE] \in PoolSet
    BY DEF PoolSet
  <2>. QED BY <1>1, <2>1 DEF NewPool, LifeInv, Shapes
<1>2. CASE UNCHANGED pools
  BY <1>2 DEF LifeInv, Shapes
<1>. QED BY <1>1, <1>2 DEF DialerFor, poolVars

LEMMA StartListenerStep == ASSUME LifeInv, StartListener PROVE LifeInv'
<1>1. /\ pc = "start" /\ i \in L /\ UNCHANGED <<node, doomed, http>> /\ DialerFor
  BY DEF StartListener, cfg
<1>2. L' = L /\ PoolSet' = PoolSet
  BY <1>1 DEF L, PoolSet
<1>3. pools' \in Seq(PoolSet)
  BY <1>1, PoolStep
<1>4. CASE ListenOK /\ maps' = Append(maps, i) /\ i' = i + 1 /\ UNCHANGED pc
  <2>1. /\ tcp' \in [L -> SockStates] /\ hub' \in [L -> SockStates]
        /\ \A l \in L : l # i => tcp'[l] = tcp[l] /\ hub'[l] = hub[l]
    BY <1>1, <1>4 DEF ListenOK, LifeInv, Shapes, SockStates
  <2>2. /\ maps' \in Seq(L) /\ DOMAIN maps' = 1..(Len(maps) + 1) /\ maps'[Len(maps) + 1] = i
        /\ \A m \in DOMAIN maps : m \in DOMAIN maps' /\ maps'[m] = maps[m]
    BY <1>1, <1>4 DEF LifeInv, Shapes
  <2>3. Len(maps) + 1 \in DOMAIN maps'
    BY <2>2 DEF LifeInv, Shapes
  <2>4. Listed'
    BY <1>1, <1>2, <1>4, <2>1, <2>2, <2>3 DEF LifeInv, Listed, Open
  <2>. QED BY <1>1, <1>2, <1>3, <1>4, <2>1, <2>2, <2>4 DEF LifeInv, Shapes, Taken, Config
<1>5. CASE ListenFails /\ pc' = "close" /\ UNCHANGED <<maps, i>>
  <2>1. /\ tcp' \in [L -> SockStates] /\ hub' \in [L -> SockStates]
        /\ \A l \in L : (tcp'[l] = "open" => tcp[l] = "open") /\ (hub'[l] = "open" => hub[l] = "open")
    BY <1>1, <1>5 DEF ListenFails, sockVars, LifeInv, Shapes, SockStates
  <2>2. Listed'
    BY <1>1, <1>2, <1>5, <2>1 DEF LifeInv, Listed, Open
  <2>. QED BY <1>1, <1>2, <1>3, <1>5, <2>1, <2>2 DEF LifeInv, Shapes, Taken, Config, Points
<1>. QED BY <1>1, <1>4, <1>5 DEF StartListener

\* A listener or a hub that dies on its own.
LEMMA DiesStep ==
  ASSUME LifeInv, NEW l \in L, ListenerDies(l) \/ HubDies(l) PROVE LifeInv'
<1>1. /\ UNCHANGED <<node, pc, i, maps, pools, doomed, http>>
      /\ tcp' \in [L -> SockStates] /\ hub' \in [L -> SockStates]
      /\ \A k \in L : (tcp'[k] = "open" => tcp[k] = "open") /\ (hub'[k] = "open" => hub[k] = "open")
  BY DEF ListenerDies, HubDies, cfg, poolVars, LifeInv, Shapes, SockStates
<1>2. L' = L /\ PoolSet' = PoolSet
  BY <1>1 DEF L, PoolSet
<1>. QED BY <1>1, <1>2 DEF LifeInv, Shapes, Listed, Taken, Config, Open

LEMMA CloseBeginStep == ASSUME LifeInv, CloseBegin PROVE LifeInv'
<1>1. /\ pc = "close" /\ pc' = "listeners" /\ i' = 1 /\ doomed' = DOMAIN pools
      /\ UNCHANGED <<node, tcp, hub, pools, maps, http>>
  BY DEF CloseBegin, cfg, sockVars
<1>2. L' = L /\ PoolSet' = PoolSet
  BY <1>1 DEF L, PoolSet
<1>3. \A m \in DOMAIN maps : 1 <= m
  BY DEF LifeInv, Shapes
<1>. QED BY <1>1, <1>2, <1>3 DEF LifeInv, Shapes, Listed, Taken, Config, Open, Points

\* The listener at i is closed; those after it are still to come.
LEMMA CloseListenerStep == ASSUME LifeInv, CloseListener PROVE LifeInv'
<1>1. /\ pc = "listeners" /\ UNCHANGED <<node, pools, maps, doomed, http>>
  BY DEF CloseListener, cfg, poolVars
<1>2. L' = L /\ PoolSet' = PoolSet
  BY <1>1 DEF L, PoolSet
<1>3. maps \in Seq(L) /\ i \in Nat /\ Len(maps) \in Nat /\ DOMAIN maps = 1..Len(maps)
  BY DEF LifeInv, Shapes
<1>4. CASE i <= Len(maps)
  <2>1. /\ tcp' = [tcp EXCEPT ![maps[i]] = "closed"]
        /\ hub' = [hub EXCEPT ![maps[i]] = IF @ = "open" THEN "closed" ELSE @]
        /\ i' = i + 1 /\ pc' = pc
    BY <1>4 DEF CloseListener
  <2>2. /\ tcp' \in [L -> SockStates] /\ hub' \in [L -> SockStates]
        /\ \A l \in L : l # maps[i] => tcp'[l] = tcp[l] /\ hub'[l] = hub[l]
    BY <2>1 DEF LifeInv, Shapes, SockStates
  <2>3. \A l \in L : Open(l)' => Open(l) /\ l # maps[i]
    BY <2>1, <2>2 DEF LifeInv, Shapes, SockStates, Open
  <2>4. ASSUME NEW l \in L, Open(l)'
        PROVE  \E m \in DOMAIN maps : maps[m] = l /\ i' <= m
    <3>1. PICK m \in DOMAIN maps : maps[m] = l /\ i <= m
      BY <1>1, <2>3, <2>4 DEF LifeInv, Listed
    <3>2. m # i
      BY <2>3, <2>4, <3>1
    <3>. QED BY <1>3, <2>1, <3>1, <3>2
  <2>5. Listed'
    BY <1>1, <1>2, <2>1, <2>4 DEF Listed
  <2>. QED BY <1>1, <1>2, <1>3, <2>1, <2>2, <2>5 DEF LifeInv, Shapes, Taken, Config
<1>5. CASE ~(i <= Len(maps))
  <2>1. pc' = "http" /\ UNCHANGED <<tcp, hub, i>>
    BY <1>5 DEF CloseListener, sockVars
  <2>2. \A l \in L : ~Open(l)
    BY <1>1, <1>3, <1>5 DEF LifeInv, Listed
  <2>3. Listed'
    BY <1>2, <2>1, <2>2 DEF Listed, Open
  <2>. QED BY <1>1, <1>2, <2>1, <2>3 DEF LifeInv, Shapes, Taken, Config, Points
<1>. QED BY <1>4, <1>5

\* After the listeners: the config server, the pools taken out, the maps.
LEMMA CloseRestStep == ASSUME LifeInv, CloseHTTP \/ ClosePools \/ CloseMaps PROVE LifeInv'
<1>1. UNCHANGED <<node, i, tcp, hub>> /\ pc \in {"http", "pools", "maps"}
  BY DEF CloseHTTP, ClosePools, CloseMaps, cfg, sockVars
<1>2. L' = L /\ PoolSet' = PoolSet
  BY <1>1 DEF L, PoolSet
<1>3. Listed'
  BY <1>1, <1>2 DEF LifeInv, Listed, Open
<1>4. CASE CloseHTTP
  BY <1>1, <1>2, <1>3, <1>4 DEF CloseHTTP, poolVars, LifeInv, Shapes, Taken, Config, Points
<1>5. CASE ClosePools
  <2>1. /\ pools' = [p \in DOMAIN pools |-> [pools[p] EXCEPT !.open = @ /\ p \notin doomed]]
        /\ pc = "pools" /\ pc' = "maps" /\ UNCHANGED <<maps, http>>
    BY <1>5 DEF ClosePools
  <2>2. \A p \in DOMAIN pools : pools[p] \in PoolSet /\ (pools[p].open => p \in doomed)
    BY <2>1 DEF LifeInv, Shapes, Taken
  <2>3. \A p \in DOMAIN pools : pools'[p] = [node |-> pools[p].node, open |-> FALSE]
    BY <2>1, <2>2 DEF PoolSet
  <2>4. ASSUME NEW p \in DOMAIN pools PROVE pools'[p] \in PoolSet
    <3>1. PICK l \in L : pools[p].node = node[l]
      BY <2>2 DEF PoolSet
    <3>2. [node |-> node[l], open |-> FALSE] \in PoolSet
      BY DEF PoolSet
    <3>. QED BY <2>3, <3>1, <3>2
  <2>5. pools' \in Seq(PoolSet) /\ DOMAIN pools' = DOMAIN pools
    BY <2>1, <2>4 DEF LifeInv, Shapes
  <2>. QED BY <1>1, <1>2, <1>3, <2>1, <2>3, <2>5 DEF LifeInv, Shapes, Taken, Config, Points
<1>6. CASE CloseMaps
  BY <1>1, <1>2, <1>3, <1>6 DEF CloseMaps, poolVars, LifeInv, Shapes, Taken, Config, Points
<1>. QED BY <1>4, <1>5, <1>6

LEMMA LifeStepHolds == ASSUME LifeInv, LifeStep PROVE LifeInv'
<1>1. CASE StartHTTP \/ Signal
  <2>1. /\ UNCHANGED <<node, i, tcp, hub, maps, pools, doomed>> /\ pc \in {"start", "up"}
        /\ pc' \in {"up", "close"} /\ (http' = "open" => http = "open" \/ pc' = "up")
    BY <1>1 DEF StartHTTP, Signal, cfg, sockVars, poolVars
  <2>2. tcp \in [L -> SockStates] /\ hub \in [L -> SockStates]
    BY DEF LifeInv, Shapes
  <2>. QED BY <2>1, <2>2, QuietStep DEF Points
<1>. QED
  BY <1>1, StartListenerStep, DiesStep, CloseBeginStep, CloseListenerStep, CloseRestStep DEF LifeStep

LEMMA NextLife == LifeInv /\ [Next]_vars => LifeInv'
<1>. SUFFICES ASSUME LifeInv, [Next]_vars PROVE LifeInv' OBVIOUS
<1>1. CASE UNCHANGED lifeVars
  <2>1. UNCHANGED <<node, pc, i, tcp, hub, pools, maps, doomed, http>>
    BY <1>1 DEF lifeVars, cfg, sockVars, poolVars
  <2>2. L' = L /\ PoolSet' = PoolSet
    BY <2>1 DEF L, PoolSet
  <2>. QED BY <2>1, <2>2 DEF LifeInv, Shapes, Listed, Taken, Config, Open
<1>2. CASE Select
  <2>1. UNCHANGED lifeVars \/ \E ns, quiet : Boot(ns, quiet)
    BY <1>2, ZenonT(30) DEF Select
  <2>. QED BY <1>1, <2>1, BootStep
<1>3. CASE Serves
  BY <1>3, LifeStepHolds DEF Serves
<1>4. CASE Killed
  BY <1>4, SwitchOffStep DEF Killed
<1>5. CASE Fetches \/ LoadProfile \/ Ended \/ UNCHANGED vars
  BY <1>1, <1>5 DEF Fetches, LoadProfile, Ended, vars
<1>. QED BY <1>2, <1>3, <1>4, <1>5 DEF Next

\* Whatever failed and whatever died: after Close, or a failed Start, no socket,
\* no pool and no config server is open (Start, Close).
THEOREM LifeSafe == Spec => []NothingLeft
<1>1. Init => LifeInv
  BY OffHolds DEF Init
<1>2. LifeInv => NothingLeft
  BY DEF LifeInv, Listed, Taken, Config, NothingLeft, Open
<1>. QED BY <1>1, <1>2, NextLife, PTL DEF Spec

-----------------------------------------------------------------------------
(* The pools of the listeners                                              *)

\* The nodes of the listeners are told apart by their names.
Named == \A l, m \in L : node[l].name = node[m].name => node[l] = node[m]

\* Between Start and Close the table leads from each name to the one pool of the node.
Keyed ==
  /\ pc \notin {"start", "up", "close"} => byName = <<>>
  /\ \A k \in DOMAIN byName : /\ byName[k] \in DOMAIN pools
                              /\ pools[byName[k]].open /\ pools[byName[k]].node.name = k
  /\ pc = "start" => \A p \in DOMAIN pools : pools[p].node.name \in DOMAIN byName
  /\ \A p, r \in DOMAIN pools : pools[p].node = pools[r].node => p = r

\* An open listener of such a node dials through the pool made for the node.
Dials(l) == dial[l] \in DOMAIN pools /\ pools[dial[l]].node = node[l] /\ pools[dial[l]].open
Dialing ==
  /\ dial \in [L -> Nat \cup {NoPool}]
  /\ \A l \in L : tcp[l] = "open" /\ node[l].reuse => Dials(l)

SharedInv == Named /\ Keyed /\ Dialing

LEMMA OffShared == Off => SharedInv
BY DEF Off, SharedInv, Named, Keyed, Dialing, L

LEMMA SwitchOffShared == SwitchOff => SharedInv'
BY DEF SwitchOff, SharedInv, Named, Keyed, Dialing, Dials, L

LEMMA BootShared ==
  ASSUME LifeInv, SharedInv, NEW ns, NEW quiet, Boot(ns, quiet),
         \A l, m \in DOMAIN ns : ns[l].name = ns[m].name => ns[l] = ns[m]
  PROVE  SharedInv'
<1>1. /\ node' = ns /\ L' = DOMAIN ns /\ pools' = <<>> /\ byName' = <<>>
      /\ tcp' = [l \in L' |-> "none"] /\ dial' = [l \in L' |-> NoPool]
  BY DEF Boot, LifeInv, Shapes, SharedInv, Keyed, L
<1>. QED BY <1>1 DEF SharedInv, Named, Keyed, Dialing, L

\* The pool of the listener's node, found by the node's name or made.
LEMMA DialerShared ==
  ASSUME LifeInv, SharedInv, pc = "start", i \in L, UNCHANGED node, DialerFor
  PROVE  /\ dial' \in [L -> Nat \cup {NoPool}]
         /\ \A l \in L : l # i => dial'[l] = dial[l]
         /\ \A l \in L : l = i /\ node[l].reuse => Dials(l)'
         /\ \A p \in DOMAIN pools : p \in DOMAIN pools' /\ pools'[p] = pools[p]
         /\ \A k \in DOMAIN byName' : /\ byName'[k] \in DOMAIN pools'
                                      /\ pools'[byName'[k]].open /\ pools'[byName'[k]].node.name = k
         /\ \A p \in DOMAIN pools' : pools'[p].node.name \in DOMAIN byName'
         /\ \A p, r \in DOMAIN pools' : pools'[p].node = pools'[r].node => p = r
<1>1. /\ pools \in Seq(PoolSet) /\ DOMAIN pools = 1..Len(pools) /\ Len(pools) \in Nat
      /\ dial \in [L -> Nat \cup {NoPool}]
      /\ \A k \in DOMAIN byName : /\ byName[k] \in DOMAIN pools
                                  /\ pools[byName[k]].open /\ pools[byName[k]].node.name = k
      /\ \A p \in DOMAIN pools : pools[p].node.name \in DOMAIN byName
      /\ \A p, r \in DOMAIN pools : pools[p].node = pools[r].node => p = r
  BY DEF LifeInv, Shapes, SharedInv, Keyed, Dialing
<1>2. CASE ~node[i].reuse /\ UNCHANGED poolVars
  BY <1>1, <1>2 DEF poolVars
<1>3. CASE /\ node[i].reuse /\ poolKey(node[i]) \in DOMAIN byName
           /\ dial' = [dial EXCEPT ![i] = byName[poolKey(node[i])]]
           /\ UNCHANGED <<pools, byName>>
  <2>1. PICK p : p = byName[node[i].name]
    OBVIOUS
  <2>2. p \in DOMAIN pools /\ pools[p].open /\ pools[p].node.name = node[i].name
    BY <1>1, <1>3, <2>1 DEF poolKey
  <2>3. pools[p].node = node[i]
    <3>1. pools[p] \in PoolSet
      BY <1>1, <2>2
    <3>2. PICK l \in L : pools[p].node = node[l]
      BY <3>1 DEF PoolSet
    <3>. QED BY <2>2, <3>2 DEF SharedInv, Named
  <2>4. dial' \in [L -> Nat \cup {NoPool}] /\ dial'[i] = p /\ \A l \in L : l # i => dial'[l] = dial[l]
    BY <1>1, <1>3, <2>1, <2>2 DEF poolKey
  <2>5. \A l \in L : l = i => Dials(l)'
    BY <1>3, <2>2, <2>3, <2>4 DEF Dials
  <2>. QED BY <1>1, <1>3, <2>4, <2>5
<1>4. CASE node[i].reuse /\ poolKey(node[i]) \notin DOMAIN byName /\ NewPool
  <2>1. PICK p : p = Len(pools) + 1
    OBVIOUS
  <2>2. PICK new : new = [node |-> node[i], open |-> TRUE]
    OBVIOUS
  <2>3. new \in PoolSet /\ new.node = node[i] /\ new.open
    BY <2>2 DEF PoolSet
  <2>4. /\ pools' = Append(pools, new) /\ dial' = [dial EXCEPT ![i] = p]
        /\ byName' = [k \in DOMAIN byName \cup {node[i].name} |->
                        IF k = node[i].name THEN p ELSE byName[k]]
    BY <1>4, <2>1, <2>2 DEF NewPool, poolKey
  <2>5. /\ DOMAIN pools' = DOMAIN pools \cup {p} /\ p \notin DOMAIN pools /\ p \in Nat
        /\ pools'[p] = new /\ \A r \in DOMAIN pools : pools'[r] = pools[r]
    BY <1>1, <2>1, <2>3, <2>4
  <2>6. /\ DOMAIN byName' = DOMAIN byName \cup {node[i].name}
        /\ byName'[node[i].name] = p
        /\ \A k \in DOMAIN byName : k # node[i].name /\ byName'[k] = byName[k]
    BY <1>4, <2>4 DEF poolKey
  <2>7. dial' \in [L -> Nat \cup {NoPool}] /\ dial'[i] = p /\ \A l \in L : l # i => dial'[l] = dial[l]
    BY <1>1, <2>4, <2>5
  <2>8. \A r \in DOMAIN pools : pools[r].node # node[i]
    BY <1>1, <1>4 DEF poolKey
  <2>9. \A q, r \in DOMAIN pools' : pools'[q].node = pools'[r].node => q = r
    BY <1>1, <2>3, <2>5, <2>8
  <2>10. \A k \in DOMAIN byName' : /\ byName'[k] \in DOMAIN pools'
                                   /\ pools'[byName'[k]].open /\ pools'[byName'[k]].node.name = k
    BY <1>1, <2>3, <2>5, <2>6
  <2>11. \A r \in DOMAIN pools' : pools'[r].node.name \in DOMAIN byName'
    BY <1>1, <2>3, <2>5, <2>6
  <2>12. \A l \in L : l = i => Dials(l)'
    BY <2>3, <2>5, <2>7 DEF Dials
  <2>. QED BY <2>5, <2>7, <2>9, <2>10, <2>11, <2>12
<1>. QED BY <1>2, <1>3, <1>4 DEF DialerFor

LEMMA StartListenerShared == ASSUME LifeInv, SharedInv, StartListener PROVE SharedInv'
<1>1. /\ pc = "start" /\ i \in L /\ UNCHANGED node /\ L' = L /\ DialerFor /\ pc' \in {"start", "close"}
  BY DEF StartListener, cfg, L
<1>2. \A l \in L : l # i => tcp'[l] = tcp[l]
  BY <1>1 DEF StartListener, ListenOK, ListenFails, sockVars, LifeInv, Shapes
<1>3. Named'
  BY <1>1 DEF SharedInv, Named
<1>4. Keyed'
  BY <1>1, DialerShared DEF Keyed
<1>5. \A l \in L : l # i /\ Dials(l) => Dials(l)'
  BY <1>1, DialerShared DEF Dials
<1>6. dial' \in [L -> Nat \cup {NoPool}] /\ \A l \in L : l = i /\ node[l].reuse => Dials(l)'
  BY <1>1, DialerShared
<1>7. \A l \in L : tcp[l] = "open" /\ node[l].reuse => Dials(l)
  BY DEF SharedInv, Dialing
<1>8. Dialing'
  BY <1>1, <1>2, <1>5, <1>6, <1>7 DEF Dialing
<1>. QED BY <1>3, <1>4, <1>8 DEF SharedInv

\* Steps that open no listener and leave the pools alone.
LEMMA QuietShared ==
  ASSUME SharedInv, UNCHANGED <<node, dial, pools>>,
         \/ byName' = byName /\ pc' = pc
         \/ byName' = byName /\ pc \in {"start", "up"} /\ pc' \in {"up", "close"}
         \/ byName' = <<>> /\ pc' \notin {"start", "up", "close"},
         \A l \in L : tcp'[l] = "open" => tcp[l] = "open"
  PROVE  SharedInv'
BY DEF SharedInv, Named, Keyed, Dialing, Dials, L

\* When the pools are closed no listener is open.
LEMMA ClosePoolsShared == ASSUME LifeInv, SharedInv, ClosePools PROVE SharedInv'
<1>1. /\ pc = "pools" /\ pc' = "maps" /\ UNCHANGED <<node, tcp, dial, byName>> /\ L' = L
      /\ DOMAIN pools' = DOMAIN pools
      /\ pools' = [p \in DOMAIN pools |-> [pools[p] EXCEPT !.open = @ /\ p \notin doomed]]
  BY DEF ClosePools, cfg, sockVars, L
<1>2. \A l \in L : tcp[l] # "open"
  BY <1>1 DEF LifeInv, Listed, Open
<1>3. \A p \in DOMAIN pools : pools'[p].node = pools[p].node
  <2>1. \A p \in DOMAIN pools : pools[p] \in PoolSet
    BY DEF LifeInv, Shapes
  <2>. QED BY <1>1, <2>1 DEF PoolSet
<1>4. byName' = <<>> /\ \A p, r \in DOMAIN pools : pools[p].node = pools[r].node => p = r
  BY <1>1 DEF SharedInv, Keyed
<1>5. Keyed'
  BY <1>1, <1>3, <1>4 DEF Keyed
<1>6. Dialing'
  BY <1>1, <1>2 DEF SharedInv, Dialing
<1>7. Named'
  BY <1>1 DEF SharedInv, Named
<1>. QED BY <1>5, <1>6, <1>7 DEF SharedInv

LEMMA LifeShared == ASSUME LifeInv, SharedInv, LifeStep PROVE SharedInv'
<1>1. CASE StartHTTP \/ Signal
  <2>1. /\ UNCHANGED <<node, dial, pools, byName, tcp>>
        /\ pc \in {"start", "up"} /\ pc' \in {"up", "close"}
    BY <1>1 DEF StartHTTP, Signal, cfg, sockVars, poolVars
  <2>. QED BY <2>1, QuietShared
<1>2. CASE \E l \in L : ListenerDies(l) \/ HubDies(l)
  <2>1. /\ UNCHANGED <<node, dial, pools, byName, pc>>
        /\ \A l \in L : tcp'[l] = "open" => tcp[l] = "open"
    BY <1>2 DEF ListenerDies, HubDies, cfg, poolVars, LifeInv, Shapes
  <2>. QED BY <2>1, QuietShared
<1>3. CASE CloseBegin
  <2>1. /\ UNCHANGED <<node, dial, pools, tcp>> /\ byName' = <<>> /\ pc' = "listeners"
    BY <1>3 DEF CloseBegin, cfg, sockVars
  <2>. QED BY <2>1, QuietShared
<1>4. CASE CloseListener \/ CloseHTTP \/ CloseMaps
  <2>1. pc \in {"listeners", "http", "maps"} /\ pc' \in {"listeners", "http", "pools", "down"}
    BY <1>4 DEF CloseListener, CloseHTTP, CloseMaps
  <2>2. UNCHANGED <<node, dial, pools, byName>> /\ byName = <<>>
    BY <1>4, <2>1 DEF CloseListener, CloseHTTP, CloseMaps, cfg, poolVars, SharedInv, Keyed
  <2>3. \A l \in L : tcp'[l] = "open" => tcp[l] = "open"
    BY <1>4 DEF CloseListener, CloseHTTP, CloseMaps, sockVars, LifeInv, Shapes
  <2>. QED BY <2>1, <2>2, <2>3, QuietShared
<1>. QED BY <1>1, <1>2, <1>3, <1>4, StartListenerShared, ClosePoolsShared DEF LifeStep

-----------------------------------------------------------------------------
(* The nodes the listeners are opened for                                  *)

LEMMA FindIn == ASSUME NEW ns, IsList(ns), NEW name PROVE Find(ns, name) \in Seq(ToSet(ns))
<1>. DEFINE hits == {k \in DOMAIN ns : ns[k].name = name}
<1>1. CASE hits = {}
  BY <1>1 DEF Find
<1>2. CASE hits # {}
  <2>1. hits \subseteq Nat /\ hits \subseteq DOMAIN ns
    BY DEF IsList
  <2>2. Min(hits) \in hits
    BY <1>2, <2>1, LeastNumber DEF Min
  <2>3. Find(ns, name) = <<ns[Min(hits)]>>
    BY <1>2 DEF Find
  <2>4. ns[Min(hits)] \in ToSet(ns)
    BY <2>1, <2>2 DEF ToSet
  <2>. QED BY <2>3, <2>4
<1>. QED BY <1>1, <1>2

\* What the expressions of the filter choose.
LEMMA FilterIn ==
  ASSUME NEW ns, IsList(ns), NEW regs \in Filters PROVE Filter(ns, regs) \in Seq(ToSet(ns))
<1>. DEFINE Matched(k, n) == n.name \in regs[k] /\ \A j \in 1..(k - 1) : n.name \notin regs[j]
            Found(k) == FlattenSeq([m \in DOMAIN ns |-> IF Matched(k, ns[m]) THEN <<ns[m]>> ELSE <<>>])
            turns == [k \in DOMAIN regs |-> Found(k)]
<1>1. DOMAIN regs = 1..Len(regs) /\ Len(regs) \in Nat
  BY ProgramAssumption DEF ProgramAssumption
<1>2. ASSUME NEW k PROVE Found(k) \in Seq(ToSet(ns))
  <2>. DEFINE C == {m \in DOMAIN ns : Matched(k, ns[m])}
  <2>1. Found(k) = FlattenSeq([m \in DOMAIN ns |-> IF m \in C THEN <<ns[m]>> ELSE <<>>])
    <3>1. [m \in DOMAIN ns |-> IF Matched(k, ns[m]) THEN <<ns[m]>> ELSE <<>>]
            = [m \in DOMAIN ns |-> IF m \in C THEN <<ns[m]>> ELSE <<>>]
      OBVIOUS
    <3>. QED BY <3>1
  <2>2. C \in SUBSET DOMAIN ns
    OBVIOUS
  <2>. HIDE DEF C, Found
  <2>. QED BY <2>1, <2>2, EachIn
<1>3. Filter(ns, regs) = IF regs = <<>> THEN ns ELSE FlattenSeq(turns)
  BY DEF Filter
<1>. HIDE DEF Found
<1>4. turns \in Seq(Seq(ToSet(ns)))
  BY <1>1, <1>2
<1>. HIDE DEF turns
<1>. QED BY <1>3, <1>4, FlattenToSet DEF IsList

LEMMA ExtrasIn ==
  ASSUME NEW conf \in Configs \cup {<<>>}, NEW active, IsList(active), NEW all, NEW lines
  PROVE  extraListeners(conf, active, all, lines).nodes \in Seq(ToSet(active))
<1>. DEFINE found == [e \in DOMAIN conf |-> Find(active, conf[e].node)]
<1>1. DOMAIN conf = 1..Len(conf) /\ Len(conf) \in Nat
  BY ProgramAssumption DEF ProgramAssumption
<1>2. found \in Seq(Seq(ToSet(active)))
  BY <1>1, FindIn
<1>3. extraListeners(conf, active, all, lines).nodes = FlattenSeq(found)
  BY DEF extraListeners
<1>. QED BY <1>2, <1>3, FlattenToSet

LEMMA ChosenIn ==
  ASSUME IsList(nodes), NEW regs \in Filters, NEW forced, NEW single
  PROVE  Chosen(regs, forced, single) \in Seq(ToSet(nodes))
<1>. DEFINE kept == Filter(nodes, regs)
<1>1. kept \in Seq(ToSet(nodes))
  BY FilterIn
<1>2. IsList(kept) /\ ToSet(kept) \subseteq ToSet(nodes)
  BY <1>1, SubList
<1>3. Find(kept, forced) \in Seq(ToSet(nodes))
  <2>1. Find(kept, forced) \in Seq(ToSet(kept))
    BY <1>2, FindIn
  <2>. HIDE DEF kept
  <2>. QED BY <1>2, <2>1
<1>4. kept # <<>> => <<Head(kept)>> \in Seq(ToSet(nodes))
  BY <1>1
<1>. HIDE DEF kept
<1>5. Chosen(regs, forced, single) =
        CASE forced # "" -> Find(kept, forced)
          [] forced = "" /\ single /\ kept # <<>> -> <<Head(kept)>>
          [] OTHER -> kept
  BY DEF Chosen, kept
<1>. QED BY <1>1, <1>3, <1>4, <1>5

\* The listeners of the file and those of the filter: all nodes are of one list.
LEMMA SelectShared == ASSUME FetchInv, LifeInv, SharedInv, Select PROVE SharedInv'
<1>1. PICK regs \in Filters, forced \in Forced, single \in BOOLEAN, conf \in Configs, quiet \in BOOLEAN :
        LET mine == Chosen(regs, forced, single)
            extras == extraListeners(IF single THEN <<>> ELSE conf, mine, nodes, Template)
        IN IF mine = <<>> \/ ~extras.ok
           THEN at' = "exit" /\ UNCHANGED <<lifeVars, label>>
           ELSE /\ at' = "running"
                /\ label' = [n \in DOMAIN mine |-> mine[n].name] \o extras.labels
                /\ Boot(mine \o extras.nodes, quiet)
  BY ZenonT(30) DEF Select
<1>2. PICK mine : mine = Chosen(regs, forced, single)
  OBVIOUS
<1>3. PICK more : more = extraListeners(IF single THEN <<>> ELSE conf, mine, nodes, Template).nodes
  OBVIOUS
<1>4. UNCHANGED lifeVars \/ Boot(mine \o more, quiet)
  BY <1>1, <1>2, <1>3, Zenon
<1>5. CASE UNCHANGED lifeVars
  <2>1. UNCHANGED <<node, dial, pools, byName, tcp, pc>>
    BY <1>5 DEF lifeVars, cfg, poolVars, sockVars
  <2>. QED BY <2>1, QuietShared
<1>6. CASE Boot(mine \o more, quiet)
  <2>1. IsList(nodes) /\ UniqueNames(nodes)
    BY DEF FetchInv, NodeList
  <2>2. mine \in Seq(ToSet(nodes))
    BY <1>2, <2>1, ChosenIn
  <2>3. IsList(mine) /\ ToSet(mine) \subseteq ToSet(nodes)
    BY <2>2, SubList
  <2>4. more \in Seq(ToSet(mine))
    BY <1>3, <2>3, ExtrasIn
  <2>5. more \in Seq(ToSet(nodes))
    BY <2>3, <2>4
  <2>6. PICK ns : ns = mine \o more
    OBVIOUS
  <2>7. ns \in Seq(ToSet(nodes))
    BY <2>2, <2>5, <2>6
  <2>8. \A l \in DOMAIN ns : ns[l] \in ToSet(nodes)
    BY <2>7
  <2>9. \A l, m \in DOMAIN ns : ns[l].name = ns[m].name => ns[l] = ns[m]
    BY <2>1, <2>8 DEF ToSet, UniqueNames
  <2>. QED BY <1>6, <2>6, <2>9, BootShared
<1>. QED BY <1>4, <1>5, <1>6

LEMMA NextShared ==
  FetchInv /\ LifeInv /\ SharedInv /\ [Next]_vars => SharedInv'
<1>. SUFFICES ASSUME FetchInv, LifeInv, SharedInv, [Next]_vars PROVE SharedInv' OBVIOUS
<1>1. CASE UNCHANGED lifeVars
  <2>1. UNCHANGED <<node, dial, pools, byName, tcp, pc>>
    BY <1>1 DEF lifeVars, cfg, poolVars, sockVars
  <2>. QED BY <2>1, QuietShared
<1>2. CASE Select
  BY <1>2, SelectShared
<1>3. CASE Serves
  BY <1>3, LifeShared DEF Serves
<1>4. CASE Killed
  BY <1>4, SwitchOffShared DEF Killed
<1>5. CASE Fetches \/ LoadProfile \/ Ended \/ UNCHANGED vars
  BY <1>1, <1>5 DEF Fetches, LoadProfile, Ended, vars
<1>. QED BY <1>2, <1>3, <1>4, <1>5 DEF Next

\* Listeners of one node dial through one open pool made for that node, whichever
\* filter, option or configuration opened them, until Close has closed them
\* (Parse, Filter, extraListeners, dialerFor, Close).
THEOREM PoolPerNode == Spec => []PoolShared
<1>1. LifeInv /\ SharedInv => PoolShared
  <2>. SUFFICES ASSUME LifeInv, SharedInv PROVE PoolShared OBVIOUS
  <2>1. \A p, r \in DOMAIN pools : pools[p].node = pools[r].node => p = r
    BY DEF SharedInv, Keyed
  <2>2. ASSUME NEW l \in L, tcp[l] = "open", node[l].reuse
        PROVE  dial[l] # NoPool /\ pools[dial[l]] = [node |-> node[l], open |-> TRUE]
    <3>1. Dials(l)
      BY <2>2 DEF SharedInv, Dialing
    <3>2. pools[dial[l]] \in PoolSet /\ dial[l] \in Nat
      BY <3>1 DEF Dials, LifeInv, Shapes
    <3>. QED BY <3>1, <3>2, LifeAssumption DEF Dials, PoolSet, LifeAssumption
  <2>. QED BY <2>1, <2>2 DEF PoolShared
<1>2. Init => FetchInv /\ LifeInv /\ SharedInv
  BY InitFetched, OffHolds, OffShared DEF Init
<1>. QED BY <1>1, <1>2, NextFetched, NextLife, NextShared, PTL DEF Spec

-----------------------------------------------------------------------------
(* The walk of RewriteSurge over a template                                *)

LEMMA TemplateLines ==
  ASSUME NEW T, IsTemplate(T)
  PROVE  DOMAIN T = 1..Len(T) /\ Len(T) \in Nat /\ \A n \in DOMAIN T : T[n] \in ToSet(T)
<1>1. T \in Seq(ToSet(T))
  BY DEF IsTemplate
<1>. QED BY <1>1

\* The section changes at a header.
LEMMA SectionStep ==
  ASSUME NEW T, IsTemplate(T), NEW n \in DOMAIN T
  PROVE  SectionOf(T, n + 1) = IF T[n].k = "head" THEN T[n].name ELSE SectionOf(T, n)
<1>. DEFINE heads(m) == {h \in DOMAIN T : h < m /\ T[h].k = "head"}
<1>1. DOMAIN T = 1..Len(T) /\ Len(T) \in Nat /\ n \in Nat
  BY TemplateLines
<1>2. \A h \in DOMAIN T : h < n + 1 <=> (h < n \/ h = n)
  BY <1>1
<1>3. CASE T[n].k = "head"
  <2>1. n \in heads(n + 1) /\ \A h \in heads(n + 1) : h \in Nat /\ n >= h
    BY <1>1, <1>2, <1>3
  <2>. HIDE DEF heads
  <2>2. Max(heads(n + 1)) \in heads(n + 1) /\ Max(heads(n + 1)) >= n
    BY <2>1 DEF Max
  <2>3. Max(heads(n + 1)) = n
    BY <1>1, <2>1, <2>2
  <2>4. heads(n + 1) # {}
    BY <2>1
  <2>. QED BY <1>3, <2>3, <2>4 DEF SectionOf, heads
<1>4. CASE T[n].k # "head"
  <2>1. heads(n + 1) = heads(n)
    BY <1>2, <1>4
  <2>. HIDE DEF heads
  <2>2. SectionOf(T, n + 1) = SectionOf(T, n)
    BY <2>1 DEF SectionOf, heads
  <2>. QED BY <1>4, <2>2
<1>. QED BY <1>3, <1>4

LEMMA SectionFirst == ASSUME NEW T, IsTemplate(T) PROVE SectionOf(T, 1) = ""
<1>1. DOMAIN T = 1..Len(T) /\ Len(T) \in Nat
  BY TemplateLines
<1>2. {h \in DOMAIN T : h < 1 /\ T[h].k = "head"} = {}
  BY <1>1
<1>. QED BY <1>2 DEF SectionOf

Begin == [out |-> <<>>, section |-> "", proxy |-> FALSE, wrote |-> {}]

\* The walk is a sequence of turns.
LEMMA WalkTurns ==
  ASSUME NEW T, IsTemplate(T), NEW names
  PROVE  \E g : /\ g[0] = Begin /\ Walk(T, names) = g[Len(T)]
                /\ \A n \in 1..Len(T) : g[n] = Turn(g[n - 1], T[n], names)
<1>. DEFINE N == Len(T)
            Next1(f, j) == IF j = 0 THEN Begin ELSE Turn(f[j - 1], T[j], names)
            Built(m, g) == \A j \in 0..m : g[j] = Next1(g, j)
            walk == CHOOSE f : f = [j \in 0..N |-> Next1(f, j)]
            G == {m \in 0..N : \E g : Built(m, g)}
<1>1. N \in Nat
  BY TemplateLines
<1>2. 0 \in G
  <2>1. 0..0 = {0} /\ 0 \in 0..N
    BY <1>1
  <2>2. Built(0, [j \in {0} |-> Begin])
    BY <2>1
  <2>. HIDE DEF Built, N
  <2>. QED BY <2>1, <2>2
<1>3. ASSUME NEW k \in G, k < N PROVE k + 1 \in G
  <2>1. PICK g : Built(k, g)
    OBVIOUS
  <2>2. k \in 0..N /\ k + 1 \in 0..N /\ k # k + 1 /\ k + 1 # 0 /\ (k + 1) - 1 = k
    BY <1>1, <1>3
  <2>3. PICK x : x = Turn(g[k], T[k + 1], names)
    OBVIOUS
  <2>. DEFINE h == [j \in 0..(k + 1) |-> IF j = k + 1 THEN x ELSE g[j]]
  <2>4. h[k] = g[k] /\ h[k + 1] = x
    BY <2>2
  <2>5. \A j \in 0..k : h[j] = g[j] /\ (j # 0 => h[j - 1] = g[j - 1])
    BY <2>2
  <2>. HIDE DEF h
  <2>6. Built(k + 1, h)
    <3>1. ASSUME NEW j \in 0..k PROVE h[j] = Next1(h, j)
      BY <2>1, <2>5
    <3>2. h[k + 1] = Next1(h, k + 1)
      BY <2>2, <2>3, <2>4
    <3>3. \A j \in 0..(k + 1) : j \in 0..k \/ j = k + 1
      BY <2>2
    <3>. HIDE DEF Next1
    <3>. QED BY <3>1, <3>2, <3>3
  <2>. QED BY <2>2, <2>6
<1>4. G \in SUBSET Nat
  BY <1>1
<1>. HIDE DEF G, N
<1>5. N \in G
  <2>1. 0..N \subseteq G
    BY <1>1, <1>2, <1>3, <1>4, CountFromZero
  <2>2. N \in 0..N
    BY <1>1
  <2>. QED BY <2>1, <2>2
<1>6. PICK g : Built(N, g)
  BY <1>5 DEF G
<1>. DEFINE h == [j \in 0..N |-> g[j]]
<1>7. h = [j \in 0..N |-> Next1(h, j)]
  <2>1. \A j \in 0..N : h[j] = Next1(h, j)
    BY <1>1, <1>6
  <2>. QED BY <2>1
<1>8. walk = [j \in 0..N |-> Next1(walk, j)]
  BY <1>7
<1>9. Walk(T, names) = walk[N]
  BY DEF Walk, N, Begin
<1>. HIDE DEF walk
<1>10. walk[0] = Begin
  BY <1>1, <1>8
<1>11. ASSUME NEW n \in 1..N PROVE walk[n] = Turn(walk[n - 1], T[n], names)
  <2>1. n \in 0..N /\ n # 0
    BY <1>1
  <2>. QED BY <1>8, <2>1
<1>. QED BY <1>9, <1>10, <1>11 DEF N

-----------------------------------------------------------------------------
(* What the walk has put out                                               *)

\* A line of a profile that defines no node, and lists members of M only.
Fine(x, T, M) ==
  /\ x.k \notin {"local", "remote"}
  /\ Defines(x) => policyNameKey(x.name) \in Spoken(T)
  /\ ToSet(x.members) \subseteq M

Ours(x) == x.k = "local"
Once(s) == \A j, k \in DOMAIN s : Ours(s[j]) /\ s[j] = s[k] => j = k

\* Every line is one of ours, and there once, or is fine.
Sound(s, T, names, M) ==
  /\ IsList(s) /\ Once(s)
  /\ \A x \in ToSet(s) : x \in ToSet(ProxyList(names)) \/ Fine(x, T, M)

KeysIn(s) == {policyNameKey(x.name) : x \in {y \in ToSet(s) : Defines(y)}}

\* The names of unions and differences.
LEMMA KeysParts ==
  ASSUME NEW S, NEW R
  PROVE  /\ Keys(S \cup R) = Keys(S) \cup Keys(R) /\ (S \subseteq R => Keys(S) \subseteq Keys(R))
         /\ \A x \in S : policyNameKey(x) \in Keys(S)
         /\ \A k \in Keys(S) : \E x \in S : k = policyNameKey(x)
BY DEF Keys

\* ProxyList: one line for each name.
LEMMA ProxyLines ==
  ASSUME NEW names, IsList(names)
  PROVE  /\ IsList(ProxyList(names)) /\ DOMAIN ProxyList(names) = DOMAIN names
         /\ \A n \in DOMAIN names : ProxyList(names)[n] = Ln("local", names[n], <<>>)
         /\ \A x \in ToSet(ProxyList(names)) : \E n \in DOMAIN names : x = Ln("local", names[n], <<>>)
<1>. DEFINE P == ProxyList(names)
<1>1. P = [n \in DOMAIN names |-> Ln("local", names[n], <<>>)]
  BY DEF ProxyList
<1>2. DOMAIN names = 1..Len(names) /\ Len(names) \in Nat
  BY DEF IsList
<1>3. \A n \in DOMAIN names : P[n] \in ToSet(P)
  BY <1>1 DEF ToSet
<1>4. P \in Seq(ToSet(P))
  BY <1>1, <1>2, <1>3
<1>. QED BY <1>1, <1>4 DEF IsList, ToSet

\* What two sequences of lines define together.
LEMMA ListJoined ==
  ASSUME NEW s, IsList(s), NEW t, IsList(t)
  PROVE  /\ IsList(s \o t) /\ ToSet(s \o t) = ToSet(s) \cup ToSet(t)
         /\ KeysIn(s \o t) = KeysIn(s) \cup KeysIn(t)
<1>. DEFINE X == ToSet(s) \cup ToSet(t)
<1>1. s \in Seq(X) /\ t \in Seq(X)
  BY DEF IsList
<1>2. s \o t \in Seq(X) /\ ToSet(s \o t) = X
  BY <1>1, JoinedSeqs
<1>. QED BY <1>2 DEF IsList, KeysIn

\* Lines of ours stay apart when only one of two sequences has any.
LEMMA OnceJoined ==
  ASSUME NEW s, IsList(s), Once(s), NEW t, IsList(t), Once(t),
         (\A x \in ToSet(s) : ~Ours(x)) \/ (\A x \in ToSet(t) : ~Ours(x))
  PROVE  Once(s \o t)
<1>1. PICK st : st = s \o t
  OBVIOUS
<1>2. /\ Len(s) \in Nat /\ Len(t) \in Nat /\ DOMAIN st = 1..(Len(s) + Len(t))
      /\ DOMAIN s = 1..Len(s) /\ DOMAIN t = 1..Len(t)
  BY <1>1 DEF IsList
<1>3. \A k \in DOMAIN st : IF k <= Len(s) THEN k \in DOMAIN s /\ st[k] = s[k] /\ st[k] \in ToSet(s)
                           ELSE /\ k - Len(s) \in DOMAIN t /\ st[k] = t[k - Len(s)]
                                /\ st[k] \in ToSet(t)
  <2>1. ASSUME NEW k \in DOMAIN st, k <= Len(s) PROVE k \in DOMAIN s /\ st[k] = s[k]
    BY <1>1, <1>2, <2>1 DEF IsList
  <2>2. ASSUME NEW k \in DOMAIN st, ~ (k <= Len(s)) PROVE k - Len(s) \in DOMAIN t /\ st[k] = t[k - Len(s)]
    BY <1>1, <1>2, <2>2 DEF IsList
  <2>. QED BY <2>1, <2>2 DEF ToSet
<1>4. ASSUME NEW j \in DOMAIN st, NEW k \in DOMAIN st, Ours(st[j]), st[j] = st[k] PROVE j = k
  <2>1. CASE j <= Len(s) /\ k <= Len(s)
    BY <1>3, <1>4, <2>1 DEF Once
  <2>2. CASE ~ (j <= Len(s)) /\ ~ (k <= Len(s))
    <3>1. j - Len(s) = k - Len(s)
      BY <1>3, <1>4, <2>2 DEF Once
    <3>. QED BY <1>2, <3>1
  <2>3. (j <= Len(s)) <=> (k <= Len(s))
    BY <1>3, <1>4
  <2>. QED BY <2>1, <2>2, <2>3
<1>. QED BY <1>1, <1>4 DEF Once

\* Lines that are fine may come behind, or before, what is sound.
LEMMA SoundJoined ==
  ASSUME NEW T, NEW names, NEW M, NEW s, Sound(s, T, names, M), NEW t, Sound(t, T, names, M),
         (\A x \in ToSet(s) : ~Ours(x)) \/ (\A x \in ToSet(t) : ~Ours(x))
  PROVE  /\ Sound(s \o t, T, names, M) /\ ToSet(s \o t) = ToSet(s) \cup ToSet(t)
         /\ KeysIn(s \o t) = KeysIn(s) \cup KeysIn(t)
<1>1. IsList(s) /\ IsList(t) /\ Once(s) /\ Once(t)
  BY DEF Sound
<1>2. IsList(s \o t) /\ ToSet(s \o t) = ToSet(s) \cup ToSet(t) /\ KeysIn(s \o t) = KeysIn(s) \cup KeysIn(t)
  BY <1>1, ListJoined
<1>3. Once(s \o t)
  BY <1>1, OnceJoined
<1>. QED BY <1>2, <1>3 DEF Sound

\* A sequence of fine lines.
LEMMA FineSound ==
  ASSUME NEW T, NEW names, NEW M, NEW s, IsList(s), \A x \in ToSet(s) : Fine(x, T, M)
  PROVE  Sound(s, T, names, M) /\ \A x \in ToSet(s) : ~Ours(x)
<1>1. ASSUME NEW x \in ToSet(s) PROVE ~Ours(x)
  <2>1. Fine(x, T, M)
    OBVIOUS
  <2>2. x.k # "local"
    BY <2>1 DEF Fine
  <2>. QED BY <2>2 DEF Ours
<1>2. Once(s)
  BY <1>1 DEF Once, ToSet
<1>. QED BY <1>1, <1>2 DEF Sound

LEMMA OneLine ==
  ASSUME NEW x PROVE IsList(<<x>>) /\ ToSet(<<x>>) = {x} /\ (Defines(x) => KeysIn(<<x>>) = {policyNameKey(x.name)})
<1>1. ToSet(<<x>>) = {x}
  BY DEF ToSet
<1>. QED BY <1>1 DEF IsList, KeysIn

\* The names of listeners: no two are equal.
NamesOK(names) == IsList(names) /\ names # <<>> /\ Distinct(names)

\* Our lines: each once, and they define our names.
LEMMA ProxySound ==
  ASSUME NEW T, NEW names, NamesOK(names), NEW M
  PROVE  /\ Sound(ProxyList(names), T, names, M) /\ \A x \in ToSet(ProxyList(names)) : Ours(x) /\ Defines(x)
         /\ Keys(ToSet(names)) = KeysIn(ProxyList(names))
<1>. DEFINE P == ProxyList(names)
<1>1. /\ IsList(P) /\ DOMAIN P = DOMAIN names
      /\ \A n \in DOMAIN names : P[n] = Ln("local", names[n], <<>>)
  BY ProxyLines DEF NamesOK
<1>. HIDE DEF P
<1>2. \A n \in DOMAIN names : P[n].k = "local" /\ P[n].name = names[n]
  BY <1>1 DEF Ln
<1>3. ToSet(P) = {P[n] : n \in DOMAIN names} /\ ToSet(names) = {names[n] : n \in DOMAIN names}
  BY <1>1 DEF ToSet
<1>4. Once(P)
  BY <1>1, <1>2 DEF Once, NamesOK, Distinct
<1>5. \A x \in ToSet(P) : Ours(x) /\ Defines(x)
  BY <1>2, <1>3 DEF Ours, Defines
<1>6. Keys(ToSet(names)) = KeysIn(P)
  <2>1. KeysIn(P) = {policyNameKey(x.name) : x \in ToSet(P)}
    BY <1>5 DEF KeysIn
  <2>2. \A k : k \in KeysIn(P) <=> \E n \in DOMAIN names : k = policyNameKey(names[n])
    BY <1>2, <1>3, <2>1
  <2>3. \A k : k \in Keys(ToSet(names)) <=> \E n \in DOMAIN names : k = policyNameKey(names[n])
    BY <1>3 DEF Keys
  <2>. QED BY <2>2, <2>3
<1>. QED BY <1>1, <1>4, <1>5, <1>6 DEF Sound, P

\* What a line may list in a profile that defines the keys K.
Known(member, T, K) ==
  policyNameKey(member) \in K \/ (member # "oixCloud" /\ policyNameKey(member) \in Unresolved(T))

\* A sound profile that has every line of ours, and defines what its groups list.
LEMMA SoundResolves ==
  ASSUME NEW T, NEW names, NamesOK(names), NEW fixed, fixed \subseteq Apart(names, T),
         NEW M, NEW s, Sound(s, T, names, M), ToSet(ProxyList(names)) \subseteq ToSet(s),
         \A x \in M : Known(x, T, KeysIn(s))
  PROVE  Resolves(s, names, fixed, T)
<1>. DEFINE defs == {d \in DOMAIN s : Defines(s[d])}
            Of(name) == {d \in defs : policyNameKey(s[d].name) = policyNameKey(name)}
            Lines(name) == {d \in defs : s[d] = Ln("local", name, <<>>)}
            P == ProxyList(names)
<1>1. /\ DOMAIN P = DOMAIN names /\ \A n \in DOMAIN names : P[n] = Ln("local", names[n], <<>>)
      /\ \A x \in ToSet(P) : \E n \in DOMAIN names : x = Ln("local", names[n], <<>>)
  BY ProxyLines DEF NamesOK
<1>. HIDE DEF P
<1>2. \A d \in DOMAIN s : s[d] \in ToSet(s)
  BY DEF ToSet
<1>3. Keys(Defined(s)) = KeysIn(s)
  <2>1. ASSUME NEW k \in Keys(Defined(s)) PROVE k \in KeysIn(s)
    <3>1. PICK d \in DOMAIN s : Defines(s[d]) /\ k = policyNameKey(s[d].name)
      BY DEF Keys, Defined
    <3>. QED BY <1>2, <3>1 DEF KeysIn
  <2>2. ASSUME NEW k \in KeysIn(s) PROVE k \in Keys(Defined(s))
    <3>1. PICK x \in ToSet(s) : Defines(x) /\ k = policyNameKey(x.name)
      BY DEF KeysIn
    <3>2. PICK d \in DOMAIN s : s[d] = x
      BY DEF ToSet
    <3>. QED BY <3>1, <3>2 DEF Keys, Defined
  <2>. QED BY <2>1, <2>2
<1>4. ASSUME NEW l \in DOMAIN names
      PROVE  \E d \in defs : /\ Lines(names[l]) = {d}
                             /\ l \in fixed \cup Apart(names, T) => Of(names[l]) = {d}
  <2>1. P[l] \in ToSet(s)
    BY <1>1 DEF ToSet, P
  <2>2. PICK d \in DOMAIN s : s[d] = P[l]
    BY <2>1 DEF ToSet
  <2>3. s[d] = Ln("local", names[l], <<>>) /\ Ours(s[d]) /\ Defines(s[d]) /\ s[d].name = names[l]
    BY <1>1, <2>2 DEF Ln, Ours, Defines
  <2>4. d \in Of(names[l]) /\ d \in Lines(names[l])
    BY <2>3
  <2>5. Lines(names[l]) = {d}
    <3>1. ASSUME NEW e \in defs, s[e] = Ln("local", names[l], <<>>) PROVE e = d
      BY <2>3, <3>1 DEF Sound, Once
    <3>. QED BY <2>4, <3>1
  <2>6. ASSUME l \in Apart(names, T), NEW e \in defs, policyNameKey(s[e].name) = policyNameKey(names[l])
        PROVE  e = d
    <3>1. ~Fine(s[e], T, M)
      <4>1. policyNameKey(names[l]) \notin Spoken(T)
        BY <2>6 DEF Apart
      <4>. QED BY <2>6, <4>1 DEF Fine
    <3>2. s[e] \in ToSet(P)
      BY <1>2, <3>1 DEF Sound, P
    <3>3. PICK n \in DOMAIN names : s[e] = Ln("local", names[n], <<>>)
      BY <1>1, <3>2
    <3>4. s[e].name = names[n]
      BY <3>3 DEF Ln
    <3>5. n = l
      BY <2>6, <3>4 DEF Apart
    <3>6. s[d] = s[e]
      BY <2>3, <3>3, <3>5
    <3>. QED BY <2>3, <3>6 DEF Sound, Once
  <2>7. l \in fixed \cup Apart(names, T) => Of(names[l]) = {d}
    BY <2>4, <2>6
  <2>. QED BY <2>3, <2>5, <2>7
<1>5. ASSUME NEW d \in defs
      PROVE  s[d].k # "remote" /\ \A member \in ToSet(s[d].members) : Known(member, T, KeysIn(s))
  <2>1. CASE s[d] \in ToSet(P)
    <3>1. PICK n \in DOMAIN names : s[d] = Ln("local", names[n], <<>>)
      BY <1>1, <2>1
    <3>2. s[d].k = "local" /\ s[d].members = <<>>
      BY <3>1 DEF Ln
    <3>3. ToSet(<<>>) = {}
      BY DEF ToSet
    <3>. QED BY <3>2, <3>3
  <2>2. CASE s[d] \notin ToSet(P)
    <3>1. Fine(s[d], T, M)
      BY <1>2, <2>2 DEF Sound, P
    <3>. QED BY <3>1 DEF Fine
  <2>. QED BY <2>1, <2>2
<1>6. \A d \in defs : /\ s[d].k # "remote"
                       /\ \A member \in ToSet(s[d].members) :
                            \/ policyNameKey(member) \in Keys(Defined(s))
                            \/ member # "oixCloud" /\ policyNameKey(member) \in Unresolved(T)
  BY <1>3, <1>5 DEF Known
<1>. QED BY <1>4, <1>6 DEF Resolves

-----------------------------------------------------------------------------
(* Groups                                                                  *)

\* What is left of a list.
LEMMA WithoutSet ==
  ASSUME NEW s, IsList(s), NEW S
  PROVE  IsList(Without(s, S)) /\ ToSet(Without(s, S)) = ToSet(s) \ S
<1>. DEFINE ss == [n \in DOMAIN s |-> IF s[n] \in S THEN <<>> ELSE <<s[n]>>]
<1>1. DOMAIN s = 1..Len(s) /\ Len(s) \in Nat /\ \A n \in DOMAIN s : s[n] \in ToSet(s)
  BY DEF IsList, ToSet
<1>2. \A n \in 1..Len(s) : ss[n] \in Seq(ToSet(s))
  BY <1>1
<1>3. ss \in Seq(Seq(ToSet(s)))
  BY <1>1, <1>2
<1>4. \A n \in DOMAIN s : ToSet(ss[n]) = IF s[n] \in S THEN {} ELSE {s[n]}
  BY DEF ToSet
<1>5. DOMAIN ss = DOMAIN s /\ Without(s, S) = FlattenSeq(ss)
  BY DEF Without
<1>. HIDE DEF ss
<1>6. Without(s, S) \in Seq(ToSet(s)) /\ ToSet(Without(s, S)) = UNION {ToSet(ss[n]) : n \in DOMAIN s}
  BY <1>3, <1>5, FlattenToSet
<1>7. UNION {ToSet(ss[n]) : n \in DOMAIN s} = ToSet(s) \ S
  BY <1>4 DEF ToSet
<1>. QED BY <1>6, <1>7, SubList

\* The placeholder stands for the automatic groups, the other members stay.
LEMMA UnfoldedSet ==
  ASSUME NEW s, IsList(s)
  PROVE  /\ IsList(Unfolded(s))
         /\ ToSet(Unfolded(s)) = (ToSet(s) \ {"oixCloud"})
              \cup (IF "oixCloud" \in ToSet(s) THEN ToSet(Autos) ELSE {})
<1>. DEFINE ss == [n \in DOMAIN s |-> IF s[n] = "oixCloud" THEN <<Smart, UrlTest>> ELSE <<s[n]>>]
            X == ToSet(s) \cup {Smart, UrlTest}
<1>1. DOMAIN s = 1..Len(s) /\ Len(s) \in Nat /\ \A n \in DOMAIN s : s[n] \in ToSet(s)
  BY DEF IsList, ToSet
<1>2. \A n \in 1..Len(s) : ss[n] \in Seq(X)
  <2>1. <<Smart, UrlTest>> \in Seq(X) /\ \A x \in X : <<x>> \in Seq(X)
    <3>1. Smart \in X /\ UrlTest \in X
      OBVIOUS
    <3>. HIDE DEF X
    <3>. QED BY <3>1
  <2>. QED BY <1>1, <2>1
<1>3. ss \in Seq(Seq(X))
  BY <1>1, <1>2
<1>4. \A n \in DOMAIN s : ToSet(ss[n]) = IF s[n] = "oixCloud" THEN ToSet(Autos) ELSE {s[n]}
  <2>1. ToSet(<<Smart, UrlTest>>) = {Smart, UrlTest} /\ ToSet(Autos) = {Smart, UrlTest}
    BY DEF ToSet, Autos
  <2>2. \A x : ToSet(<<x>>) = {x}
    BY DEF ToSet
  <2>. QED BY <2>1, <2>2
<1>5. DOMAIN ss = DOMAIN s /\ Unfolded(s) = FlattenSeq(ss)
  BY DEF Unfolded
<1>. HIDE DEF ss
<1>6. Unfolded(s) \in Seq(X) /\ ToSet(Unfolded(s)) = UNION {ToSet(ss[n]) : n \in DOMAIN s}
  BY <1>3, <1>5, FlattenToSet
<1>7. UNION {ToSet(ss[n]) : n \in DOMAIN s} = (ToSet(s) \ {"oixCloud"})
              \cup (IF "oixCloud" \in ToSet(s) THEN ToSet(Autos) ELSE {})
  <2>1. \A n \in DOMAIN s : s[n] \in ToSet(s)
    BY DEF ToSet
  <2>2. ASSUME NEW x \in UNION {ToSet(ss[n]) : n \in DOMAIN s}
        PROVE  x \in ToSet(s) \ {"oixCloud"} \/ ("oixCloud" \in ToSet(s) /\ x \in ToSet(Autos))
    <3>1. PICK n \in DOMAIN s : x \in ToSet(ss[n])
      OBVIOUS
    <3>. QED BY <1>4, <2>1, <3>1
  <2>3. ASSUME NEW x \in ToSet(s) \ {"oixCloud"} PROVE x \in UNION {ToSet(ss[n]) : n \in DOMAIN s}
    <3>1. PICK n \in DOMAIN s : x = s[n]
      BY DEF ToSet
    <3>2. x \in ToSet(ss[n])
      BY <1>4, <3>1
    <3>. QED BY <3>2
  <2>4. ASSUME "oixCloud" \in ToSet(s), NEW x \in ToSet(Autos)
        PROVE  x \in UNION {ToSet(ss[n]) : n \in DOMAIN s}
    <3>1. PICK n \in DOMAIN s : s[n] = "oixCloud"
      BY <2>4 DEF ToSet
    <3>2. x \in ToSet(ss[n])
      BY <1>4, <3>1
    <3>. QED BY <3>2
  <2>. QED BY <2>2, <2>3, <2>4
<1>8. IsList(Unfolded(s))
  <2>1. \A t : t \in Seq(X) => t \in Seq(ToSet(t))
    BY DEF ToSet
  <2>. QED BY <1>6, <2>1 DEF IsList
<1>. QED BY <1>6, <1>7, <1>8

\* What the groups of the profile may list.
Listable(T, names) ==
  ToSet(names) \cup (Members(T) \ {"oixCloud"})
    \cup (IF "oixCloud" \in Members(T) THEN ToSet(Autos) ELSE {})

\* A group lists what it listed, the automatic groups and the mapped nodes.
LEMMA ExpandedLine ==
  ASSUME NEW names, IsList(names), NEW T, NEW n \in DOMAIN T,
         NEW k, NEW name, NEW members, IsList(members), T[n] = Ln(k, name, members)
  PROVE  \E ms : /\ expandGroup(T[n], names) = Ln(k, name, ms)
                 /\ ToSet(ms) \subseteq Listable(T, names)
<1>. DEFINE kept == Unfolded(members)
            more == Without(names, ToSet(kept))
            ms == IF k = "select" /\ policyNameKey("Block") \notin Keys(ToSet(members))
                  THEN kept \o more ELSE kept
<1>1. T[n].k = k /\ T[n].name = name /\ T[n].members = members
  BY DEF Ln
<1>2. IsList(kept) /\ ToSet(kept) \subseteq Listable(T, names)
  <2>1. \A x \in ToSet(members) : x \in Members(T)
    BY <1>1 DEF Members
  <2>. QED BY <2>1, UnfoldedSet DEF Listable
<1>3. IsList(more) /\ ToSet(more) \subseteq Listable(T, names)
  BY WithoutSet DEF Listable
<1>4. expandGroup(T[n], names) = Ln(k, name, ms)
  <2>1. expandGroup(T[n], names) = [T[n] EXCEPT !.members = ms]
    BY <1>1 DEF expandGroup
  <2>2. T[n] = [k |-> k, name |-> name, members |-> members]
    BY DEF Ln
  <2>. HIDE DEF ms
  <2>. QED BY <2>1, <2>2 DEF Ln
<1>. HIDE DEF kept, more
<1>5. ToSet(kept \o more) \subseteq Listable(T, names)
  BY <1>2, <1>3, ListJoined
<1>6. ToSet(ms) \subseteq Listable(T, names)
  BY <1>2, <1>5
<1>. QED BY <1>4, <1>6

LEMMA AutosReserved == \A a \in ToSet(Autos) : \A T : policyNameKey(a) \in Spoken(T)
<1>1. ToSet(Autos) = {UrlTest, Smart}
  BY DEF ToSet, Autos
<1>. QED BY <1>1 DEF Spoken, Reserved, Keys

LEMMA AutosList == IsList(Autos) /\ ToSet(Autos) = {UrlTest, Smart}
BY DEF ToSet, Autos, IsList

\* The automatic groups that are missing: fine lines, that define them.
LEMMA MissingFine ==
  ASSUME NEW names, NEW wrote, NEW T, NEW M, ToSet(names) \subseteq M
  PROVE  /\ Sound(missingAutoGroups(names, wrote), T, names, M)
         /\ \A x \in ToSet(missingAutoGroups(names, wrote)) : ~Ours(x)
         /\ KeysIn(missingAutoGroups(names, wrote)) = Keys(ToSet(Autos) \ wrote)
<1>. DEFINE missing == Without(Autos, wrote)
            s == missingAutoGroups(names, wrote)
<1>1. IsList(missing) /\ ToSet(missing) = ToSet(Autos) \ wrote
  BY AutosList, WithoutSet
<1>. HIDE DEF missing
<1>2. s = [g \in DOMAIN missing |-> Ln("test", missing[g], names)]
  BY DEF missingAutoGroups, missing
<1>. HIDE DEF s
<1>3. DOMAIN missing = 1..Len(missing) /\ Len(missing) \in Nat
  BY <1>1 DEF IsList
<1>4. IsList(s)
  <2>1. \A g \in DOMAIN s : s[g] \in ToSet(s)
    BY DEF ToSet
  <2>. QED BY <1>2, <1>3, <2>1 DEF IsList
<1>5. \A g \in DOMAIN missing : s[g].k = "test" /\ s[g].name = missing[g] /\ s[g].members = names
  BY <1>2 DEF Ln
<1>6. ToSet(s) = {s[g] : g \in DOMAIN missing} /\ ToSet(missing) = {missing[g] : g \in DOMAIN missing}
  BY <1>2 DEF ToSet
<1>7. \A x \in ToSet(s) : x.k = "test" /\ x.members = names /\ x.name \in ToSet(Autos) \ wrote
  BY <1>1, <1>5, <1>6
<1>8. \A x \in ToSet(s) : Fine(x, T, M)
  <2>1. \A x \in ToSet(s) : policyNameKey(x.name) \in Spoken(T)
    BY <1>7, AutosReserved
  <2>. QED BY <1>7, <2>1 DEF Fine
<1>9. KeysIn(s) = {policyNameKey(x.name) : x \in ToSet(s)}
  BY <1>7 DEF KeysIn, Defines
<1>10. KeysIn(s) = Keys(ToSet(Autos) \ wrote)
  <2>1. \A k : k \in KeysIn(s) <=> \E g \in DOMAIN missing : k = policyNameKey(missing[g])
    BY <1>5, <1>6, <1>9
  <2>2. \A k : k \in Keys(ToSet(missing)) <=> \E g \in DOMAIN missing : k = policyNameKey(missing[g])
    BY <1>6 DEF Keys
  <2>. QED BY <1>1, <2>1, <2>2
<1>. QED BY <1>4, <1>8, <1>10, FineSound DEF s

-----------------------------------------------------------------------------
(* The loop of RewriteSurge                                                *)

\* After n turns: what is out is sound; our lines are in it once a remote policy made
\* room for them, and only then; what the lines so far define it defines, whichever of
\* them it left out; and an automatic group counts as written when it is.  The groups
\* of a section with the usual header are complete when the section is over.
Walked(T, names, n, st) ==
  /\ st = [out |-> st.out, section |-> st.section, proxy |-> st.proxy, wrote |-> st.wrote]
  /\ st.section = SectionOf(T, n + 1)
  /\ Sound(st.out, T, names, Listable(T, names))
  /\ IF st.proxy THEN ToSet(ProxyList(names)) \subseteq ToSet(st.out)
                 ELSE \A x \in ToSet(st.out) : ~Ours(x)
  /\ st.proxy \in BOOLEAN
  /\ st.proxy => \E m \in DOMAIN T : /\ SectionOf(T, m) \in ProxyHdrs
                                     /\ T[m].k \notin {"managed", "head", "direct"}
  /\ \A m \in 1..n : T[m].k \in {"direct", "select", "test"} =>
                        policyNameKey(T[m].name) \in KeysIn(st.out)
  /\ st.wrote \subseteq ToSet(Autos) /\ Keys(st.wrote) \subseteq KeysIn(st.out)
  /\ \A m \in 1..n : T[m] = Header(GroupHdr) => st.section = GroupHdr \/ ToSet(Autos) \subseteq st.wrote

\* Nothing is put out before the first turn.
LEMMA BeginWalked == ASSUME NEW T, IsTemplate(T), NEW names PROVE Walked(T, names, 0, Begin)
<1>1. 1..0 = {} /\ ToSet(<<>>) = {} /\ 0 + 1 = 1
  BY DEF ToSet
<1>2. Sound(<<>>, T, names, Listable(T, names))
  BY <1>1 DEF Sound, IsList, Once
<1>3. Keys({}) = {}
  BY DEF Keys
<1>. QED BY <1>1, <1>2, <1>3, SectionFirst DEF Walked, Begin

\* A turn that puts out lines, none of them ours.
LEMMA GrownWalked ==
  ASSUME NEW T, IsTemplate(T), NEW names, NEW n \in DOMAIN T, NEW st, Walked(T, names, n - 1, st),
         NEW add, Sound(add, T, names, Listable(T, names)), \A x \in ToSet(add) : ~Ours(x),
         NEW wrote, st.wrote \subseteq wrote, wrote \subseteq ToSet(Autos),
         Keys(wrote) \subseteq KeysIn(st.out) \cup KeysIn(add),
         T[n].k \in {"direct", "select", "test"} =>
           policyNameKey(T[n].name) \in KeysIn(st.out) \cup KeysIn(add),
         T[n].k = "head" /\ st.section = GroupHdr => ToSet(Autos) \subseteq wrote
  PROVE  Walked(T, names, n, [out |-> st.out \o add, proxy |-> st.proxy, wrote |-> wrote,
                              section |-> IF T[n].k = "head" THEN T[n].name ELSE st.section])
<1>. DEFINE section == IF T[n].k = "head" THEN T[n].name ELSE st.section
<1>1. PICK out : out = st.out \o add
  OBVIOUS
<1>2. n \in Nat /\ (n - 1) + 1 = n /\ \A m \in 1..n : m \in 1..(n - 1) \/ m = n
  BY TemplateLines
<1>3. section = SectionOf(T, n + 1)
  BY <1>2, SectionStep DEF Walked
<1>4. /\ Sound(out, T, names, Listable(T, names)) /\ ToSet(out) = ToSet(st.out) \cup ToSet(add)
      /\ KeysIn(out) = KeysIn(st.out) \cup KeysIn(add)
  BY <1>1, SoundJoined DEF Walked
<1>5. IF st.proxy THEN ToSet(ProxyList(names)) \subseteq ToSet(out) ELSE \A x \in ToSet(out) : ~Ours(x)
  BY <1>4 DEF Walked
<1>6. \A m \in 1..n : T[m].k \in {"direct", "select", "test"} => policyNameKey(T[m].name) \in KeysIn(out)
  BY <1>2, <1>4 DEF Walked
<1>7. wrote \subseteq ToSet(Autos) /\ Keys(wrote) \subseteq KeysIn(out)
  BY <1>4
<1>8. ASSUME NEW m \in 1..n, T[m] = Header(GroupHdr)
      PROVE  section = GroupHdr \/ ToSet(Autos) \subseteq wrote
  <2>1. CASE m = n
    <3>1. T[n].k = "head" /\ T[n].name = GroupHdr
      BY <1>8, <2>1 DEF Header, Ln
    <3>. QED BY <3>1
  <2>2. CASE m \in 1..(n - 1)
    BY <1>8, <2>2 DEF Walked
  <2>. QED BY <1>2, <2>1, <2>2
<1>. HIDE DEF section
<1>9. /\ st.proxy \in BOOLEAN
      /\ st.proxy => \E m \in DOMAIN T : /\ SectionOf(T, m) \in ProxyHdrs
                                         /\ T[m].k \notin {"managed", "head", "direct"}
  BY DEF Walked
<1>10. Walked(T, names, n, [out |-> out, proxy |-> st.proxy, wrote |-> wrote, section |-> section])
  BY <1>3, <1>4, <1>5, <1>6, <1>7, <1>8, <1>9 DEF Walked
<1>. QED BY <1>1, <1>10 DEF section

\* What is known of a line.
LEMMA LineKinds ==
  ASSUME NEW T, IsTemplate(T), NEW n \in DOMAIN T
  PROVE  /\ T[n] = Ln(T[n].k, T[n].name, T[n].members) /\ IsList(T[n].members)
         /\ T[n].k \in {"managed", "head", "text", "direct", "remote", "select", "test"}
         /\ T[n].k \in {"direct", "remote"} => SectionOf(T, n) \in ProxyHdrs
         /\ T[n].k \in {"select", "test"} => SectionOf(T, n) \in GroupHdrs
         /\ T[n].k \notin {"select", "test"} => T[n].members = <<>>
         /\ T[n].k = "direct" => policyNameKey(T[n].name) \in Keys({"Direct", "Block"})
         /\ T[n].k \in {"select", "test"} => policyNameKey(T[n].name) \in Spoken(T)
<1>1. LET line == T[n]
          kinds == {"managed", "head", "text"}
             \cup (IF SectionOf(T, n) \in ProxyHdrs THEN {"direct", "remote"} ELSE {})
             \cup (IF SectionOf(T, n) \in GroupHdrs THEN {"select", "test"} ELSE {})
      IN /\ line = Ln(line.k, line.name, line.members) /\ line.k \in kinds
         /\ line.members \in Seq(ToSet(line.members))
         /\ line.k \notin {"select", "test"} => line.members = <<>>
         /\ line.k \in {"managed", "text"} => line.name = ""
         /\ line.k \in {"select", "test"} => line.name # ""
         /\ line.k = "direct" => policyNameKey(line.name) \in Keys({"Direct", "Block"})
  BY DEF IsTemplate
<1>2. ASSUME T[n].k \in {"select", "test"} PROVE policyNameKey(T[n].name) \in Spoken(T)
  <2>1. T[n].name # "" /\ SectionOf(T, n) \in GroupHdrs /\ T[n].k # "head"
    BY <1>1, <1>2
  <2>2. T[n].name \in SurgeGroupNames(T)
    BY <2>1 DEF SurgeGroupNames
  <2>. QED BY <2>2 DEF Spoken, Keys
<1>. QED BY <1>1, <1>2 DEF IsList

\* A line that is no remote policy and no group is fine as it stands.
LEMMA PlainFine ==
  ASSUME NEW T, IsTemplate(T), NEW n \in DOMAIN T, T[n].k \in {"managed", "head", "text", "direct"}, NEW M
  PROVE  Fine(T[n], T, M)
<1>1. T[n].members = <<>> /\ ToSet(<<>>) = {}
  BY LineKinds DEF ToSet
<1>2. T[n].k = "direct" => policyNameKey(T[n].name) \in Spoken(T)
  <2>1. T[n].k = "direct" => policyNameKey(T[n].name) \in Keys({"Direct", "Block"})
    BY LineKinds
  <2>2. Keys({"Direct", "Block"}) \subseteq Reserved
    BY DEF Keys, Reserved
  <2>. QED BY <2>1, <2>2 DEF Spoken
<1>. QED BY <1>1, <1>2 DEF Fine, Defines

\* A header, and before it the automatic groups its section lacks.
LEMMA HeadTurn ==
  ASSUME NEW T, IsTemplate(T), NEW names, NamesOK(names), NEW n \in DOMAIN T,
         NEW st, Walked(T, names, n - 1, st), T[n].k = "head"
  PROVE  Walked(T, names, n, Turn(st, T[n], names))
<1>. DEFINE M == Listable(T, names)
            ends == st.section = GroupHdr /\ names # <<>>
            missing == IF ends THEN missingAutoGroups(names, st.wrote) ELSE <<>>
            wrote == IF ends THEN ToSet(Autos) ELSE st.wrote
<1>1. Sound(missing, T, names, M) /\ (\A x \in ToSet(missing) : ~Ours(x))
      /\ (ends => KeysIn(missing) = Keys(ToSet(Autos) \ st.wrote))
  <2>1. ToSet(names) \subseteq M
    BY DEF Listable
  <2>2. IsList(<<>>) /\ ToSet(<<>>) = {}
    BY DEF IsList, ToSet
  <2>. HIDE DEF M
  <2>. QED BY <2>1, <2>2, MissingFine, FineSound
<1>. HIDE DEF missing
<1>2. Sound(<<T[n]>>, T, names, M) /\ (\A x \in ToSet(<<T[n]>>) : ~Ours(x))
  <2>1. Fine(T[n], T, M)
    BY PlainFine
  <2>. HIDE DEF M
  <2>2. IsList(<<T[n]>>) /\ ToSet(<<T[n]>>) = {T[n]}
    BY OneLine
  <2>. QED BY <2>1, <2>2, FineSound
<1>3. PICK add : add = missing \o <<T[n]>>
  OBVIOUS
<1>4. /\ Sound(add, T, names, M) /\ ToSet(add) = ToSet(missing) \cup ToSet(<<T[n]>>)
      /\ KeysIn(add) = KeysIn(missing) \cup KeysIn(<<T[n]>>)
  BY <1>1, <1>2, <1>3, SoundJoined
<1>5. \A x \in ToSet(add) : ~Ours(x)
  BY <1>1, <1>2, <1>4
<1>6. /\ st = [out |-> st.out, section |-> st.section, proxy |-> st.proxy, wrote |-> st.wrote]
      /\ st.wrote \subseteq ToSet(Autos) /\ Keys(st.wrote) \subseteq KeysIn(st.out)
  BY DEF Walked
<1>7. /\ st.wrote \subseteq wrote /\ wrote \subseteq ToSet(Autos)
      /\ Keys(wrote) \subseteq KeysIn(st.out) \cup KeysIn(add)
  <2>1. ToSet(Autos) = st.wrote \cup (ToSet(Autos) \ st.wrote)
    BY <1>6
  <2>2. Keys(ToSet(Autos)) = Keys(st.wrote) \cup Keys(ToSet(Autos) \ st.wrote)
    <3>1. PICK A, W : A = ToSet(Autos) /\ W = st.wrote
      OBVIOUS
    <3>2. A = W \cup (A \ W)
      BY <2>1, <3>1
    <3>3. Keys(A) = Keys(W) \cup Keys(A \ W)
      BY <3>2 DEF Keys
    <3>. QED BY <3>1, <3>3
  <2>3. CASE ends
    BY <1>1, <1>4, <1>6, <2>2, <2>3
  <2>4. CASE ~ends
    BY <1>4, <1>6, <2>4
  <2>. QED BY <2>3, <2>4
<1>8. st.section = GroupHdr => ToSet(Autos) \subseteq wrote
  BY DEF NamesOK
<1>9. Walked(T, names, n, [out |-> st.out \o add, proxy |-> st.proxy, wrote |-> wrote,
                           section |-> IF T[n].k = "head" THEN T[n].name ELSE st.section])
  <2>. HIDE DEF M, wrote
  <2>. QED BY <1>4, <1>5, <1>7, <1>8, GrownWalked DEF M
<1>10. Turn(st, T[n], names) = [out |-> st.out \o missing \o <<T[n]>>, proxy |-> st.proxy,
                                wrote |-> wrote, section |-> T[n].name]
  <2>1. PICK out, section, proxy, w :
          st = [out |-> out, section |-> section, proxy |-> proxy, wrote |-> w]
    BY <1>6
  <2>2. st.out = out /\ st.section = section /\ st.proxy = proxy /\ st.wrote = w
    BY <2>1
  <2>3. Turn(st, T[n], names) = AtHeader(st, T[n], names)
    BY DEF Turn
  <2>4. AtHeader(st, T[n], names) =
          [st EXCEPT !.out = st.out \o missing \o <<T[n]>>, !.wrote = wrote, !.section = T[n].name]
    BY DEF AtHeader, missing
  <2>. HIDE DEF wrote
  <2>. QED BY <2>1, <2>2, <2>3, <2>4
<1>11. st.out \o missing \o <<T[n]>> = st.out \o add
  <2>1. PICK X : X = ToSet(st.out) \cup ToSet(missing) \cup {T[n]}
    OBVIOUS
  <2>2. st.out \in Seq(X) /\ missing \in Seq(X) /\ <<T[n]>> \in Seq(X)
    BY <1>1, <2>1 DEF Walked, Sound, IsList
  <2>3. PICK s, t, u : s = st.out /\ t = missing /\ u = <<T[n]>>
    OBVIOUS
  <2>4. s \in Seq(X) /\ t \in Seq(X) /\ u \in Seq(X)
    BY <2>2, <2>3
  <2>5. (s \o t) \o u = s \o (t \o u)
    BY <2>4, ConcatAssociative
  <2>. QED BY <1>3, <2>3, <2>5
<1>. QED BY <1>9, <1>10, <1>11

\* A turn that puts out one line, which is fine, or none.
LEMMA LineTurn ==
  ASSUME NEW T, IsTemplate(T), NEW names, NEW n \in DOMAIN T, NEW st, Walked(T, names, n - 1, st),
         T[n].k # "head", NEW x, Fine(x, T, Listable(T, names)),
         T[n].k \in {"direct", "select", "test"} => Defines(x) /\ x.name = T[n].name,
         NEW wrote, st.wrote \subseteq wrote, wrote \subseteq ToSet(Autos),
         Keys(wrote) \subseteq Keys(st.wrote) \cup (IF Defines(x) THEN {policyNameKey(x.name)} ELSE {})
  PROVE  Walked(T, names, n, [out |-> Append(st.out, x), section |-> st.section,
                              proxy |-> st.proxy, wrote |-> wrote])
<1>. DEFINE M == Listable(T, names)
<1>1. IsList(<<x>>) /\ ToSet(<<x>>) = {x} /\ (Defines(x) => KeysIn(<<x>>) = {policyNameKey(x.name)})
  BY OneLine
<1>2. Sound(<<x>>, T, names, M) /\ \A y \in ToSet(<<x>>) : ~Ours(y)
  <2>. HIDE DEF M
  <2>1. \A y \in ToSet(<<x>>) : Fine(y, T, M)
    BY <1>1 DEF M
  <2>. QED BY <1>1, <2>1, FineSound
<1>3. Keys(st.wrote) \subseteq KeysIn(st.out)
  BY DEF Walked
<1>4. Keys(wrote) \subseteq KeysIn(st.out) \cup KeysIn(<<x>>)
  BY <1>1, <1>3
<1>5. T[n].k \in {"direct", "select", "test"} =>
        policyNameKey(T[n].name) \in KeysIn(st.out) \cup KeysIn(<<x>>)
  BY <1>1
<1>6. Walked(T, names, n, [out |-> st.out \o <<x>>, proxy |-> st.proxy, wrote |-> wrote,
                           section |-> IF T[n].k = "head" THEN T[n].name ELSE st.section])
  BY <1>2, <1>4, <1>5, GrownWalked
<1>7. st.out \o <<x>> = Append(st.out, x)
  <2>. DEFINE X == ToSet(st.out) \cup {x}
  <2>1. st.out \in Seq(X) /\ x \in X
    BY DEF Walked, Sound, IsList
  <2>. HIDE DEF X
  <2>. QED BY <2>1
<1>. QED BY <1>6, <1>7

\* A turn that puts out nothing.
LEMMA NoLineTurn ==
  ASSUME NEW T, IsTemplate(T), NEW names, NEW n \in DOMAIN T, NEW st, Walked(T, names, n - 1, st),
         T[n].k # "head",
         T[n].k \in {"direct", "select", "test"} => policyNameKey(T[n].name) \in KeysIn(st.out)
  PROVE  Walked(T, names, n, st)
<1>1. Sound(<<>>, T, names, Listable(T, names)) /\ \A x \in ToSet(<<>>) : ~Ours(x)
  <2>1. IsList(<<>>) /\ ToSet(<<>>) = {}
    BY DEF IsList, ToSet
  <2>. QED BY <2>1, FineSound
<1>2. st.wrote \subseteq ToSet(Autos) /\ Keys(st.wrote) \subseteq KeysIn(st.out)
  BY DEF Walked
<1>3. Walked(T, names, n, [out |-> st.out \o <<>>, proxy |-> st.proxy, wrote |-> st.wrote,
                           section |-> IF T[n].k = "head" THEN T[n].name ELSE st.section])
  BY <1>1, <1>2, GrownWalked
<1>4. st.out \o <<>> = st.out
  <2>1. st.out \in Seq(ToSet(st.out))
    BY DEF Walked, Sound, IsList
  <2>. QED BY <2>1
<1>5. st = [out |-> st.out, proxy |-> st.proxy, wrote |-> st.wrote, section |-> st.section]
  BY DEF Walked
<1>. QED BY <1>3, <1>4, <1>5

\* The line of a remote policy goes; the first makes room for our lines.
LEMMA RemoteTurn ==
  ASSUME NEW T, IsTemplate(T), NEW names, NamesOK(names), NEW n \in DOMAIN T,
         NEW st, Walked(T, names, n - 1, st), SectionOf(T, n) \in ProxyHdrs,
         T[n].k \notin {"managed", "head", "direct"}
  PROVE  Walked(T, names, n, AtRemote(st, names))
<1>1. T[n].k \notin {"direct", "select", "test"}
  BY LineKinds DEF ProxyHdrs, GroupHdrs, ProxyHdr, GroupHdr
<1>2. CASE st.proxy
  BY <1>1, <1>2, NoLineTurn DEF AtRemote
<1>3. CASE ~st.proxy
  <2>. DEFINE P == ProxyList(names)
              M == Listable(T, names)
  <2>1. PICK out : out = st.out \o P
    OBVIOUS
  <2>2. Walked(T, names, n, st)
    BY <1>1, NoLineTurn
  <2>3. Sound(P, T, names, M)
    BY ProxySound
  <2>4. Sound(st.out, T, names, M) /\ \A x \in ToSet(st.out) : ~Ours(x)
    BY <1>3, <2>2 DEF Walked
  <2>. HIDE DEF P, M
  <2>5. Sound(out, T, names, M) /\ ToSet(out) = ToSet(st.out) \cup ToSet(P)
        /\ KeysIn(out) = KeysIn(st.out) \cup KeysIn(P)
    BY <2>1, <2>3, <2>4, SoundJoined
  <2>6. AtRemote(st, names) = [out |-> out, section |-> st.section, proxy |-> TRUE, wrote |-> st.wrote]
    <3>1. PICK o, section, proxy, w :
            st = [out |-> o, section |-> section, proxy |-> proxy, wrote |-> w]
      BY <2>2 DEF Walked
    <3>2. st.out = o /\ st.section = section /\ st.wrote = w
      BY <3>1
    <3>3. AtRemote(st, names) = [st EXCEPT !.out = out, !.proxy = TRUE]
      BY <1>3, <2>1 DEF AtRemote, P
    <3>. QED BY <3>1, <3>2, <3>3
  <2>7. \E m \in DOMAIN T : SectionOf(T, m) \in ProxyHdrs /\ T[m].k \notin {"managed", "head", "direct"}
    OBVIOUS
  <2>8. /\ st.section = SectionOf(T, n + 1)
        /\ \A m \in 1..n : T[m].k \in {"direct", "select", "test"} => policyNameKey(T[m].name) \in KeysIn(out)
        /\ st.wrote \subseteq ToSet(Autos) /\ Keys(st.wrote) \subseteq KeysIn(out)
        /\ \A m \in 1..n : T[m] = Header(GroupHdr) => st.section = GroupHdr \/ ToSet(Autos) \subseteq st.wrote
    BY <2>2, <2>5 DEF Walked
  <2>9. ToSet(P) \subseteq ToSet(out)
    BY <2>5
  <2>10. Walked(T, names, n, [out |-> out, section |-> st.section, proxy |-> TRUE, wrote |-> st.wrote])
    BY <2>5, <2>7, <2>8, <2>9 DEF Walked, P, M
  <2>. QED BY <2>6, <2>10
<1>. QED BY <1>2, <1>3

\* A group: its own automatic ones are rewritten, and put out once.
LEMMA GroupTurn ==
  ASSUME NEW T, IsTemplate(T), NEW names, NamesOK(names), NEW n \in DOMAIN T,
         NEW st, Walked(T, names, n - 1, st), SectionOf(T, n) \in GroupHdrs,
         T[n].k \notin {"managed", "head"}
  PROVE  Walked(T, names, n, AtGroup(st, T[n], names))
<1>. DEFINE M == Listable(T, names)
<1>1. /\ T[n] = Ln(T[n].k, T[n].name, T[n].members) /\ IsList(T[n].members)
      /\ T[n].k \in {"text", "select", "test"}
      /\ T[n].k \in {"select", "test"} => policyNameKey(T[n].name) \in Spoken(T)
  BY LineKinds DEF ProxyHdrs, GroupHdrs, ProxyHdr, GroupHdr
<1>2. PICK k, name, members : k = T[n].k /\ name = T[n].name /\ members = T[n].members
  OBVIOUS
<1>3. T[n] = Ln(k, name, members) /\ IsList(members) /\ k \in {"text", "select", "test"}
  BY <1>1, <1>2
<1>4. PICK out, section, proxy, w :
        st = [out |-> out, section |-> section, proxy |-> proxy, wrote |-> w]
  BY DEF Walked
<1>5. st.out = out /\ st.section = section /\ st.proxy = proxy /\ st.wrote = w
  BY <1>4
<1>6. st.wrote \subseteq ToSet(Autos) /\ Keys(st.wrote) \subseteq KeysIn(st.out)
  BY DEF Walked
<1>. DEFINE auto == {a \in ToSet(Autos) : policyNameKey(a) = policyNameKey(name)}
<1>7. CASE auto = {}
  <2>1. PICK ms : /\ expandGroup(T[n], names) = Ln(k, name, ms)
                  /\ ToSet(ms) \subseteq Listable(T, names)
    BY <1>3, ExpandedLine DEF NamesOK
  <2>2. PICK x : x = Ln(k, name, ms)
    OBVIOUS
  <2>3. x.k = k /\ x.name = name /\ x.members = ms
    BY <2>2 DEF Ln
  <2>4. Fine(x, T, M)
    BY <1>1, <1>2, <1>3, <2>1, <2>3 DEF Fine, Defines
  <2>5. T[n].k \in {"direct", "select", "test"} => Defines(x) /\ x.name = T[n].name
    BY <1>2, <2>3 DEF Defines
  <2>6. AtGroup(st, T[n], names) = [st EXCEPT !.out = Append(st.out, x)]
    BY <1>2, <1>7, <2>1, <2>2 DEF AtGroup
  <2>. HIDE DEF M, auto
  <2>7. Walked(T, names, n, [out |-> Append(st.out, x), section |-> st.section,
                             proxy |-> st.proxy, wrote |-> st.wrote])
    BY <1>1, <1>6, <2>4, <2>5, LineTurn DEF M
  <2>. QED BY <1>4, <1>5, <2>6, <2>7
<1>8. CASE auto # {} /\ auto \subseteq st.wrote
  <2>1. AtGroup(st, T[n], names) = st
    BY <1>2, <1>8 DEF AtGroup
  <2>2. policyNameKey(name) \in KeysIn(st.out)
    BY <1>6, <1>8 DEF Keys
  <2>3. T[n].k # "head"
    OBVIOUS
  <2>. HIDE DEF auto, M
  <2>. QED BY <1>2, <2>1, <2>2, <2>3, NoLineTurn
<1>9. CASE auto # {} /\ ~(auto \subseteq st.wrote)
  <2>1. PICK x : x = Ln(k, name, names)
    OBVIOUS
  <2>2. x.k = k /\ x.name = name /\ x.members = names
    BY <2>1 DEF Ln
  <2>3. rewriteAutoGroup(T[n], names) = x
    BY <1>3, <2>1 DEF rewriteAutoGroup, Ln
  <2>. DEFINE wrote == st.wrote \cup auto
  <2>4. AtGroup(st, T[n], names) = [st EXCEPT !.out = Append(st.out, x), !.wrote = wrote]
    BY <1>2, <1>9, <2>3 DEF AtGroup
  <2>5. Fine(x, T, M)
    <3>1. ToSet(names) \subseteq M
      BY DEF Listable
    <3>. QED BY <1>1, <1>2, <1>3, <2>2, <3>1 DEF Fine, Defines
  <2>6. k \in {"select", "test"}
    <3>1. T[n].k = "text" => T[n].name = ""
      BY DEF IsTemplate
    <3>2. \A a \in ToSet(Autos) : policyNameKey(a) # policyNameKey("")
      BY AutosList, LowerAssumption DEF UrlTest, Smart, policyNameKey
    <3>. QED BY <1>2, <1>3, <1>9, <3>1, <3>2
  <2>7. Defines(x) /\ x.name = T[n].name
    BY <1>2, <2>2, <2>6 DEF Defines
  <2>8. /\ st.wrote \subseteq wrote /\ wrote \subseteq ToSet(Autos)
        /\ Keys(wrote) \subseteq Keys(st.wrote) \cup (IF Defines(x) THEN {policyNameKey(x.name)} ELSE {})
    BY <1>6, <2>2, <2>7 DEF Keys
  <2>. HIDE DEF M, wrote, auto
  <2>9. Walked(T, names, n, [out |-> Append(st.out, x), section |-> st.section,
                             proxy |-> st.proxy, wrote |-> wrote])
    BY <1>1, <2>5, <2>7, <2>8, LineTurn DEF M
  <2>. QED BY <1>4, <1>5, <2>4, <2>9
<1>. QED BY <1>7, <1>8, <1>9

\* Every turn keeps the invariant of the walk.
LEMMA TurnWalked ==
  ASSUME NEW T, IsTemplate(T), NEW names, NamesOK(names), NEW n \in DOMAIN T,
         NEW st, Walked(T, names, n - 1, st)
  PROVE  Walked(T, names, n, Turn(st, T[n], names))
<1>1. st.section = SectionOf(T, n)
  <2>1. (n - 1) + 1 = n
    BY TemplateLines
  <2>. QED BY <2>1 DEF Walked
<1>2. CASE T[n].k = "head"
  BY <1>2, HeadTurn
<1>3. CASE T[n].k # "head" /\ st.section \in ProxyHdrs /\ T[n].k \notin {"managed", "direct"}
  <2>1. Turn(st, T[n], names) = AtRemote(st, names)
    BY <1>3 DEF Turn, ProxyHdrs, GroupHdrs, ProxyHdr, GroupHdr
  <2>. QED BY <1>1, <1>3, <2>1, RemoteTurn
<1>4. CASE T[n].k # "head" /\ st.section \in GroupHdrs /\ T[n].k # "managed"
  <2>1. Turn(st, T[n], names) = AtGroup(st, T[n], names)
    BY <1>4 DEF Turn, ProxyHdrs, GroupHdrs, ProxyHdr, GroupHdr
  <2>. QED BY <1>1, <1>4, <2>1, GroupTurn
<1>5. CASE /\ T[n].k # "head" /\ ~(st.section \in ProxyHdrs /\ T[n].k \notin {"managed", "direct"})
           /\ ~(st.section \in GroupHdrs /\ T[n].k # "managed")
  <2>1. Turn(st, T[n], names) = [st EXCEPT !.out = Append(st.out, T[n])]
    BY <1>5 DEF Turn
  <2>2. T[n].k \in {"managed", "text", "direct"}
    BY <1>1, <1>5, LineKinds
  <2>3. Fine(T[n], T, Listable(T, names))
    BY <2>2, PlainFine
  <2>4. T[n].k \in {"direct", "select", "test"} => Defines(T[n])
    BY DEF Defines
  <2>5. st.wrote \subseteq ToSet(Autos)
    BY DEF Walked
  <2>6. Walked(T, names, n, [out |-> Append(st.out, T[n]), section |-> st.section,
                             proxy |-> st.proxy, wrote |-> st.wrote])
    BY <1>5, <2>3, <2>4, <2>5, LineTurn
  <2>7. PICK out, section, proxy, w :
          st = [out |-> out, section |-> section, proxy |-> proxy, wrote |-> w]
    BY DEF Walked
  <2>8. st.out = out /\ st.section = section /\ st.proxy = proxy /\ st.wrote = w
    BY <2>7
  <2>. QED BY <2>1, <2>6, <2>7, <2>8
<1>. QED BY <1>2, <1>3, <1>4, <1>5

\* What the loop leaves.
LEMMA WalkDone ==
  ASSUME NEW T, IsTemplate(T), NEW names, NamesOK(names)
  PROVE  Walked(T, names, Len(T), Walk(T, names))
<1>1. PICK g : /\ g[0] = Begin /\ Walk(T, names) = g[Len(T)]
               /\ \A n \in 1..Len(T) : g[n] = Turn(g[n - 1], T[n], names)
  BY WalkTurns
<1>2. DOMAIN T = 1..Len(T) /\ Len(T) \in Nat
  BY TemplateLines
<1>. DEFINE G == {n \in 0..Len(T) : Walked(T, names, n, g[n])}
<1>3. 0 \in G
  BY <1>1, <1>2, BeginWalked
<1>4. ASSUME NEW n \in G, n < Len(T) PROVE n + 1 \in G
  <2>1. n + 1 \in DOMAIN T /\ (n + 1) - 1 = n /\ n + 1 \in 0..Len(T)
    BY <1>2, <1>4
  <2>2. Walked(T, names, (n + 1) - 1, g[n])
    BY <2>1
  <2>3. PICK m : m = n + 1
    OBVIOUS
  <2>4. m \in DOMAIN T /\ Walked(T, names, m - 1, g[n])
    BY <2>1, <2>2, <2>3
  <2>5. Walked(T, names, m, Turn(g[n], T[m], names))
    BY <2>4, TurnWalked
  <2>6. g[m] = Turn(g[n], T[m], names)
    BY <1>1, <1>2, <2>1, <2>3
  <2>. QED BY <2>1, <2>3, <2>5, <2>6
<1>5. G \in SUBSET Nat
  BY <1>2
<1>. HIDE DEF G
<1>6. 0..Len(T) \subseteq G
  BY <1>2, <1>3, <1>4, <1>5, CountFromZero
<1>7. Len(T) \in 0..Len(T)
  BY <1>2
<1>. QED BY <1>1, <1>6, <1>7 DEF G

-----------------------------------------------------------------------------
(* The profile                                                             *)

\* Direct and Block.
LEMMA BuiltinFine ==
  ASSUME NEW T, NEW names, NEW M
  PROVE  /\ Sound(Builtin, T, names, M) /\ \A x \in ToSet(Builtin) : ~Ours(x)
         /\ KeysIn(Builtin) = Keys({"Direct", "Block"})
<1>. DEFINE direct == Ln("direct", "Direct", <<>>)
            block == Ln("direct", "Block", <<>>)
<1>1. ToSet(Builtin) = {direct, block} /\ IsList(Builtin)
  BY DEF ToSet, Builtin, IsList
<1>2. ToSet(<<>>) = {}
  BY DEF ToSet
<1>3. Fine(direct, T, M) /\ Fine(block, T, M)
  BY <1>2 DEF Fine, Defines, Ln, Spoken, Reserved, Keys
<1>4. KeysIn(Builtin) = Keys({"Direct", "Block"})
  <2>1. direct.name = "Direct" /\ block.name = "Block" /\ Defines(direct) /\ Defines(block)
    BY DEF Ln, Defines
  <2>. HIDE DEF direct, block
  <2>. QED BY <1>1, <2>1 DEF KeysIn, Keys
<1>. HIDE DEF direct, block
<1>5. \A x \in ToSet(Builtin) : Fine(x, T, M)
  BY <1>1, <1>3
<1>. QED BY <1>1, <1>4, <1>5, FineSound

\* A header, the managed line, or text.
LEMMA MarkFine ==
  ASSUME NEW T, NEW M, NEW k \in {"managed", "head", "text"}, NEW name
  PROVE  Fine(Ln(k, name, <<>>), T, M)
<1>1. ToSet(<<>>) = {}
  BY DEF ToSet
<1>2. PICK x : x = Ln(k, name, <<>>)
  OBVIOUS
<1>3. x.k = k /\ x.members = <<>>
  BY <1>2 DEF Ln
<1>. QED BY <1>1, <1>2, <1>3 DEF Fine, Defines

\* The section RewriteSurge adds when the template made no room.
LEMMA AddedProxies ==
  ASSUME NEW T, NEW names, NamesOK(names), NEW M
  PROVE  LET proxies == <<Header(ProxyHdr)>> \o Builtin \o ProxyList(names)
         IN /\ Sound(proxies, T, names, M) /\ ToSet(ProxyList(names)) \subseteq ToSet(proxies)
            /\ Keys(ToSet(names)) \cup Keys({"Direct", "Block"}) \subseteq KeysIn(proxies)
<1>. DEFINE h == <<Header(ProxyHdr)>>
            P == ProxyList(names)
<1>1. Sound(h, T, names, M) /\ \A x \in ToSet(h) : ~Ours(x)
  <2>1. IsList(h) /\ ToSet(h) = {Header(ProxyHdr)}
    BY OneLine
  <2>2. Fine(Header(ProxyHdr), T, M)
    BY MarkFine DEF Header
  <2>. HIDE DEF h
  <2>. QED BY <2>1, <2>2, FineSound
<1>2. /\ Sound(Builtin, T, names, M) /\ \A x \in ToSet(Builtin) : ~Ours(x)
      /\ KeysIn(Builtin) = Keys({"Direct", "Block"})
  BY BuiltinFine
<1>3. Sound(P, T, names, M) /\ Keys(ToSet(names)) = KeysIn(P)
  BY ProxySound
<1>. HIDE DEF h, P
<1>4. PICK hb : hb = h \o Builtin
  OBVIOUS
<1>5. /\ Sound(hb, T, names, M) /\ ToSet(hb) = ToSet(h) \cup ToSet(Builtin)
      /\ KeysIn(hb) = KeysIn(h) \cup KeysIn(Builtin)
  BY <1>1, <1>2, <1>4, SoundJoined
<1>6. \A x \in ToSet(hb) : ~Ours(x)
  BY <1>1, <1>2, <1>5
<1>7. PICK s : s = hb \o P
  OBVIOUS
<1>8. /\ Sound(s, T, names, M) /\ ToSet(s) = ToSet(hb) \cup ToSet(P)
      /\ KeysIn(s) = KeysIn(hb) \cup KeysIn(P)
  BY <1>3, <1>5, <1>6, <1>7, SoundJoined
<1>9. ToSet(P) \subseteq ToSet(s) /\ Keys(ToSet(names)) \cup Keys({"Direct", "Block"}) \subseteq KeysIn(s)
  BY <1>2, <1>3, <1>5, <1>8
<1>10. s = h \o Builtin \o P
  BY <1>4, <1>7
<1>. QED BY <1>8, <1>9, <1>10 DEF h, P

\* What a template lists, but for the placeholder: it has it, or it is unresolved.
LEMMA MembersKnown ==
  ASSUME NEW T, NEW x \in Members(T), x # "oixCloud",
         NEW K, Unresolved(T) \subseteq K, Keys(Defined(T)) \subseteq K,
         (\A m \in DOMAIN T : SectionOf(T, m) \in ProxyHdrs => T[m].k \in {"managed", "head", "direct"})
           => Keys({"Direct", "Block"}) \subseteq K
  PROVE  policyNameKey(x) \in K
<1>. DEFINE bare == \A m \in DOMAIN T :
                      SectionOf(T, m) \in ProxyHdrs => T[m].k \in {"managed", "head", "direct"}
            room == Header(GroupHdr) \in ToSet(T) \/ SectionOf(T, Len(T) + 1) \in GroupHdrs
            has == Defined(T) \cup (IF bare THEN {"Direct", "Block"} ELSE {})
            lists == Members(T) \cup (IF room THEN {} ELSE ToSet(Autos))
<1>1. Unresolved(T) = (Keys(lists) \ Keys(has)) \cup Keys(Remote(T))
  BY DEF Unresolved
<1>2. policyNameKey(x) \in Keys(lists)
  BY DEF Keys
<1>3. Keys(has) \subseteq K
  BY DEF Keys
<1>. HIDE DEF lists, has
<1>. QED BY <1>1, <1>2, <1>3

\* The automatic groups, where the template has no room for them.
LEMMA AutosKnown ==
  ASSUME NEW T, ~(Header(GroupHdr) \in ToSet(T) \/ SectionOf(T, Len(T) + 1) \in GroupHdrs),
         NEW x \in ToSet(Autos), NEW K, Unresolved(T) \subseteq K, Keys(Defined(T)) \subseteq K,
         (\A m \in DOMAIN T : SectionOf(T, m) \in ProxyHdrs => T[m].k \in {"managed", "head", "direct"})
           => Keys({"Direct", "Block"}) \subseteq K
  PROVE  policyNameKey(x) \in K
<1>. DEFINE bare == \A m \in DOMAIN T :
                      SectionOf(T, m) \in ProxyHdrs => T[m].k \in {"managed", "head", "direct"}
            room == Header(GroupHdr) \in ToSet(T) \/ SectionOf(T, Len(T) + 1) \in GroupHdrs
            has == Defined(T) \cup (IF bare THEN {"Direct", "Block"} ELSE {})
            lists == Members(T) \cup (IF room THEN {} ELSE ToSet(Autos))
<1>1. Unresolved(T) = (Keys(lists) \ Keys(has)) \cup Keys(Remote(T))
  BY DEF Unresolved
<1>2. policyNameKey(x) \in Keys(lists)
  BY DEF Keys
<1>3. Keys(has) \subseteq K
  BY DEF Keys
<1>. HIDE DEF lists, has
<1>. QED BY <1>1, <1>2, <1>3

\* RewriteSurge: a profile as good as its template.
LEMMA RewriteResolves ==
  ASSUME NEW T, IsTemplate(T), NEW names, NamesOK(names), NEW fixed, fixed \subseteq Apart(names, T)
  PROVE  Resolves(RewriteSurge(T, names), names, fixed, T)
<1>. DEFINE M == Listable(T, names)
            P == ProxyList(names)
<1>1. PICK st : st = Walk(T, names)
  OBVIOUS
<1>2. Walked(T, names, Len(T), st)
  BY <1>1, WalkDone
<1>3. PICK groups : groups = IF st.section \in GroupHdrs /\ names # <<>>
                             THEN missingAutoGroups(names, st.wrote) ELSE <<>>
  OBVIOUS
<1>4. /\ Sound(groups, T, names, M) /\ \A x \in ToSet(groups) : ~Ours(x)
      /\ st.section \in GroupHdrs => KeysIn(groups) = Keys(ToSet(Autos) \ st.wrote)
  <2>1. ToSet(names) \subseteq M
    BY DEF Listable
  <2>2. IsList(<<>>) /\ ToSet(<<>>) = {}
    BY DEF IsList, ToSet
  <2>. HIDE DEF M
  <2>3. CASE st.section \in GroupHdrs
    <3>1. groups = missingAutoGroups(names, st.wrote)
      BY <1>3, <2>3 DEF NamesOK
    <3>. QED BY <2>1, <3>1, MissingFine
  <2>4. CASE st.section \notin GroupHdrs
    <3>1. groups = <<>>
      BY <1>3, <2>4
    <3>. QED BY <2>2, <2>4, <3>1, FineSound
  <2>. QED BY <2>3, <2>4
<1>5. PICK proxies : proxies = IF st.proxy \/ names = <<>> THEN <<>>
                               ELSE <<Header(ProxyHdr)>> \o Builtin \o ProxyList(names)
  OBVIOUS
<1>6. /\ Sound(proxies, T, names, M)
      /\ IF st.proxy THEN \A x \in ToSet(proxies) : ~Ours(x)
         ELSE ToSet(P) \subseteq ToSet(proxies) /\ Keys({"Direct", "Block"}) \subseteq KeysIn(proxies)
  <2>1. CASE st.proxy
    <3>1. IsList(<<>>) /\ ToSet(<<>>) = {}
      BY DEF IsList, ToSet
    <3>2. proxies = <<>>
      BY <1>5, <2>1
    <3>. HIDE DEF M
    <3>. QED BY <2>1, <3>1, <3>2, FineSound
  <2>2. CASE ~st.proxy
    <3>1. proxies = <<Header(ProxyHdr)>> \o Builtin \o ProxyList(names)
      BY <1>5, <2>2 DEF NamesOK
    <3>. HIDE DEF M
    <3>. QED BY <2>2, <3>1, AddedProxies
  <2>. QED BY <2>1, <2>2
<1>7. PICK base : base = st.out \o groups
  OBVIOUS
<1>8. /\ Sound(base, T, names, M) /\ ToSet(base) = ToSet(st.out) \cup ToSet(groups)
      /\ KeysIn(base) = KeysIn(st.out) \cup KeysIn(groups)
  <2>1. Sound(st.out, T, names, M)
    BY <1>2 DEF Walked
  <2>. HIDE DEF M
  <2>. QED BY <1>4, <1>7, <2>1, SoundJoined
<1>9. PICK body : body = base \o proxies
  OBVIOUS
<1>10. IF st.proxy THEN ToSet(P) \subseteq ToSet(base) ELSE \A x \in ToSet(base) : ~Ours(x)
  BY <1>2, <1>4, <1>8 DEF Walked
<1>11. /\ Sound(body, T, names, M) /\ ToSet(body) = ToSet(base) \cup ToSet(proxies)
       /\ KeysIn(body) = KeysIn(base) \cup KeysIn(proxies)
  <2>. HIDE DEF M
  <2>1. (\A x \in ToSet(base) : ~Ours(x)) \/ (\A x \in ToSet(proxies) : ~Ours(x))
    BY <1>6, <1>10
  <2>. QED BY <1>6, <1>8, <1>9, <2>1, SoundJoined
<1>12. PICK s : s = IF body # <<>> /\ Head(body) = Managed THEN body ELSE <<Managed>> \o body
  OBVIOUS
<1>13. Sound(s, T, names, M) /\ ToSet(body) \subseteq ToSet(s) /\ KeysIn(body) \subseteq KeysIn(s)
  <2>1. Sound(<<Managed>>, T, names, M) /\ \A x \in ToSet(<<Managed>>) : ~Ours(x)
    <3>1. IsList(<<Managed>>) /\ ToSet(<<Managed>>) = {Managed}
      BY OneLine
    <3>2. Fine(Managed, T, M)
      BY MarkFine DEF Managed
    <3>. HIDE DEF M
    <3>. QED BY <3>1, <3>2, FineSound
  <2>. HIDE DEF M
  <2>2. /\ Sound(<<Managed>> \o body, T, names, M)
        /\ ToSet(<<Managed>> \o body) = ToSet(<<Managed>>) \cup ToSet(body)
        /\ KeysIn(<<Managed>> \o body) = KeysIn(<<Managed>>) \cup KeysIn(body)
    BY <1>11, <2>1, SoundJoined
  <2>3. CASE s = body
    BY <1>11, <2>3
  <2>4. CASE s = <<Managed>> \o body
    BY <2>2, <2>4
  <2>. QED BY <1>12, <2>3, <2>4
<1>14. ToSet(P) \subseteq ToSet(s)
  BY <1>6, <1>10, <1>11, <1>13
<1>15. RewriteSurge(T, names) = s
  BY <1>1, <1>3, <1>5, <1>7, <1>9, <1>12 DEF RewriteSurge
<1>16. KeysIn(st.out) \cup KeysIn(groups) \cup KeysIn(proxies) \subseteq KeysIn(s)
  BY <1>8, <1>11, <1>13
<1>17. ASSUME NEW x \in ToSet(names) PROVE policyNameKey(x) \in KeysIn(s)
  <2>1. policyNameKey(x) \in KeysIn(P)
    BY ProxySound, KeysParts
  <2>. QED BY <1>14, <2>1 DEF KeysIn
<1>. DEFINE K == KeysIn(s) \cup Unresolved(T)
<1>18. Unresolved(T) \subseteq K /\ Keys(Defined(T)) \subseteq K
  <2>1. ASSUME NEW m \in DOMAIN T, Defines(T[m]) PROVE policyNameKey(T[m].name) \in K
    <3>1. T[m].k \in {"direct", "select", "test"} \/ T[m].k = "remote"
      BY <2>1, LineKinds DEF Defines
    <3>2. m \in 1..Len(T)
      BY TemplateLines
    <3>3. T[m].k \in {"direct", "select", "test"} => policyNameKey(T[m].name) \in KeysIn(st.out)
      BY <1>2, <3>2 DEF Walked
    <3>4. T[m].k = "remote" => policyNameKey(T[m].name) \in Keys(Remote(T))
      BY DEF Keys, Remote
    <3>5. Keys(Remote(T)) \subseteq Unresolved(T)
      BY DEF Unresolved
    <3>. QED BY <1>16, <3>1, <3>3, <3>4, <3>5
  <2>. HIDE DEF K
  <2>2. Keys(Defined(T)) \subseteq K
    BY <2>1 DEF Keys, Defined
  <2>. QED BY <2>2 DEF K
<1>19. (\A m \in DOMAIN T : SectionOf(T, m) \in ProxyHdrs => T[m].k \in {"managed", "head", "direct"})
         => Keys({"Direct", "Block"}) \subseteq K
  <2>. SUFFICES ASSUME \A m \in DOMAIN T : SectionOf(T, m) \in ProxyHdrs =>
                                              T[m].k \in {"managed", "head", "direct"}
                PROVE  Keys({"Direct", "Block"}) \subseteq K
    OBVIOUS
  <2>1. ~st.proxy
    BY <1>2 DEF Walked
  <2>. QED BY <1>6, <1>16, <2>1
<1>20. ASSUME Header(GroupHdr) \in ToSet(T) \/ SectionOf(T, Len(T) + 1) \in GroupHdrs,
              NEW x \in ToSet(Autos)
       PROVE  policyNameKey(x) \in KeysIn(s)
  <2>1. Keys(st.wrote) \subseteq KeysIn(st.out) /\ st.section = SectionOf(T, Len(T) + 1)
    BY <1>2 DEF Walked
  <2>2. x \in st.wrote => policyNameKey(x) \in KeysIn(s)
    BY <1>16, <2>1, KeysParts
  <2>3. st.section \in GroupHdrs /\ x \notin st.wrote => policyNameKey(x) \in KeysIn(s)
    <3>1. x \notin st.wrote => policyNameKey(x) \in Keys(ToSet(Autos) \ st.wrote)
      BY <1>20 DEF Keys
    <3>. QED BY <1>4, <1>16, <3>1
  <2>4. CASE Header(GroupHdr) \in ToSet(T)
    <3>1. PICK m \in DOMAIN T : T[m] = Header(GroupHdr)
      BY <2>4 DEF ToSet
    <3>2. m \in 1..Len(T)
      BY TemplateLines
    <3>3. st.section = GroupHdr \/ ToSet(Autos) \subseteq st.wrote
      BY <1>2, <3>1, <3>2 DEF Walked
    <3>. QED BY <1>20, <2>2, <2>3, <3>3 DEF GroupHdrs
  <2>. QED BY <1>20, <2>1, <2>2, <2>3, <2>4
<1>21. ASSUME NEW x \in M PROVE Known(x, T, KeysIn(s))
  <2>1. CASE x \in ToSet(names)
    BY <1>17, <2>1 DEF Known
  <2>2. CASE x \in Members(T) /\ x # "oixCloud"
    <3>. HIDE DEF K
    <3>1. policyNameKey(x) \in K
      BY <1>18, <1>19, <2>2, MembersKnown
    <3>. QED BY <2>2, <3>1 DEF Known, K
  <2>3. CASE x \in ToSet(Autos)
    <3>1. x # "oixCloud"
      BY <2>3, AutosList DEF UrlTest, Smart
    <3>2. CASE Header(GroupHdr) \in ToSet(T) \/ SectionOf(T, Len(T) + 1) \in GroupHdrs
      BY <1>20, <2>3, <3>2 DEF Known
    <3>3. CASE ~(Header(GroupHdr) \in ToSet(T) \/ SectionOf(T, Len(T) + 1) \in GroupHdrs)
      <4>. HIDE DEF K
      <4>1. policyNameKey(x) \in K
        BY <1>18, <1>19, <2>3, <3>3, AutosKnown
      <4>. QED BY <3>1, <4>1 DEF Known, K
    <3>. QED BY <3>2, <3>3
  <2>. QED BY <2>1, <2>2, <2>3 DEF Listable
<1>22. Resolves(s, names, fixed, T)
  <2>. HIDE DEF M
  <2>. QED BY <1>13, <1>14, <1>21, SoundResolves
<1>. QED BY <1>15, <1>22

\* minimalSurge lists what it defines.
LEMMA MinimalResolves ==
  ASSUME NEW T, NEW names, NamesOK(names), NEW fixed, fixed \subseteq Apart(names, T)
  PROVE  Resolves(minimalSurge(names), names, fixed, T)
<1>. DEFINE M == ToSet(names) \cup {"Direct"}
            P == ProxyList(names)
            group == Ln("select", "Proxy", Append(names, "Direct"))
            first == <<Managed, Header("[General]"), Header(ProxyHdr)>>
            last == <<Header(GroupHdr), group, Header("[Rule]"), Ln("text", "", <<>>)>>
<1>1. Fine(group, T, M)
  <2>1. PICK ms : ms = Append(names, "Direct")
    OBVIOUS
  <2>2. ToSet(ms) \subseteq M
    <3>1. names \in Seq(M) /\ "Direct" \in M
      BY DEF NamesOK, IsList
    <3>. HIDE DEF M
    <3>2. ms \in Seq(M)
      BY <2>1, <3>1
    <3>. QED BY <3>2 DEF ToSet
  <2>3. group = Ln("select", "Proxy", ms)
    BY <2>1
  <2>4. group.k = "select" /\ group.name = "Proxy" /\ group.members = ms
    BY <2>3 DEF Ln
  <2>5. policyNameKey("Proxy") \in Spoken(T)
    BY DEF Spoken, Reserved, Keys
  <2>. HIDE DEF group, M
  <2>. QED BY <2>2, <2>4, <2>5 DEF Fine
<1>2. /\ Fine(Managed, T, M) /\ Fine(Ln("text", "", <<>>), T, M)
      /\ Fine(Header("[General]"), T, M) /\ Fine(Header(ProxyHdr), T, M)
      /\ Fine(Header(GroupHdr), T, M) /\ Fine(Header("[Rule]"), T, M)
  <2>. HIDE DEF M
  <2>. QED BY MarkFine DEF Managed, Header
<1>. HIDE DEF group, M
<1>3. Sound(first, T, names, M) /\ \A x \in ToSet(first) : ~Ours(x)
  <2>1. PICK a, b, c : a = Managed /\ b = Header("[General]") /\ c = Header(ProxyHdr)
    OBVIOUS
  <2>2. first = <<a, b, c>>
    BY <2>1
  <2>3. ToSet(<<a, b, c>>) = {a, b, c} /\ IsList(<<a, b, c>>)
    BY DEF ToSet, IsList
  <2>4. \A x \in ToSet(first) : Fine(x, T, M)
    BY <1>2, <2>1, <2>2, <2>3
  <2>. QED BY <2>2, <2>3, <2>4, FineSound
<1>4. Sound(last, T, names, M) /\ \A x \in ToSet(last) : ~Ours(x)
  <2>1. PICK a, b, c, d : a = Header(GroupHdr) /\ b = group /\ c = Header("[Rule]") /\ d = Ln("text", "", <<>>)
    OBVIOUS
  <2>2. last = <<a, b, c, d>>
    BY <2>1
  <2>3. ToSet(<<a, b, c, d>>) = {a, b, c, d} /\ IsList(<<a, b, c, d>>)
    BY DEF ToSet, IsList
  <2>4. \A x \in ToSet(last) : Fine(x, T, M)
    BY <1>1, <1>2, <2>1, <2>2, <2>3
  <2>. QED BY <2>2, <2>3, <2>4, FineSound
<1>5. /\ Sound(Builtin, T, names, M) /\ \A x \in ToSet(Builtin) : ~Ours(x)
      /\ KeysIn(Builtin) = Keys({"Direct", "Block"})
  BY BuiltinFine
<1>6. Sound(P, T, names, M) /\ Keys(ToSet(names)) = KeysIn(P)
  BY ProxySound
<1>. HIDE DEF first, last, P
<1>7. PICK fb : fb = first \o Builtin
  OBVIOUS
<1>8. /\ Sound(fb, T, names, M) /\ ToSet(fb) = ToSet(first) \cup ToSet(Builtin)
      /\ KeysIn(fb) = KeysIn(first) \cup KeysIn(Builtin)
  BY <1>3, <1>5, <1>7, SoundJoined
<1>9. \A x \in ToSet(fb) : ~Ours(x)
  BY <1>3, <1>5, <1>8
<1>10. PICK fbp : fbp = fb \o P
  OBVIOUS
<1>11. /\ Sound(fbp, T, names, M) /\ ToSet(fbp) = ToSet(fb) \cup ToSet(P)
       /\ KeysIn(fbp) = KeysIn(fb) \cup KeysIn(P)
  BY <1>6, <1>8, <1>9, <1>10, SoundJoined
<1>12. PICK s : s = fbp \o last
  OBVIOUS
<1>13. /\ Sound(s, T, names, M) /\ ToSet(s) = ToSet(fbp) \cup ToSet(last)
       /\ KeysIn(s) = KeysIn(fbp) \cup KeysIn(last)
  BY <1>4, <1>11, <1>12, SoundJoined
<1>14. ToSet(P) \subseteq ToSet(s) /\ \A x \in M : Known(x, T, KeysIn(s))
  <2>1. Keys(ToSet(names)) \subseteq KeysIn(s) /\ Keys({"Direct", "Block"}) \subseteq KeysIn(s)
    BY <1>5, <1>6, <1>8, <1>11, <1>13
  <2>2. \A x \in M : policyNameKey(x) \in KeysIn(s)
    BY <2>1 DEF M, Keys
  <2>. QED BY <1>11, <1>13, <2>2 DEF Known
<1>15. minimalSurge(names) = s
  BY <1>7, <1>10, <1>12 DEF minimalSurge, first, last, P, group
<1>16. Resolves(s, names, fixed, T)
  BY <1>13, <1>14, SoundResolves DEF P
<1>. QED BY <1>15, <1>16

\* SurgeConfig, for every template and every list of different names: each listener
\* is in the profile once, as a local proxy; one whose name is apart from the others,
\* from the groups of the template and from the reserved names, is alone under it; no
\* remote policy is there; and a group lists nothing that is missing but what the
\* template leaves unresolved (RewriteSurge, expandGroup, missingAutoGroups,
\* minimalSurge).
THEOREM ConfigResolves ==
  ASSUME NEW T, IsTemplate(T), NEW names, NamesOK(names), NEW fixed, fixed \subseteq Apart(names, T)
  PROVE  Resolves(SurgeConfig(names, T), names, fixed, T)
BY RewriteResolves, MinimalResolves DEF SurgeConfig

-----------------------------------------------------------------------------
(* The names Select gives                                                  *)

LEMMA ShortDistinct == Distinct(<<>>) /\ \A x : Distinct(<<x>>)
BY DEF Distinct

\* One by one, some left out: nothing twice, as before.
LEMMA EachDistinct ==
  ASSUME NEW s, IsList(s), Distinct(s), NEW C \in SUBSET DOMAIN s
  PROVE  LET t == FlattenSeq([k \in DOMAIN s |-> IF k \in C THEN <<s[k]>> ELSE <<>>])
         IN Distinct(t) /\ IsList(t) /\ ToSet(t) = {s[k] : k \in C}
<1>. DEFINE ss == [k \in DOMAIN s |-> IF k \in C THEN <<s[k]>> ELSE <<>>]
<1>1. DOMAIN s = 1..Len(s) /\ Len(s) \in Nat /\ \A k \in DOMAIN s : s[k] \in ToSet(s)
  BY DEF IsList, ToSet
<1>2. \A k \in 1..Len(s) : ss[k] \in Seq(ToSet(s))
  BY <1>1
<1>3. ss \in Seq(Seq(ToSet(s)))
  BY <1>1, <1>2
<1>4. \A k \in DOMAIN s : ToSet(ss[k]) = IF k \in C THEN {s[k]} ELSE {}
  BY DEF ToSet
<1>5. \A k \in DOMAIN s : Distinct(ss[k])
  <2>1. \A k \in DOMAIN s : ss[k] = <<s[k]>> \/ ss[k] = <<>>
    OBVIOUS
  <2>. HIDE DEF ss
  <2>. QED BY <2>1, ShortDistinct
<1>6. DOMAIN ss = DOMAIN s
  OBVIOUS
<1>. HIDE DEF ss
<1>7. \A j, k \in DOMAIN ss : j # k => ToSet(ss[j]) \cap ToSet(ss[k]) = {}
  BY <1>4, <1>6 DEF Distinct
<1>8. PICK t : t = FlattenSeq(ss)
  OBVIOUS
<1>9. Distinct(t)
  BY <1>3, <1>5, <1>6, <1>7, <1>8, FlattenDistinct
<1>10. t \in Seq(ToSet(s)) /\ ToSet(t) = UNION {ToSet(ss[k]) : k \in DOMAIN s}
  BY <1>3, <1>6, <1>8, FlattenToSet
<1>11. UNION {ToSet(ss[k]) : k \in DOMAIN s} = {s[k] : k \in C}
  BY <1>4
<1>12. IsList(t)
  BY <1>10, SubList
<1>. QED BY <1>8, <1>9, <1>10, <1>11, <1>12 DEF ss

\* A filter lets no node through twice.
LEMMA FilterDistinct ==
  ASSUME NEW ns, IsList(ns), Distinct(ns), NEW regs \in Filters PROVE Distinct(Filter(ns, regs))
<1>. DEFINE Matched(k, n) == n.name \in regs[k] /\ \A j \in 1..(k - 1) : n.name \notin regs[j]
            Found(k) == FlattenSeq([m \in DOMAIN ns |-> IF Matched(k, ns[m]) THEN <<ns[m]>> ELSE <<>>])
            turns == [k \in DOMAIN regs |-> Found(k)]
<1>1. DOMAIN regs = 1..Len(regs) /\ Len(regs) \in Nat
  BY ProgramAssumption DEF ProgramAssumption
<1>2. ASSUME NEW k
      PROVE  Distinct(Found(k)) /\ Found(k) \in Seq(ToSet(ns)) /\ \A x \in ToSet(Found(k)) : Matched(k, x)
  <2>. DEFINE C == {m \in DOMAIN ns : Matched(k, ns[m])}
  <2>1. Found(k) = FlattenSeq([m \in DOMAIN ns |-> IF m \in C THEN <<ns[m]>> ELSE <<>>])
    <3>1. [m \in DOMAIN ns |-> IF Matched(k, ns[m]) THEN <<ns[m]>> ELSE <<>>]
            = [m \in DOMAIN ns |-> IF m \in C THEN <<ns[m]>> ELSE <<>>]
      OBVIOUS
    <3>. QED BY <3>1
  <2>2. C \in SUBSET DOMAIN ns /\ \A m \in C : Matched(k, ns[m])
    OBVIOUS
  <2>. HIDE DEF C, Found, Matched
  <2>3. Found(k) \in Seq(ToSet(ns))
    BY <2>1, <2>2, EachIn
  <2>4. Distinct(Found(k)) /\ ToSet(Found(k)) = {ns[m] : m \in C}
    BY <2>1, <2>2, EachDistinct
  <2>. QED BY <2>2, <2>3, <2>4
<1>3. Filter(ns, regs) = IF regs = <<>> THEN ns ELSE FlattenSeq(turns)
  BY DEF Filter
<1>4. ASSUME NEW j \in DOMAIN regs, NEW k \in DOMAIN regs, j # k, NEW x
      PROVE  ~ (Matched(j, x) /\ Matched(k, x))
  <2>1. j < k \/ k < j
    BY <1>1, <1>4
  <2>2. j < k => j \in 1..(k - 1)
    BY <1>1
  <2>3. k < j => k \in 1..(j - 1)
    BY <1>1
  <2>. QED BY <2>1, <2>2, <2>3
<1>. HIDE DEF Found, Matched
<1>5. turns \in Seq(Seq(ToSet(ns)))
  BY <1>1, <1>2
<1>6. DOMAIN turns = DOMAIN regs /\ \A k \in DOMAIN turns : turns[k] = Found(k)
  OBVIOUS
<1>. HIDE DEF turns
<1>7. \A k \in DOMAIN turns : Distinct(turns[k])
  BY <1>2, <1>6
<1>8. \A j, k \in DOMAIN turns : j # k => ToSet(turns[j]) \cap ToSet(turns[k]) = {}
  BY <1>2, <1>4, <1>6
<1>9. Distinct(FlattenSeq(turns))
  BY <1>5, <1>7, <1>8, FlattenDistinct
<1>. QED BY <1>3, <1>9

LEMMA FindShort ==
  ASSUME NEW ns, NEW name
  PROVE  Distinct(Find(ns, name)) /\ (Find(ns, name) = <<>> \/ Len(Find(ns, name)) = 1)
<1>1. PICK x : Find(ns, name) = <<>> \/ Find(ns, name) = <<x>>
  BY DEF Find
<1>. QED BY <1>1, ShortDistinct

\* No node is chosen twice.
LEMMA ChosenDistinct ==
  ASSUME IsList(nodes), UniqueNames(nodes), NEW regs \in Filters, NEW forced, NEW single
  PROVE  Distinct(Chosen(regs, forced, single))
<1>. DEFINE kept == Filter(nodes, regs)
<1>1. Distinct(nodes)
  BY DEF UniqueNames, Distinct
<1>2. Distinct(kept)
  BY <1>1, FilterDistinct
<1>3. Distinct(Find(kept, forced)) /\ Distinct(<<Head(kept)>>)
  BY FindShort, ShortDistinct
<1>. HIDE DEF kept
<1>4. Chosen(regs, forced, single) =
        CASE forced # "" -> Find(kept, forced)
          [] forced = "" /\ single /\ kept # <<>> -> <<Head(kept)>>
          [] OTHER -> kept
  BY DEF Chosen, kept
<1>. QED BY <1>2, <1>3, <1>4

\* The listeners of the file that were let through: as many names as nodes, and no
\* name that is taken.
\* The listeners of a configuration, without an error.
Added(extras, conf, active, all, lines) ==
  /\ conf \in Configs \cup {<<>>}
  /\ extras = extraListeners(conf, active, all, lines) /\ extras.ok

\* They have names that were not taken, each another one.
NewNames(extras, all, lines) ==
  /\ IsList(extras.labels) /\ Distinct(extras.labels)
  /\ Len(extras.labels) = Len(extras.nodes)
  /\ \A x \in ToSet(extras.labels) : ValidName(x) /\ policyNameKey(x) \notin SeenNames(all, lines)
  /\ \A x, y \in ToSet(extras.labels) : policyNameKey(x) = policyNameKey(y) => x = y

\* extraListeners checks each name against all there are.
LEMMA ExtrasNamed ==
  ASSUME NEW conf, NEW active, IsList(active), NEW all, NEW lines,
         NEW extras, Added(extras, conf, active, all, lines)
  PROVE  NewNames(extras, all, lines)
<1>. DEFINE key(e) == policyNameKey(conf[e].name)
            mapped(e) == Find(active, conf[e].node)
            found == [e \in DOMAIN conf |-> mapped(e)]
            named == [e \in DOMAIN conf |-> IF mapped(e) = <<>> THEN <<>> ELSE <<conf[e].name>>]
            X == {conf[e].name : e \in DOMAIN conf}
<1>0. extras = extraListeners(conf, active, all, lines) /\ extras.ok
  BY DEF Added
<1>1. DOMAIN conf = 1..Len(conf) /\ Len(conf) \in Nat
  BY ProgramAssumption DEF ProgramAssumption, Added
<1>2. extras.labels = FlattenSeq(named) /\ extras.nodes = FlattenSeq(found)
  BY <1>0 DEF extraListeners
<1>3. \A e \in DOMAIN conf : /\ ValidName(conf[e].name)
                             /\ key(e) \notin SeenNames(all, lines) \cup {key(d) : d \in 1..(e - 1)}
  BY <1>0 DEF extraListeners
<1>4. found \in Seq(Seq(ToSet(active)))
  BY <1>1, FindIn
<1>5. named \in Seq(Seq(X))
  <2>1. ASSUME NEW e \in 1..Len(conf) PROVE named[e] \in Seq(X)
    <3>1. named[e] = <<>> \/ named[e] = <<conf[e].name>>
      BY <1>1
    <3>2. PICK name : name = conf[e].name
      OBVIOUS
    <3>3. name \in X /\ (named[e] = <<>> \/ named[e] = <<name>>)
      BY <1>1, <3>1, <3>2
    <3>4. <<name>> \in Seq(X) /\ <<>> \in Seq(X)
      <4>1. name \in X
        BY <3>3
      <4>. HIDE DEF X
      <4>. QED BY <4>1
    <3>. HIDE DEF named, X
    <3>. QED BY <3>3, <3>4, Zenon
  <2>2. DOMAIN named = 1..Len(conf)
    BY <1>1
  <2>3. named = [e \in 1..Len(conf) |-> named[e]]
    BY <2>2
  <2>. HIDE DEF named, X
  <2>. QED BY <1>1, <2>1, <2>3
<1>6. ASSUME NEW e \in 1..Len(conf) PROVE Len(named[e]) = Len(found[e])
  <2>1. PICK f, name : f = mapped(e) /\ name = conf[e].name
    OBVIOUS
  <2>2. f = <<>> \/ Len(f) = 1
    BY <2>1, FindShort
  <2>3. found[e] = f /\ named[e] = IF f = <<>> THEN <<>> ELSE <<name>>
    BY <1>1, <2>1
  <2>4. CASE f = <<>>
    BY <2>3, <2>4
  <2>5. CASE f # <<>>
    <3>1. found[e] = f /\ named[e] = <<name>> /\ Len(f) = 1 /\ Len(<<name>>) = 1
      BY <2>2, <2>3, <2>5
    <3>. HIDE DEF named, found
    <3>. QED BY <3>1
  <2>. QED BY <2>4, <2>5
<1>7. \A d, e \in DOMAIN conf : key(d) = key(e) => d = e
  <2>. SUFFICES ASSUME NEW d \in DOMAIN conf, NEW e \in DOMAIN conf, key(d) = key(e), d # e
                PROVE  FALSE
    OBVIOUS
  <2>1. d \in 1..(e - 1) \/ e \in 1..(d - 1)
    BY <1>1
  <2>. HIDE DEF key
  <2>. QED BY <1>3, <2>1
<1>8. \A e \in DOMAIN conf : ToSet(named[e]) \subseteq {conf[e].name} /\ Distinct(named[e])
  <2>1. \A e \in DOMAIN conf : named[e] = <<>> \/ named[e] = <<conf[e].name>>
    OBVIOUS
  <2>2. ToSet(<<>>) = {} /\ \A x : ToSet(<<x>>) = {x}
    BY DEF ToSet
  <2>. HIDE DEF named
  <2>. QED BY <2>1, <2>2, ShortDistinct
<1>9. DOMAIN named = DOMAIN conf /\ Len(named) = Len(conf) /\ Len(found) = Len(conf)
  BY <1>1
<1>. HIDE DEF named, found
<1>10. \A d, e \in DOMAIN named : d # e => ToSet(named[d]) \cap ToSet(named[e]) = {}
  BY <1>7, <1>8, <1>9
<1>11. Distinct(FlattenSeq(named))
  BY <1>5, <1>8, <1>9, <1>10, FlattenDistinct
<1>12. Len(FlattenSeq(named)) = Len(FlattenSeq(found))
  <2>. HIDE DEF X
  <2>. QED BY <1>4, <1>5, <1>6, <1>9, FlattenLen
<1>13. /\ FlattenSeq(named) \in Seq(X)
       /\ ToSet(FlattenSeq(named)) = UNION {ToSet(named[e]) : e \in DOMAIN named}
  <2>. HIDE DEF X
  <2>. QED BY <1>5, FlattenToSet
<1>14. \A x \in ToSet(FlattenSeq(named)) : \E e \in DOMAIN conf : x = conf[e].name
  BY <1>8, <1>9, <1>13
<1>15. IsList(FlattenSeq(named))
  <2>1. \A t : t \in Seq(X) => t \in Seq(ToSet(t))
    BY DEF ToSet
  <2>. QED BY <1>13, <2>1 DEF IsList
<1>16. \A x \in ToSet(extras.labels) : ValidName(x) /\ policyNameKey(x) \notin SeenNames(all, lines)
  BY <1>2, <1>3, <1>14
<1>17. \A x, y \in ToSet(extras.labels) : policyNameKey(x) = policyNameKey(y) => x = y
  BY <1>2, <1>7, <1>14
<1>. QED BY <1>2, <1>11, <1>12, <1>15, <1>16, <1>17 DEF NewNames

-----------------------------------------------------------------------------
(* Where the template comes from                                           *)

TemplateInv == IsBody(tmpl)

LEMMA InitTemplate == Init => TemplateInv
BY NothingParsed DEF Init, FetchInit, TemplateInv

\* A body the panel sent, opened or not.
LEMMA TemplateAnswerBody == ASSUME TemplateInv, TemplateAnswer PROVE TemplateInv'
<1>1. PICK config \in Lists \cup Pages \cup {NoBody}, smart \in BOOLEAN :
        LET body == Opened(config, reg)
            bs == IF config = NoBody THEN <<>> ELSE <<body>>
        IN /\ bodies' = bs
           /\ IF smart THEN at' = "download" /\ UNCHANGED <<tmpl, nodes>>
              ELSE tmpl' = pickTemplate(bs, NoBody) /\ Choose(Parse(body))
  BY ZenonT(30) DEF TemplateAnswer
<1>2. PICK b : b = Opened(config, reg)
  OBVIOUS
<1>3. IsBody(b) /\ IsBody(NoBody)
  BY <1>2, OpenedBody, NothingParsed
<1>4. PICK bs : bs = IF config = NoBody THEN <<>> ELSE <<b>>
  OBVIOUS
<1>5. pickTemplate(bs, NoBody) \in {b, NoBody}
  <2>1. pickTemplate(<<>>, NoBody) = NoBody
    BY DEF pickTemplate
  <2>. QED BY <1>3, <1>4, <2>1, OneBody
<1>6. tmpl' = tmpl \/ tmpl' = pickTemplate(bs, NoBody)
  BY <1>1, <1>2, <1>4
<1>. QED BY <1>3, <1>5, <1>6 DEF TemplateInv

LEMMA DownloadBody == ASSUME FetchInv, TemplateInv, Download PROVE TemplateInv'
<1>1. PICK b : IsBody(b) /\ (bodies = <<>> \/ bodies = <<b>>)
  <2>1. CASE bodies = <<>>
    BY <2>1, NothingParsed
  <2>2. CASE bodies # <<>>
    BY <2>2 DEF Download, FetchInv
  <2>. QED BY <2>1, <2>2
<1>2. CASE tmpl' = pickTemplate(bodies, NoBody)
  <2>1. pickTemplate(<<>>, NoBody) = NoBody
    BY DEF pickTemplate
  <2>. QED BY <1>1, <1>2, <2>1, OneBody, NothingParsed DEF TemplateInv
<1>3. CASE tmpl' # pickTemplate(bodies, NoBody)
  <2>1. PICK body \in Lists \cup Pages :
          bodies' = Append(bodies, body) /\ tmpl' = pickTemplate(bodies', body)
    BY <1>3, ZenonT(30) DEF Download
  <2>2. IsBody(body)
    BY FetchAssumption DEF FetchAssumption
  <2>3. pickTemplate(<<body>>, body) = body
    BY <2>2, OneBody
  <2>4. pickTemplate(<<b, body>>, body) \in {b, body}
    BY <1>1, <2>2, TwoBodies
  <2>5. CASE bodies = <<>>
    <3>1. bodies' = <<body>>
      BY <2>1, <2>5
    <3>. QED BY <2>1, <2>2, <2>3, <3>1 DEF TemplateInv
  <2>6. CASE bodies = <<b>>
    <3>1. bodies' = <<b, body>>
      BY <2>1, <2>6, SecondBody
    <3>. QED BY <1>1, <2>1, <2>2, <2>4, <3>1 DEF TemplateInv
  <2>. QED BY <1>1, <2>5, <2>6
<1>. QED BY <1>2, <1>3

LEMMA NextTemplate == FetchInv /\ TemplateInv /\ [Next]_vars => TemplateInv'
<1>. SUFFICES ASSUME FetchInv, TemplateInv, [Next]_vars PROVE TemplateInv' OBVIOUS
<1>1. CASE tmpl' = tmpl
  BY <1>1 DEF TemplateInv
<1>2. CASE Fetches
  <2>1. Login \/ ReadIdentity \/ CreateIdentity \/ WriteIdentity \/ Anywhere \/ TemplateFails => tmpl' = tmpl
    BY DEF Login, ReadIdentity, CreateIdentity, WriteIdentity, Anywhere, TemplateFails, answerVars
  <2>. QED BY <1>1, <1>2, <2>1, TemplateAnswerBody, DownloadBody DEF Fetches, FetchStep
<1>3. CASE LoadProfile \/ Select \/ Serves \/ Ended \/ UNCHANGED vars
  <2>1. tmpl' = tmpl
    BY <1>3 DEF LoadProfile, Select, Serves, Ended, vars, fetchVars, answerVars
  <2>. QED BY <1>1, <2>1
<1>4. CASE Killed
  <2>1. tmpl' = NoBody
    BY <1>4 DEF Killed, Restart
  <2>. QED BY <2>1, NothingParsed DEF TemplateInv
<1>. QED BY <1>2, <1>3, <1>4 DEF Next

-----------------------------------------------------------------------------
(* The listeners a profile is made for                                     *)

\* The maps are the listeners in their order: as many as have been opened, and all
\* of them once there is a config server.
ListenInv ==
  /\ pc # "off" => at = "running"
  /\ IsList(node)
  /\ \A m \in DOMAIN maps : maps[m] = m
  /\ pc = "start" => i = Len(maps) + 1
  /\ http = "open" => DOMAIN maps = L

LEMMA InitListen == Init => ListenInv
BY DEF Init, Off, ListenInv, IsList, ToSet

\* Nothing opens, and the maps stay.
LEMMA QuietListen ==
  ASSUME ListenInv, UNCHANGED <<node, maps>>,
         pc' # "off" => at' = "running", pc' = "start" => pc = "start" /\ i' = i,
         http' = "open" => http = "open"
  PROVE  ListenInv'
BY DEF ListenInv, L

LEMMA SwitchOffListen == ASSUME SwitchOff PROVE ListenInv'
BY DEF SwitchOff, ListenInv, IsList, ToSet

\* The loops of Start open the listeners in their order.
LEMMA StartListenerListen ==
  ASSUME LifeInv, ListenInv, StartListener, UNCHANGED at PROVE ListenInv'
<1>1. /\ pc = "start" /\ i \in L /\ UNCHANGED <<node, http>> /\ at = "running" /\ L' = L
      /\ i = Len(maps) + 1 /\ maps \in Seq(L) /\ http # "open" /\ IsList(node)
      /\ \A m \in DOMAIN maps : maps[m] = m
  BY DEF StartListener, cfg, ListenInv, LifeInv, Shapes, Config, L
<1>2. CASE maps' = Append(maps, i) /\ i' = i + 1 /\ UNCHANGED pc
  <2>1. /\ DOMAIN maps' = 1..(Len(maps) + 1) /\ Len(maps') = Len(maps) + 1 /\ Len(maps) \in Nat
        /\ maps'[Len(maps) + 1] = i /\ \A m \in DOMAIN maps : maps'[m] = maps[m]
        /\ DOMAIN maps = 1..Len(maps)
    BY <1>1, <1>2
  <2>2. \A m \in DOMAIN maps' : maps'[m] = m
    BY <1>1, <2>1
  <2>. QED BY <1>1, <1>2, <2>1, <2>2 DEF ListenInv
<1>3. CASE pc' = "close" /\ UNCHANGED <<maps, i>>
  BY <1>1, <1>3, QuietListen
<1>. QED BY <1>2, <1>3 DEF StartListener

\* The config server opens when there is a map for each listener.
LEMMA StartHTTPListen ==
  ASSUME LifeInv, ListenInv, StartHTTP, UNCHANGED at PROVE ListenInv'
<1>1. /\ pc = "start" /\ i \notin L /\ UNCHANGED <<node, maps>> /\ at = "running" /\ L' = L
      /\ i = Len(maps) + 1 /\ maps \in Seq(L) /\ IsList(node) /\ pc' \in {"up", "close"}
      /\ \A m \in DOMAIN maps : maps[m] = m
  BY DEF StartHTTP, cfg, ListenInv, LifeInv, Shapes, L
<1>2. L = 1..Len(node) /\ Len(node) \in Nat /\ Len(maps) \in Nat /\ DOMAIN maps = 1..Len(maps)
  BY <1>1 DEF IsList, L
<1>3. Len(maps) # 0 => Len(maps) \in L
  <2>1. Len(maps) # 0 => Len(maps) \in DOMAIN maps
    BY <1>2
  <2>. QED BY <1>1, <2>1
<1>4. Len(maps) = Len(node)
  BY <1>1, <1>2, <1>3
<1>. QED BY <1>1, <1>2, <1>4 DEF ListenInv

\* Close leaves the maps alone until the config server is closed.
LEMMA LifeListen == ASSUME LifeInv, ListenInv, Serves PROVE ListenInv'
<1>1. LifeStep /\ UNCHANGED at
  BY DEF Serves, fetchVars
<1>2. CASE \E l \in L : ListenerDies(l) \/ HubDies(l)
  <2>1. UNCHANGED <<node, maps, pc, i, http>>
    BY <1>2 DEF ListenerDies, HubDies, cfg
  <2>. QED BY <1>1, <2>1, QuietListen DEF ListenInv
<1>3. CASE Signal \/ CloseBegin \/ CloseListener \/ CloseHTTP \/ ClosePools
  <2>1. /\ UNCHANGED <<node, maps>> /\ pc' # "start" /\ pc # "off"
        /\ http' = "open" => http = "open"
    BY <1>3 DEF Signal, CloseBegin, CloseListener, CloseHTTP, ClosePools, cfg
  <2>2. at' = "running"
    BY <1>1, <2>1 DEF ListenInv
  <2>. QED BY <2>1, <2>2, QuietListen
<1>4. CASE CloseMaps
  <2>1. maps' = <<>> /\ UNCHANGED <<node, http>> /\ pc = "maps" /\ pc' = "down"
    BY <1>4 DEF CloseMaps, cfg
  <2>2. http # "open" /\ at = "running" /\ IsList(node)
    BY <2>1 DEF LifeInv, Config, ListenInv
  <2>. QED BY <1>1, <2>1, <2>2 DEF ListenInv
<1>. QED BY <1>1, <1>2, <1>3, <1>4, StartListenerListen, StartHTTPListen DEF LifeStep

\* What Select starts: the chosen nodes and those of the file, under their names.
Selected(regs, forced, single, quiet, conf, mine, extras) ==
  /\ regs \in Filters /\ forced \in Forced /\ single \in BOOLEAN /\ quiet \in BOOLEAN
  /\ mine = Chosen(regs, forced, single) /\ mine # <<>>
  /\ Added(extras, conf, mine, nodes, Template)
  /\ label' = [n \in DOMAIN mine |-> mine[n].name] \o extras.labels
  /\ Boot(mine \o extras.nodes, quiet) /\ at' = "running"

\* Select ends the program, or starts a list of nodes.
LEMMA SelectPicks ==
  ASSUME Select
  PROVE  \/ UNCHANGED <<lifeVars, label>> /\ at' = "exit"
         \/ \E regs, forced, single, quiet, conf, mine, extras :
              Selected(regs, forced, single, quiet, conf, mine, extras)
<1>1. PICK regs \in Filters, forced \in Forced, single \in BOOLEAN, conf \in Configs, quiet \in BOOLEAN :
        LET mine == Chosen(regs, forced, single)
            extras == extraListeners(IF single THEN <<>> ELSE conf, mine, nodes, Template)
        IN IF mine = <<>> \/ ~extras.ok
           THEN at' = "exit" /\ UNCHANGED <<lifeVars, label>>
           ELSE /\ at' = "running"
                /\ label' = [n \in DOMAIN mine |-> mine[n].name] \o extras.labels
                /\ Boot(mine \o extras.nodes, quiet)
  BY ZenonT(30) DEF Select
<1>2. PICK mine : mine = Chosen(regs, forced, single)
  OBVIOUS
<1>3. PICK listed \in Configs \cup {<<>>} : listed = IF single THEN <<>> ELSE conf
  OBVIOUS
<1>4. PICK extras : extras = extraListeners(listed, mine, nodes, Template)
  OBVIOUS
<1>5. IF mine = <<>> \/ ~extras.ok
      THEN at' = "exit" /\ UNCHANGED <<lifeVars, label>>
      ELSE /\ at' = "running"
           /\ label' = [n \in DOMAIN mine |-> mine[n].name] \o extras.labels
           /\ Boot(mine \o extras.nodes, quiet)
  BY <1>1, <1>2, <1>3, <1>4
<1>6. extras.ok => Added(extras, listed, mine, nodes, Template)
  BY <1>4 DEF Added
<1>7. CASE mine = <<>> \/ ~extras.ok
  BY <1>5, <1>7
<1>8. CASE ~(mine = <<>> \/ ~extras.ok)
  <2>1. Selected(regs, forced, single, quiet, listed, mine, extras)
    BY <1>1, <1>2, <1>5, <1>6, <1>8 DEF Selected
  <2>. QED BY <2>1
<1>. QED BY <1>7, <1>8

\* Start gets a list of nodes, the chosen ones first.
LEMMA SelectListen == ASSUME FetchInv, LifeInv, ListenInv, Select PROVE ListenInv'
<1>1. CASE UNCHANGED <<lifeVars, label>> /\ at' = "exit"
  <2>1. UNCHANGED <<node, maps, pc, i, http>>
    BY <1>1 DEF lifeVars, cfg
  <2>2. pc = "off"
    BY DEF Select, ListenInv
  <2>. QED BY <2>1, <2>2, QuietListen
<1>2. CASE ~(UNCHANGED <<lifeVars, label>> /\ at' = "exit")
  <2>0. PICK regs, forced, single, quiet, conf, mine, extras :
          Selected(regs, forced, single, quiet, conf, mine, extras)
    BY <1>2, SelectPicks
  <2>1. /\ regs \in Filters /\ forced \in Forced /\ single \in BOOLEAN /\ quiet \in BOOLEAN
        /\ mine = Chosen(regs, forced, single) /\ mine # <<>>
        /\ Added(extras, conf, mine, nodes, Template)
        /\ label' = [n \in DOMAIN mine |-> mine[n].name] \o extras.labels
        /\ Boot(mine \o extras.nodes, quiet) /\ at' = "running"
    BY <2>0 DEF Selected
  <2>2. IsList(nodes)
    BY DEF FetchInv, NodeList
  <2>3. IsList(mine)
    BY <2>1, <2>2, ChosenIn, SubList
  <2>4. PICK more : more = extras.nodes
    OBVIOUS
  <2>5. IsList(more)
    <3>1. more \in Seq(ToSet(mine))
      BY <2>1, <2>3, <2>4, ExtrasIn DEF Added
    <3>. QED BY <3>1, SubList
  <2>6. IsList(mine \o more)
    BY <2>3, <2>5, ListJoined
  <2>7. /\ node' = mine \o more /\ pc' = "start" /\ i' = 1 /\ maps' = <<>> /\ http' = "none"
    BY <2>1, <2>4 DEF Boot, LifeInv, Shapes
  <2>. QED BY <2>1, <2>6, <2>7 DEF ListenInv
<1>. QED BY <1>1, <1>2

LEMMA NextListen == FetchInv /\ LifeInv /\ ListenInv /\ [Next]_vars => ListenInv'
<1>. SUFFICES ASSUME FetchInv, LifeInv, ListenInv, [Next]_vars PROVE ListenInv' OBVIOUS
<1>1. CASE Fetches \/ LoadProfile
  <2>1. at # "running" /\ UNCHANGED lifeVars
    BY <1>1 DEF Fetches, LoadProfile, FetchStep, Login, ReadIdentity, CreateIdentity, WriteIdentity,
                Anywhere, TemplateFails, TemplateAnswer, Download
  <2>2. pc = "off" /\ UNCHANGED <<node, maps, pc, i, http>>
    BY <2>1 DEF ListenInv, lifeVars, cfg
  <2>. QED BY <2>2, QuietListen
<1>2. CASE Killed
  BY <1>2, SwitchOffListen DEF Killed
<1>3. CASE Ended \/ UNCHANGED vars
  <2>1. UNCHANGED <<node, maps, pc, i, http, at>>
    BY <1>3 DEF Ended, vars, lifeVars, fetchVars, cfg
  <2>. QED BY <2>1, QuietListen DEF ListenInv
<1>. QED BY <1>1, <1>2, <1>3, SelectListen, LifeListen DEF Next

MapsWhole == http = "open" => maps = [l \in L |-> l]

\* While the config server is open, Server.maps holds every listener in its order,
\* Close included: no profile is made from a part of them (Start opens the config
\* server last, Close clears the maps after it).
THEOREM MapsServed == Spec => []MapsWhole
<1>1. FetchInv /\ LifeInv /\ ListenInv => MapsWhole
  <2>. SUFFICES ASSUME LifeInv, ListenInv, http = "open" PROVE maps = [l \in L |-> l]
    BY DEF MapsWhole
  <2>1. DOMAIN maps = L /\ \A m \in DOMAIN maps : maps[m] = m
    BY DEF ListenInv
  <2>2. maps = [m \in DOMAIN maps |-> maps[m]]
    BY DEF LifeInv, Shapes
  <2>. QED BY <2>1, <2>2
<1>2. Init => FetchInv /\ LifeInv /\ ListenInv
  BY InitFetched, OffHolds, InitListen DEF Init
<1>. QED BY <1>1, <1>2, NextFetched, NextLife, NextListen, PTL DEF Spec

-----------------------------------------------------------------------------
(* The names of the listeners                                              *)

\* The names of nodes that are different nodes of one list are different.
LEMMA NodeNames ==
  ASSUME NEW ns, NodeList(ns), NEW s, s \in Seq(ToSet(ns)), Distinct(s),
         NEW names, names = [n \in DOMAIN s |-> s[n].name]
  PROVE  /\ IsList(names) /\ Distinct(names) /\ Len(names) = Len(s)
         /\ ToSet(names) \subseteq {n.name : n \in ToSet(ns)}
<1>1. DOMAIN s = 1..Len(s) /\ Len(s) \in Nat /\ \A k \in DOMAIN s : s[k] \in ToSet(ns)
  BY SubList
<1>2. DOMAIN names = DOMAIN s /\ \A k \in DOMAIN s : names[k] = s[k].name
  OBVIOUS
<1>3. \A k \in DOMAIN s : names[k] \in ToSet(names)
  BY <1>2 DEF ToSet
<1>4. names \in Seq(ToSet(names)) /\ Len(names) = Len(s)
  BY <1>1, <1>2, <1>3
<1>5. \A x, y \in ToSet(ns) : x.name = y.name => x = y
  BY DEF ToSet, NodeList, UniqueNames
<1>6. Distinct(names)
  BY <1>1, <1>2, <1>5 DEF Distinct
<1>7. ToSet(names) \subseteq {n.name : n \in ToSet(ns)}
  BY <1>1, <1>2 DEF ToSet
<1>. QED BY <1>4, <1>6, <1>7 DEF IsList

\* The names of the nodes that were chosen, and those of the configuration.
Labels(mine, extras) == [n \in DOMAIN mine |-> mine[n].name] \o extras.labels

\* Every node has a name, no two the same; one that is not its own is apart.
Labelled(names, ns, T) ==
  /\ Len(names) = Len(ns) /\ NamesOK(names)
  /\ \A l \in DOMAIN names : names[l] # ns[l].name => l \in Apart(names, T)

\* The names of nodes, each once, and names extraListeners checked.
LEMMA LabelsNamed ==
  ASSUME NodeList(nodes), NEW regs \in Filters, NEW forced, NEW single, NEW conf,
         NEW mine, mine = Chosen(regs, forced, single), mine # <<>>,
         NEW extras, Added(extras, conf, mine, nodes, Template)
  PROVE  Labelled(Labels(mine, extras), mine \o extras.nodes, Template)
<1>0. PICK names : names = Labels(mine, extras)
  OBVIOUS
<1>1. IsList(nodes) /\ UniqueNames(nodes)
  BY DEF NodeList
<1>2. mine \in Seq(ToSet(nodes)) /\ Distinct(mine)
  BY <1>1, ChosenIn, ChosenDistinct
<1>3. IsList(mine)
  BY <1>2, SubList
<1>4. PICK a : a = [n \in DOMAIN mine |-> mine[n].name]
  OBVIOUS
<1>5. /\ IsList(a) /\ Distinct(a) /\ Len(a) = Len(mine)
      /\ ToSet(a) \subseteq {n.name : n \in ToSet(nodes)}
  BY <1>2, <1>4, NodeNames
<1>6. PICK b, more : b = extras.labels /\ more = extras.nodes
  OBVIOUS
<1>7. /\ IsList(b) /\ Distinct(b) /\ Len(b) = Len(more)
      /\ \A x \in ToSet(b) : ValidName(x) /\ policyNameKey(x) \notin SeenNames(nodes, Template)
      /\ \A x, y \in ToSet(b) : policyNameKey(x) = policyNameKey(y) => x = y
  <2>1. NewNames(extras, nodes, Template)
    BY <1>3, ExtrasNamed
  <2>. QED BY <1>6, <2>1 DEF NewNames
<1>8. IsList(more)
  <2>1. more \in Seq(ToSet(mine))
    BY <1>3, <1>6, ExtrasIn DEF Added
  <2>. QED BY <2>1, SubList
<1>9. names = a \o b
  BY <1>0, <1>4, <1>6 DEF Labels
<1>10. IsList(names) /\ ToSet(names) = ToSet(a) \cup ToSet(b) /\ Len(names) = Len(a) + Len(b)
  <2>1. IsList(a \o b) /\ ToSet(a \o b) = ToSet(a) \cup ToSet(b)
    BY <1>5, <1>7, ListJoined
  <2>2. PICK X : X = ToSet(a) \cup ToSet(b)
    OBVIOUS
  <2>3. a \in Seq(X) /\ b \in Seq(X)
    BY <1>5, <1>7, <2>2 DEF IsList
  <2>4. Len(a \o b) = Len(a) + Len(b)
    BY <2>3, JoinedSeqs
  <2>. QED BY <1>9, <2>1, <2>4
<1>11. Len(mine \o more) = Len(mine) + Len(more)
  BY <1>3, <1>8 DEF IsList
<1>12. Len(names) = Len(mine \o extras.nodes)
  BY <1>5, <1>6, <1>7, <1>10, <1>11
<1>13. \A x \in ToSet(a) : policyNameKey(x) \in SeenNames(nodes, Template)
  BY <1>5 DEF SeenNames, Keys
<1>14. \A x \in ToSet(b) : policyNameKey(x) \notin Spoken(Template)
  BY <1>7 DEF ValidName, SeenNames, Spoken, Keys
<1>15. \A x \in ToSet(b), y \in ToSet(names) : policyNameKey(x) = policyNameKey(y) => x = y
  BY <1>7, <1>10, <1>13
<1>16. \A j \in DOMAIN names : names[j] \in ToSet(names)
  BY DEF ToSet
<1>17. Distinct(names)
  <2>1. ToSet(a) \cap ToSet(b) = {}
    BY <1>7, <1>13
  <2>2. PICK X : X = ToSet(a) \cup ToSet(b)
    OBVIOUS
  <2>3. a \in Seq(X) /\ b \in Seq(X)
    BY <1>5, <1>7, <2>2 DEF IsList
  <2>. QED BY <1>5, <1>7, <1>9, <2>1, <2>3, JoinedDistinct
<1>18. NamesOK(names)
  BY <1>2, <1>5, <1>7, <1>10, <1>17 DEF IsList, NamesOK
<1>19. ASSUME NEW l \in DOMAIN names, names[l] # (mine \o more)[l].name
       PROVE  l \in Apart(names, Template)
  <2>1. /\ Len(a) \in Nat /\ Len(b) \in Nat /\ DOMAIN names = 1..(Len(a) + Len(b))
        /\ DOMAIN mine = 1..Len(a) /\ DOMAIN b = 1..Len(b)
    BY <1>3, <1>5, <1>7, <1>10 DEF IsList
  <2>2. CASE l <= Len(a)
    <3>1. l \in DOMAIN mine /\ (mine \o more)[l] = mine[l]
      BY <1>3, <1>5, <1>8, <2>1, <2>2 DEF IsList
    <3>2. names[l] = a[l] /\ a[l] = mine[l].name
      BY <1>4, <1>5, <1>7, <1>9, <2>1, <2>2, <3>1 DEF IsList
    <3>. QED BY <1>19, <3>1, <3>2
  <2>3. CASE ~(l <= Len(a))
    <3>1. l - Len(a) \in DOMAIN b /\ names[l] = b[l - Len(a)]
      BY <1>5, <1>7, <1>9, <2>1, <2>3 DEF IsList
    <3>2. names[l] \in ToSet(b)
      BY <3>1 DEF ToSet
    <3>3. ASSUME NEW m \in DOMAIN names, policyNameKey(names[m]) = policyNameKey(names[l]) PROVE m = l
      BY <1>15, <1>16, <1>17, <3>2, <3>3 DEF Distinct
    <3>. QED BY <1>14, <3>2, <3>3 DEF Apart
  <2>. QED BY <2>2, <2>3
<1>. QED BY <1>0, <1>6, <1>12, <1>18, <1>19 DEF Labelled

\* Every listener has a name, and one of the configuration has its own.
LabelInv == pc # "off" => Labelled(label, node, Template)

LEMMA InitLabel == Init => LabelInv
BY DEF Init, Off, LabelInv

LEMMA KeptLabel ==
  ASSUME LabelInv, pc' # "off" => pc # "off" /\ UNCHANGED <<label, node, tmpl>> PROVE LabelInv'
BY DEF LabelInv, Template

\* Select: the only step that gives names.
LEMMA SelectLabel ==
  ASSUME FetchInv, LabelInv, Select PROVE LabelInv'
<1>1. UNCHANGED tmpl
  BY DEF Select
<1>2. CASE UNCHANGED <<lifeVars, label>> /\ at' = "exit"
  <2>1. UNCHANGED <<node, pc, label>>
    BY <1>2 DEF lifeVars, cfg
  <2>. QED BY <1>1, <2>1, KeptLabel
<1>3. CASE ~(UNCHANGED <<lifeVars, label>> /\ at' = "exit")
  <2>0. PICK regs, forced, single, quiet, conf, mine, extras :
          Selected(regs, forced, single, quiet, conf, mine, extras)
    BY <1>3, SelectPicks
  <2>1. /\ regs \in Filters /\ forced \in Forced /\ single \in BOOLEAN /\ quiet \in BOOLEAN
        /\ mine = Chosen(regs, forced, single) /\ mine # <<>>
        /\ Added(extras, conf, mine, nodes, Template)
        /\ label' = [n \in DOMAIN mine |-> mine[n].name] \o extras.labels
        /\ Boot(mine \o extras.nodes, quiet) /\ at' = "running"
    BY <2>0 DEF Selected
  <2>2. NodeList(nodes)
    BY DEF FetchInv
  <2>3. PICK names : names = Labels(mine, extras)
    OBVIOUS
  <2>4. Labelled(names, mine \o extras.nodes, Template)
    <3>1. regs \in Filters /\ mine = Chosen(regs, forced, single) /\ mine # <<>>
      BY <2>1
    <3>2. Added(extras, conf, mine, nodes, Template)
      BY <2>1
    <3>. QED BY <2>2, <2>3, <3>1, <3>2, LabelsNamed
  <2>5. label' = names /\ node' = mine \o extras.nodes
    BY <2>1, <2>3 DEF Boot, Labels
  <2>6. PICK T : T = Template
    OBVIOUS
  <2>7. Template' = T
    BY <1>1, <2>6 DEF Template
  <2>8. Labelled(label', node', T)
    BY <2>4, <2>5, <2>6
  <2>. QED BY <2>7, <2>8 DEF LabelInv
<1>. QED BY <1>2, <1>3

LEMMA NextLabel ==
  FetchInv /\ LifeInv /\ ListenInv /\ LabelInv /\ [Next]_vars => LabelInv'
<1>. SUFFICES ASSUME FetchInv, LifeInv, ListenInv, LabelInv, [Next]_vars PROVE LabelInv'
  OBVIOUS
<1>1. CASE Fetches \/ LoadProfile
  <2>1. at # "running" /\ UNCHANGED lifeVars
    BY <1>1 DEF Fetches, LoadProfile, FetchStep, Login, ReadIdentity, CreateIdentity, WriteIdentity,
                Anywhere, TemplateFails, TemplateAnswer, Download
  <2>2. pc' = "off"
    BY <2>1 DEF ListenInv, lifeVars
  <2>. QED BY <2>2, KeptLabel
<1>2. CASE Serves
  <2>1. UNCHANGED <<label, tmpl, node>>
    BY <1>2 DEF Serves, fetchVars, answerVars, LifeStep, StartListener, StartHTTP, Signal, CloseBegin,
                CloseListener, CloseHTTP, ClosePools, CloseMaps, ListenerDies, HubDies, cfg
  <2>2. pc' # "off" => pc # "off"
    BY <1>2 DEF Serves, LifeStep, StartListener, StartHTTP, Signal, CloseBegin,
                CloseListener, CloseHTTP, ClosePools, CloseMaps, ListenerDies, HubDies
  <2>. QED BY <2>1, <2>2, KeptLabel
<1>3. CASE Killed
  BY <1>3, KeptLabel DEF Killed, SwitchOff
<1>4. CASE Ended \/ UNCHANGED vars
  <2>1. UNCHANGED <<label, tmpl, node, pc>>
    BY <1>4 DEF Ended, vars, lifeVars, fetchVars, cfg, answerVars
  <2>. QED BY <2>1, KeptLabel
<1>. QED BY <1>1, <1>2, <1>3, <1>4, SelectLabel DEF Next

-----------------------------------------------------------------------------
(* The profiles that are served                                            *)

\* With a config server the profile is made for all labels in their order.
LEMMA Served ==
  ASSUME ListenInv, LifeInv, LabelInv, http = "open"
  PROVE  /\ NamesOK(label) /\ FixedListeners \subseteq Apart(label, Template)
         /\ [m \in DOMAIN maps |-> label[maps[m]]] = label /\ [l \in L |-> label[l]] = label
<1>1. pc # "off" /\ DOMAIN maps = L /\ IsList(node) /\ \A m \in DOMAIN maps : maps[m] = m
  BY DEF LifeInv, Config, ListenInv
<1>2. /\ Len(label) = Len(node) /\ NamesOK(label)
      /\ \A l \in DOMAIN label : label[l] # node[l].name => l \in Apart(label, Template)
  BY <1>1 DEF LabelInv, Labelled
<1>3. DOMAIN label = L /\ label = [l \in L |-> label[l]]
  BY <1>1, <1>2 DEF NamesOK, IsList, L
<1>4. [m \in DOMAIN maps |-> label[maps[m]]] = [l \in L |-> label[l]]
  BY <1>1
<1>5. FixedListeners \subseteq Apart(label, Template)
  BY <1>2, <1>3 DEF FixedListeners
<1>. QED BY <1>2, <1>3, <1>4, <1>5

\* A profile that is served, at any moment and during Close too, can be used as far
\* as its template could: every mapped listener is in it once as a local proxy, one of
\* the configuration file alone under its name, whatever the panel calls its nodes and
\* groups; no remote policy is; and a group lists nothing that is missing but what
\* Unresolved names (RewriteSurge, extraListeners, Start, Close).
THEOREM ProfilesResolve == Spec => []ProfileResolves
<1>. DEFINE Inv == FetchInv /\ LifeInv /\ TemplateInv /\ ListenInv /\ LabelInv
<1>1. Init => Inv
  BY InitFetched, OffHolds, InitTemplate, InitListen, InitLabel DEF Init
<1>2. Inv /\ [Next]_vars => Inv'
  BY NextFetched, NextLife, NextTemplate, NextListen, NextLabel
<1>3. Inv => ProfileResolves
  <2>. SUFFICES ASSUME Inv, http = "open"
                PROVE  Resolves(Profile, [l \in L |-> label[l]], FixedListeners, Template)
    BY DEF ProfileResolves
  <2>1. /\ NamesOK(label) /\ FixedListeners \subseteq Apart(label, Template)
        /\ Profile = SurgeConfig(label, Template) /\ [l \in L |-> label[l]] = label
    BY Served DEF Profile
  <2>2. IsTemplate(Template)
    <3>1. IsTemplate(tmpl.lines) /\ IsTemplate(NoBody.lines) /\ NoBody.lines = <<>>
      BY NothingParsed DEF TemplateInv, IsBody, NoBody
    <3>. QED BY <3>1 DEF Template
  <2>3. PICK T, fixed : T = Template /\ fixed = FixedListeners
    OBVIOUS
  <2>4. Resolves(SurgeConfig(label, T), label, fixed, T)
    BY <2>1, <2>2, <2>3, ConfigResolves
  <2>. QED BY <2>1, <2>3, <2>4
<1>. HIDE DEF Inv
<1>. QED BY <1>1, <1>2, <1>3, PTL DEF Spec
=============================================================================
