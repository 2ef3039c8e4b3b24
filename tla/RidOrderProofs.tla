--------------------------- MODULE RidOrderProofs ---------------------------
(***************************************************************************)
(* What a scan collects, whatever it is asked to keep: exactly the wanted  *)
(* rids, each once, in ascending order.                                    *)
(***************************************************************************)
EXTENDS RidOrder, SequenceTheorems, WellFoundedInduction, TLAPS

(* Induction over the naturals, for a set.                                 *)
LEMMA NatSetInduction ==
    ASSUME NEW T, 0 \in T, \A n \in Nat : n \in T => n + 1 \in T
    PROVE  Nat \subseteq T
<1> DEFINE Missing == {n \in Nat : n \notin T}
<1> DEFINE Below == {p \in Nat \X Nat : p[1] < p[2]}
<1> SUFFICES ASSUME Missing # {} PROVE FALSE
  OBVIOUS
<1>1. PICK m \in Missing : \A k \in Missing : ~ (<<k, m>> \in Below)
  <2>1. Missing \subseteq Nat
    OBVIOUS
  <2>2. Below = OpToRel(<, Nat)
    BY DEF OpToRel
  <2>3. IsWellFoundedOn(Below, Nat)
    BY <2>2, NatLessThanWellFounded, Zenon
  <2> HIDE DEF Missing, Below
  <2> QED  BY <2>1, <2>3, WFMin
<1>2. m \in Nat /\ m # 0
  OBVIOUS
<1>3. m - 1 \in Nat /\ m - 1 < m
  BY <1>2
<1>4. <<m - 1, m>> \in Below
  <2> DEFINE q == <<m - 1, m>>
  <2>1. q \in Nat \X Nat
    BY <1>2, <1>3
  <2>2. q[1] < q[2]
    BY <1>3
  <2> HIDE DEF q
  <2>3. q \in Below
    BY <2>1, <2>2
  <2> QED  BY <2>3 DEF q
<1>5. m - 1 \in T
  BY <1>1, <1>3, <1>4
<1>6. (m - 1) + 1 \in T
  BY <1>3, <1>5
<1>7. (m - 1) + 1 = m
  BY <1>2
<1> QED  BY <1>6, <1>7

(* One round of the loop of InRidOrder.                                    *)
Kept(S, f, i) ==
    IF i = 0 THEN <<>>
    ELSE IF i - 1 \in S THEN Append(f[i - 1], i - 1)
    ELSE f[i - 1]

(* The loop has a result for every number of rounds.                       *)
LEMMA KeptExists ==
    ASSUME NEW S
    PROVE  \A n \in Nat : \E f : f = [i \in 0 .. n |-> Kept(S, f, i)]
<1> DEFINE T == {n \in Nat : \E f : f = [i \in 0 .. n |-> Kept(S, f, i)]}
<1>1. 0 \in T
  <2> DEFINE g == [i \in 0 .. 0 |-> <<>>]
  <2>1. g = [i \in 0 .. 0 |-> Kept(S, g, i)]
    BY DEF Kept
  <2> QED  BY <2>1
<1>2. ASSUME NEW n \in Nat, n \in T PROVE n + 1 \in T
  <2>1. PICK f : f = [i \in 0 .. n |-> Kept(S, f, i)]
    BY <1>2
  <2> DEFINE g == [i \in 0 .. n + 1 |-> IF i = n + 1 THEN Kept(S, f, n + 1) ELSE f[i]]
  <2>2. ASSUME NEW i \in 0 .. n + 1 PROVE g[i] = Kept(S, g, i)
    <3>1. CASE i = 0
      BY <3>1, <2>1 DEF Kept
    <3>2. CASE i # 0 /\ i # n + 1
      <4>1. i \in 0 .. n /\ i - 1 \in 0 .. n + 1 /\ i - 1 # n + 1
        BY <3>2
      <4>2. f[i] = Kept(S, f, i)
        BY <4>1, <2>1
      <4>3. g[i] = f[i] /\ g[i - 1] = f[i - 1]
        BY <4>1, <3>2
      <4> HIDE DEF g
      <4> QED  BY <4>2, <4>3 DEF Kept
    <3>3. CASE i = n + 1
      <4>1. i - 1 = n /\ n \in 0 .. n + 1 /\ n # n + 1
        BY <3>3
      <4>2. g[i] = Kept(S, f, i) /\ g[i - 1] = f[i - 1]
        BY <4>1, <3>3
      <4> HIDE DEF g
      <4> QED  BY <4>2 DEF Kept
    <3> QED  BY <3>1, <3>2, <3>3
  <2>3. g = [i \in 0 .. n + 1 |-> Kept(S, g, i)]
    <3>1. g = [i \in 0 .. n + 1 |-> g[i]]
      OBVIOUS
    <3> HIDE DEF g
    <3> QED  BY <2>2, <3>1
  <2> HIDE DEF g
  <2> QED  BY <2>3
<1> HIDE DEF T
<1>3. Nat \subseteq T
  BY <1>1, <1>2, NatSetInduction
<1> QED  BY <1>3 DEF T

(* A sequence that lists exactly the members of S below n, ascending.      *)
Ascends(s) == \A i, j \in 1 .. Len(s) : i < j => s[i] < s[j]
Lists(s, S, n) ==
    /\ s \in Seq(Nat)
    /\ Ascends(s)
    /\ \A i \in 1 .. Len(s) : s[i] \in S /\ s[i] < n
    /\ \A x \in Nat : x \in S /\ x < n => \E i \in 1 .. Len(s) : s[i] = x

(* One round keeps that so.                                                *)
LEMMA KeepsListing ==
    ASSUME NEW S, NEW n \in Nat, NEW s, Lists(s, S, n)
    PROVE  Lists(IF n \in S THEN Append(s, n) ELSE s, S, n + 1)
<1> DEFINE t == Append(s, n)
<1>0. s \in Seq(Nat) /\ Len(s) \in Nat
  BY DEF Lists
<1>1. CASE n \in S
  <2>1. /\ t \in Seq(Nat) /\ Len(t) = Len(s) + 1
        /\ \A i \in 1 .. Len(s) : t[i] = s[i]
        /\ t[Len(s) + 1] = n
    BY <1>0
  <2> HIDE DEF t
  <2>2. Ascends(t)
    <3> SUFFICES ASSUME NEW i \in 1 .. Len(t), NEW j \in 1 .. Len(t), i < j
                 PROVE  t[i] < t[j]
      BY DEF Ascends
    <3>1. i \in 1 .. Len(s) /\ t[i] = s[i] /\ s[i] < n /\ s[i] \in Nat
      <4>1. i \in 1 .. Len(s)
        BY <1>0, <2>1
      <4>2. s[i] \in Nat
        BY <4>1, <1>0
      <4>3. s[i] < n
        BY <4>1 DEF Lists
      <4> QED  BY <4>1, <4>2, <4>3, <2>1
    <3>2. CASE j = Len(s) + 1
      BY <3>1, <3>2, <2>1
    <3>3. CASE j # Len(s) + 1
      <4>1. j \in 1 .. Len(s)
        <5>1. Len(t) = Len(s) + 1
          BY <2>1
        <5> QED  BY <3>3, <5>1, <1>0
      <4> t[j] = s[j]
        BY <4>1, <2>1
      <4>2. s[i] < s[j]
        BY <3>1, <4>1 DEF Lists, Ascends
      <4> QED  BY <3>1, <4>1, <4>2
    <3> QED  BY <3>2, <3>3
  <2>3. \A i \in 1 .. Len(t) : t[i] \in S /\ t[i] < n + 1
    <3> SUFFICES ASSUME NEW i \in 1 .. Len(t) PROVE t[i] \in S /\ t[i] < n + 1
      OBVIOUS
    <3>1. CASE i \in 1 .. Len(s)
      <4>1. t[i] = s[i] /\ s[i] \in S /\ s[i] < n /\ s[i] \in Nat
        BY <3>1, <2>1, <1>0 DEF Lists
      <4> QED  BY <4>1
    <3>2. CASE i = Len(s) + 1
      BY <3>2, <2>1, <1>1
    <3> QED  BY <3>1, <3>2, <2>1, <1>0
  <2>4. ASSUME NEW x \in Nat, x \in S, x < n + 1 PROVE \E i \in 1 .. Len(t) : t[i] = x
    <3>1. CASE x = n
      BY <3>1, <2>1, <1>0
    <3>2. CASE x # n
      <4>1. PICK i \in 1 .. Len(s) : s[i] = x
        BY <3>2, <2>4 DEF Lists
      <4>2. i \in 1 .. Len(t) /\ t[i] = x
        BY <4>1, <2>1, <1>0
      <4> QED  BY <4>2
    <3> QED  BY <3>1, <3>2
  <2>5. Lists(t, S, n + 1)
    BY <2>1, <2>2, <2>3, <2>4 DEF Lists
  <2> QED  BY <2>5, <1>1 DEF t
<1>2. CASE n \notin S
  <2>1. \A i \in 1 .. Len(s) : s[i] \in S /\ s[i] < n + 1
    BY <1>0 DEF Lists
  <2>2. ASSUME NEW x \in Nat, x \in S, x < n + 1 PROVE x < n
    BY <2>2, <1>2
  <2> QED  BY <1>2, <2>1, <2>2 DEF Lists
<1> QED  BY <1>1, <1>2

(* A scan collects exactly the wanted rids, in ascending order.            *)
THEOREM CollectsInOrder ==
    ASSUME NEW S, NEW n \in Nat
    PROVE  Lists(InRidOrder(S, n), S, n)
<1> DEFINE f == CHOOSE g : g = [i \in 0 .. n |-> Kept(S, g, i)]
<1>1. f = [i \in 0 .. n |-> Kept(S, f, i)]
  BY KeptExists
<1>2. InRidOrder(S, n) = f[n]
  BY DEF InRidOrder, Kept
<1> HIDE DEF f
<1> DEFINE T == {k \in Nat : k <= n => Lists(f[k], S, k)}
<1>3. 0 \in T
  <2>1. f[0] = <<>>
    BY <1>1 DEF Kept
  <2>2. Lists(<<>>, S, 0)
    BY DEF Lists, Ascends
  <2> QED  BY <2>1, <2>2
<1>4. ASSUME NEW k \in Nat, k \in T PROVE k + 1 \in T
  <2> SUFFICES ASSUME k + 1 <= n PROVE Lists(f[k + 1], S, k + 1)
    OBVIOUS
  <2>1. Lists(f[k], S, k)
    BY <1>4
  <2>2. k + 1 \in 0 .. n /\ k + 1 # 0 /\ (k + 1) - 1 = k
    OBVIOUS
  <2>3. f[k + 1] = IF k \in S THEN Append(f[k], k) ELSE f[k]
    BY <1>1, <2>2 DEF Kept
  <2> QED  BY <2>1, <2>3, KeepsListing
<1>5. Nat \subseteq T
  <2> HIDE DEF T
  <2> QED  BY <1>3, <1>4, NatSetInduction
<1> QED  BY <1>2, <1>5
=============================================================================
