---------------------------- MODULE CodecProofs ----------------------------
(***************************************************************************)
(* The encoders and decoders of ColumnCodec, for every width of a byte, a  *)
(* u32 and an i64, and every row, text, offset and row-group size: what    *)
(* encode_column writes is read back by ReadColumn, whatever the layout,   *)
(* no proper prefix of it is, and the bitmap of deletes.bm holds exactly   *)
(* the offsets put into it.                                                *)
(*                                                                         *)
(* The loops of the code are recursive functions, of which TLA+ says only  *)
(* that they are CHOSEN.  LoopRuns shows that there is one to choose, and  *)
(* an induction over the rounds what it returns; every lemma that opens a  *)
(* loop is laid out so.                                                    *)
(***************************************************************************)
EXTENDS FileImages, RidOrderProofs, FiniteSetTheorems

---------------------------------------------------------------------------
(* Loops *)

(* Induction over the rounds of a loop.                                    *)
LEMMA Rounds ==
    ASSUME NEW n \in Nat, NEW T, 0 \in T, \A i \in 1 .. n : i - 1 \in T => i \in T
    PROVE  \A i \in 0 .. n : i \in T
<1> DEFINE D == {k \in Nat : k > n \/ k \in T}
<1>1. 0 \in D
  OBVIOUS
<1>2. \A k \in Nat : k \in D => k + 1 \in D
  <2> SUFFICES ASSUME NEW k \in Nat, k \in D PROVE k + 1 \in D
    OBVIOUS
  <2>1. CASE k + 1 \in 1 .. n
    <3>1. k \in T /\ (k + 1) - 1 = k
      BY <2>1
    <3> QED  BY <2>1, <3>1
  <2>2. CASE k + 1 \notin 1 .. n
    BY <2>2
  <2> QED  BY <2>1, <2>2
<1> HIDE DEF D
<1>3. Nat \subseteq D
  BY <1>1, <1>2, NatSetInduction
<1> QED  BY <1>3 DEF D

(* f is the state of a loop after each of its rounds.                      *)
IsRun(f, n, S, start, step) ==
    /\ f \in [0 .. n -> S]
    /\ f[0] = start /\ \A i \in 1 .. n : f[i] = step[<<i, f[i - 1]>>]

(* A loop that keeps its state in S has a run.                             *)
LEMMA LoopRuns ==
    ASSUME NEW n \in Nat, NEW S, NEW start \in S, NEW step \in [(1 .. n) \X S -> S]
    PROVE  \E f : IsRun(f, n, S, start, step)
<1> DEFINE Run(k, f) ==
        /\ f \in [0 .. k -> S]
        /\ f[0] = start /\ \A i \in 1 .. k : f[i] = step[<<i, f[i - 1]>>]
<1> DEFINE T == {k \in 0 .. n : \E f : Run(k, f)}
<1>1. 0 \in T
  <2>1. Run(0, [i \in 0 .. 0 |-> start])
    OBVIOUS
  <2> HIDE DEF Run
  <2> QED  BY <2>1
<1>2. \A k \in 1 .. n : k - 1 \in T => k \in T
  <2> SUFFICES ASSUME NEW k \in 1 .. n, k - 1 \in T PROVE k \in T
    OBVIOUS
  <2>1. PICK f : Run(k - 1, f)
    OBVIOUS
  <2> DEFINE g == [i \in 0 .. k |-> IF i = k THEN step[<<k, f[k - 1]>>] ELSE f[i]]
  <2>2. k - 1 \in 0 .. k - 1 /\ f[k - 1] \in S /\ <<k, f[k - 1]>> \in (1 .. n) \X S
    BY <2>1
  <2>3. step[<<k, f[k - 1]>>] \in S
    BY <2>2
  <2>4. g \in [0 .. k -> S]
    BY <2>1, <2>3
  <2>5. ASSUME NEW i \in 1 .. k PROVE g[i] = step[<<i, g[i - 1]>>]
    <3>1. i - 1 \in 0 .. k /\ i - 1 # k /\ g[i - 1] = f[i - 1]
      OBVIOUS
    <3>2. CASE i = k
      BY <3>1, <3>2
    <3>3. CASE i # k
      <4>1. i \in 1 .. k - 1 /\ g[i] = f[i]
        BY <3>3
      <4> QED  BY <2>1, <3>1, <4>1
    <3> QED  BY <3>2, <3>3
  <2>6. g[0] = start
    BY <2>1
  <2> HIDE DEF g
  <2>7. Run(k, g)
    BY <2>4, <2>5, <2>6
  <2> QED  BY <2>7
<1> HIDE DEF T
<1>3. n \in T
  BY <1>1, <1>2, Rounds
<1> QED  BY <1>3 DEF T, IsRun

---------------------------------------------------------------------------
(* Powers, digits and numbers *)

(* The loop of Power.                                                      *)
LEMMA PowerLoop ==
    ASSUME NEW base \in Nat \ {0}, NEW n \in Nat
    PROVE  \E p \in [0 .. n -> Nat \ {0}] :
              /\ p[0] = 1 /\ \A i \in 1 .. n : p[i] = base * p[i - 1]
              /\ Power(base, n) = p[n]
<1> DEFINE Pos == Nat \ {0}
<1> DEFINE step == [a \in (1 .. n) \X Pos |-> base * a[2]]
<1> DEFINE IsPower(p) == p = [i \in 0 .. n |-> IF i = 0 THEN 1 ELSE base * p[i - 1]]
<1>1. step \in [(1 .. n) \X Pos -> Pos]
  OBVIOUS
<1>2. \A i \in 1 .. n : \A x \in Pos : step[<<i, x>>] = base * x
  OBVIOUS
<1> HIDE DEF step
<1>3. \E q : IsRun(q, n, Pos, 1, step)
  <2>1. 1 \in Pos
    OBVIOUS
  <2> HIDE DEF Pos, IsPower
  <2> QED  BY <1>1, <2>1, LoopRuns
<1>4. \E q : IsPower(q)
  <2>1. PICK q : /\ q \in [0 .. n -> Pos] /\ q[0] = 1
                 /\ \A i \in 1 .. n : q[i] = step[<<i, q[i - 1]>>]
    BY <1>3 DEF IsRun
  <2>2. ASSUME NEW i \in 1 .. n PROVE q[i] = base * q[i - 1]
    <3>1. q[i] = step[<<i, q[i - 1]>>] /\ q[i - 1] \in Pos
      BY <2>1
    <3> HIDE DEF Pos
    <3> QED  BY <3>1, <1>2
  <2>3. IsPower(q)
    <3>1. ASSUME NEW i \in 0 .. n PROVE q[i] = IF i = 0 THEN 1 ELSE base * q[i - 1]
      BY <2>1, <2>2
    <3>2. q = [i \in 0 .. n |-> q[i]]
      BY <2>1
    <3> HIDE DEF Pos
    <3> QED  BY <3>1, <3>2
  <2> QED  BY <2>3
<1> DEFINE p == CHOOSE p : IsPower(p)
<1>5. IsPower(p)
  BY <1>4
<1>6. Power(base, n) = p[n]
  BY DEF Power
<1> HIDE DEF p
<1>7. p = [i \in 0 .. n |-> p[i]] /\ p[0] = 1 /\ \A i \in 1 .. n : p[i] = base * p[i - 1]
  BY <1>5
<1>8. p \in [0 .. n -> Pos]
  <2> DEFINE T == {i \in 0 .. n : p[i] \in Pos}
  <2>1. 0 \in T
    BY <1>7
  <2>2. ASSUME NEW i \in 1 .. n, i - 1 \in T PROVE i \in T
    <3>1. p[i - 1] \in Pos /\ p[i] = base * p[i - 1]
      BY <2>2, <1>7
    <3>2. base * p[i - 1] \in Pos
      BY <3>1
    <3> QED  BY <3>1, <3>2
  <2> HIDE DEF T
  <2>3. \A i \in 0 .. n : i \in T
    BY <2>1, <2>2, Rounds
  <2>4. \A i \in 0 .. n : p[i] \in Pos
    BY <2>3 DEF T
  <2> HIDE DEF Pos
  <2> QED  BY <1>7, <2>4
<1> QED  BY <1>6, <1>7, <1>8

(* Division with remainder.                                                *)
LEMMA DivMod ==
    ASSUME NEW b \in Nat \ {0}, NEW n \in Int
    PROVE  /\ n \div b \in Int /\ n % b \in 0 .. b - 1
           /\ n = b * (n \div b) + (n % b)
           /\ n >= 0 => n \div b >= 0
  OBVIOUS

(* It has one result.                                                      *)
LEMMA DivModUnique ==
    ASSUME NEW b \in Nat \ {0}, NEW q \in Int, NEW r \in 0 .. b - 1
    PROVE  /\ (b * q + r) \div b = q
           /\ (b * q + r) % b = r
  OBVIOUS

(* A digit more keeps a number below the next power.                       *)
LEMMA DigitMore ==
    ASSUME NEW b \in Nat \ {0}, NEW x \in Int, NEW y \in Int, NEW d \in 0 .. b - 1,
           0 <= x, x <= y - 1
    PROVE  0 <= b * x + d /\ b * x + d <= b * y - 1
<1> DEFINE u == b * x
<1> DEFINE v == b * y
<1>1. u \in Int /\ v \in Int
  OBVIOUS
<1>2. 0 <= u
  OBVIOUS
<1>3. b * x <= b * (y - 1)
  OBVIOUS
<1>4. b * (y - 1) = b * y - b
  OBVIOUS
<1>5. u <= v - b
  BY <1>3, <1>4
<1> HIDE DEF u, v
<1>6. 0 <= u + d /\ u + d <= v - 1
  BY <1>1, <1>2, <1>5
<1> QED  BY <1>6 DEF u, v

(* And a digit less.                                                       *)
LEMMA DigitLess ==
    ASSUME NEW b \in Nat \ {0}, NEW x \in Int, NEW y \in Int, NEW d \in 0 .. b - 1,
           b * x + d < b * y
    PROVE  x < y
<1> DEFINE u == b * x
<1> DEFINE v == b * y
<1> SUFFICES ASSUME y <= x PROVE FALSE
  OBVIOUS
<1>1. u \in Int /\ v \in Int /\ u + d < v
  OBVIOUS
<1>2. v <= u
  OBVIOUS
<1> HIDE DEF u, v
<1> QED  BY <1>1, <1>2

(* What Digits has left of a number after each digit.                      *)
Rests(r, n, base, width) ==
    /\ r \in [0 .. width -> Int]
    /\ r[0] = n /\ \A i \in 1 .. width : r[i] = r[i - 1] \div base
    /\ Digits(n, base, width) = [i \in 1 .. width |-> r[i - 1] % base]

(* The loop of Digits.                                                     *)
LEMMA DigitsLoop ==
    ASSUME NEW base \in Nat \ {0}, NEW n \in Int, NEW width \in Nat
    PROVE  \E r : Rests(r, n, base, width)
<1> DEFINE step == [a \in (1 .. width) \X Int |-> a[2] \div base]
<1> DEFINE IsRest(r) == r = [i \in 0 .. width |-> IF i = 0 THEN n ELSE r[i - 1] \div base]
<1>1. step \in [(1 .. width) \X Int -> Int]
  BY DivMod
<1>2. \A i \in 1 .. width : \A x \in Int : step[<<i, x>>] = x \div base
  OBVIOUS
<1> HIDE DEF step
<1>3. \E q : IsRun(q, width, Int, n, step)
  BY <1>1, LoopRuns
<1>4. \E q : IsRest(q)
  <2>1. PICK q : /\ q \in [0 .. width -> Int] /\ q[0] = n
                 /\ \A i \in 1 .. width : q[i] = step[<<i, q[i - 1]>>]
    BY <1>3 DEF IsRun
  <2>2. ASSUME NEW i \in 1 .. width PROVE q[i] = q[i - 1] \div base
    <3>1. q[i] = step[<<i, q[i - 1]>>] /\ q[i - 1] \in Int
      BY <2>1
    <3> QED  BY <3>1, <1>2
  <2>3. ASSUME NEW i \in 0 .. width PROVE q[i] = IF i = 0 THEN n ELSE q[i - 1] \div base
    BY <2>1, <2>2
  <2>4. q = [i \in 0 .. width |-> q[i]]
    BY <2>1
  <2>5. IsRest(q)
    BY <2>3, <2>4
  <2> QED  BY <2>5
<1> DEFINE r == CHOOSE r : IsRest(r)
<1>5. IsRest(r)
  BY <1>4
<1>6. Digits(n, base, width) = [i \in 1 .. width |-> r[i - 1] % base]
  BY DEF Digits
<1> HIDE DEF r
<1>7. /\ r = [i \in 0 .. width |-> r[i]]
      /\ r[0] = n /\ \A i \in 1 .. width : r[i] = r[i - 1] \div base
  <2>1. \A i \in 0 .. width : r[i] = IF i = 0 THEN n ELSE r[i - 1] \div base
    BY <1>5
  <2>2. r = [i \in 0 .. width |-> r[i]]
    BY <1>5
  <2>3. r[0] = n /\ \A i \in 1 .. width : r[i] = r[i - 1] \div base
    BY ONLY <2>1, n \in Int, width \in Nat
  <2> HIDE DEF IsRest
  <2> QED  BY <2>2, <2>3
<1>8. r \in [0 .. width -> Int]
  <2> DEFINE T == {i \in 0 .. width : r[i] \in Int}
  <2>1. 0 \in T
    BY <1>7
  <2>2. ASSUME NEW i \in 1 .. width, i - 1 \in T PROVE i \in T
    <3>1. r[i - 1] \in Int /\ r[i] = r[i - 1] \div base
      BY <2>2, <1>7
    <3>2. r[i] \in Int
      BY <3>1, DivMod
    <3> QED  BY <3>2
  <2> HIDE DEF T
  <2>3. \A i \in 0 .. width : i \in T
    BY <2>1, <2>2, Rounds
  <2>4. \A i \in 0 .. width : r[i] \in Int
    BY <2>3 DEF T
  <2> QED  BY <1>7, <2>4
<1> QED  BY <1>6, <1>7, <1>8 DEF Rests

(* The loop of Number.                                                     *)
LEMMA NumberLoop ==
    ASSUME NEW base \in Nat \ {0}, NEW digits \in Seq(Int)
    PROVE  \E v \in [0 .. Len(digits) -> Int] :
              /\ v[0] = 0
              /\ \A i \in 1 .. Len(digits) :
                    v[i] = base * v[i - 1] + digits[Len(digits) + 1 - i]
              /\ Number(digits, base) = v[Len(digits)]
<1> DEFINE w == Len(digits)
<1> DEFINE d(i) == digits[w + 1 - i]
<1> DEFINE step == [a \in (1 .. w) \X Int |-> base * a[2] + d(a[1])]
<1> DEFINE IsValue(v) == v = [i \in 0 .. w |-> IF i = 0 THEN 0 ELSE base * v[i - 1] + d(i)]
<1>0. w \in Nat /\ \A i \in 1 .. w : d(i) \in Int
  OBVIOUS
<1>1. Number(digits, base) = (CHOOSE v : IsValue(v))[w]
  BY DEF Number
<1> HIDE DEF w, d
<1>2. \A i \in 1 .. w : \A x \in Int : base * x + d(i) \in Int
  BY <1>0
<1>3. step \in [(1 .. w) \X Int -> Int]
  BY <1>2
<1>4. \A i \in 1 .. w : \A x \in Int : step[<<i, x>>] = base * x + d(i)
  OBVIOUS
<1> HIDE DEF step
<1>5. \E q : IsRun(q, w, Int, 0, step)
  <2>1. 0 \in Int
    OBVIOUS
  <2> HIDE DEF IsValue
  <2> QED  BY <1>0, <1>3, <2>1, LoopRuns
<1>6. \E q : IsValue(q)
  <2>1. PICK q : /\ q \in [0 .. w -> Int] /\ q[0] = 0
                 /\ \A i \in 1 .. w : q[i] = step[<<i, q[i - 1]>>]
    BY <1>5 DEF IsRun
  <2>2. ASSUME NEW i \in 1 .. w PROVE q[i] = base * q[i - 1] + d(i)
    <3>1. q[i] = step[<<i, q[i - 1]>>] /\ q[i - 1] \in Int
      BY <2>1, <1>0
    <3> QED  BY <3>1, <1>4
  <2>3. ASSUME NEW i \in 0 .. w PROVE q[i] = IF i = 0 THEN 0 ELSE base * q[i - 1] + d(i)
    BY <2>1, <2>2, <1>0
  <2>4. q = [i \in 0 .. w |-> q[i]]
    BY <2>1
  <2>5. IsValue(q)
    BY <2>3, <2>4
  <2> QED  BY <2>5
<1> DEFINE v == CHOOSE v : IsValue(v)
<1>7. IsValue(v)
  BY <1>6
<1>8. Number(digits, base) = v[w]
  BY <1>1
<1> HIDE DEF v
<1>9. /\ v = [i \in 0 .. w |-> v[i]]
      /\ v[0] = 0 /\ \A i \in 1 .. w : v[i] = base * v[i - 1] + d(i)
  <2>1. \A i \in 0 .. w : v[i] = IF i = 0 THEN 0 ELSE base * v[i - 1] + d(i)
    BY <1>7
  <2>2. v = [i \in 0 .. w |-> v[i]]
    BY <1>7
  <2> QED  BY <1>0, <2>1, <2>2
<1>10. v \in [0 .. w -> Int]
  <2> DEFINE T == {i \in 0 .. w : v[i] \in Int}
  <2>1. 0 \in T
    BY <1>0, <1>9
  <2>2. ASSUME NEW i \in 1 .. w, i - 1 \in T PROVE i \in T
    <3>1. v[i - 1] \in Int /\ v[i] = base * v[i - 1] + d(i)
      BY <2>2, <1>9
    <3>2. v[i] \in Int
      BY <3>1, <1>2
    <3> QED  BY <3>2, <1>0
  <2> HIDE DEF T
  <2>3. \A i \in 0 .. w : i \in T
    BY <1>0, <2>1, <2>2, Rounds
  <2>4. \A i \in 0 .. w : v[i] \in Int
    BY <2>3 DEF T
  <2> QED  BY <1>9, <2>4
<1> QED  BY <1>8, <1>9, <1>10 DEF w, d

(* The digits of a number are digits.                                      *)
LEMMA DigitsType ==
    ASSUME NEW base \in Nat \ {0}, NEW n \in Int, NEW width \in Nat
    PROVE  /\ Digits(n, base, width) \in Seq(0 .. base - 1)
           /\ Len(Digits(n, base, width)) = width
<1> DEFINE m == n
<1> DEFINE w == width
<1>0. m \in Int /\ m = n /\ w \in Nat /\ w = width
  OBVIOUS
<1> HIDE DEF m, w
<1>1. PICK r : /\ r \in [0 .. w -> Int] /\ r[0] = m
               /\ \A i \in 1 .. w : r[i] = r[i - 1] \div base
               /\ Digits(m, base, w) = [i \in 1 .. w |-> r[i - 1] % base]
  <2>1. \E r : Rests(r, m, base, w)
    BY <1>0, DigitsLoop
  <2> QED  BY <2>1 DEF Rests
<1>2. ASSUME NEW i \in 1 .. w PROVE r[i - 1] % base \in 0 .. base - 1
  <2>1. i - 1 \in 0 .. w
    BY <1>0
  <2>2. r[i - 1] \in Int
    BY <1>1, <2>1
  <2> QED  BY <2>2, DivMod
<1>3. Digits(m, base, w) \in Seq(0 .. base - 1) /\ Len(Digits(m, base, w)) = w
  BY <1>0, <1>1, <1>2
<1> QED  BY <1>0, <1>3

(* Digits below a base make a number below its power.                      *)
LEMMA NumberBound ==
    ASSUME NEW base \in Nat \ {0}, NEW digits \in Seq(0 .. base - 1)
    PROVE  Number(digits, base) \in 0 .. Power(base, Len(digits)) - 1
<1> DEFINE w == Len(digits)
<1> DEFINE d(i) == digits[w + 1 - i]
<1>1. w \in Nat /\ digits \in Seq(Int) /\ \A i \in 1 .. w : d(i) \in 0 .. base - 1
  OBVIOUS
<1>2. PICK v \in [0 .. w -> Int] :
          /\ v[0] = 0 /\ \A i \in 1 .. w : v[i] = base * v[i - 1] + d(i)
          /\ Number(digits, base) = v[w]
  BY <1>1, NumberLoop
<1> HIDE DEF w, d
<1>3. PICK p \in [0 .. w -> Nat \ {0}] :
          /\ p[0] = 1 /\ \A i \in 1 .. w : p[i] = base * p[i - 1]
          /\ Power(base, w) = p[w]
  BY <1>1, PowerLoop
<1> DEFINE T == {i \in 0 .. w : 0 <= v[i] /\ v[i] <= p[i] - 1}
<1>4. 0 \in T
  BY <1>1, <1>2, <1>3
<1>5. ASSUME NEW i \in 1 .. w, i - 1 \in T PROVE i \in T
  <2> DEFINE x == v[i - 1]
  <2> DEFINE y == p[i - 1]
  <2>0. i - 1 \in 0 .. w /\ x \in Int /\ y \in Nat
    BY <1>1
  <2>1. x \in Int /\ y \in Int /\ 0 <= x /\ x <= y - 1 /\ d(i) \in 0 .. base - 1
    BY <1>1, <1>5, <2>0
  <2>2. v[i] = base * x + d(i) /\ p[i] = base * y
    BY <1>2, <1>3
  <2> HIDE DEF x, y
  <2>4. 0 <= v[i] /\ v[i] <= p[i] - 1
    BY <2>1, <2>2, DigitMore
  <2> QED  BY <2>4
<1> HIDE DEF T
<1>6. \A i \in 0 .. w : i \in T
  BY <1>1, <1>4, <1>5, Rounds
<1>7. 0 <= v[w] /\ v[w] <= p[w] - 1 /\ v[w] \in Int /\ p[w] \in Int
  BY <1>1, <1>6 DEF T
<1> QED  BY <1>2, <1>3, <1>7 DEF w

(* A number has the digits it was made of.                                 *)
LEMMA DigitsOfNumber ==
    ASSUME NEW base \in Nat \ {0}, NEW digits \in Seq(0 .. base - 1)
    PROVE  Digits(Number(digits, base), base, Len(digits)) = digits
<1> DEFINE w == Len(digits)
<1> DEFINE d(i) == digits[w + 1 - i]
<1>1. w \in Nat /\ digits \in Seq(Int) /\ \A i \in 1 .. w : d(i) \in 0 .. base - 1
  OBVIOUS
<1>2. PICK v \in [0 .. w -> Int] :
          /\ v[0] = 0 /\ \A i \in 1 .. w : v[i] = base * v[i - 1] + d(i)
          /\ Number(digits, base) = v[w]
  BY <1>1, NumberLoop
<1>3. v[w] \in Int
  BY <1>1, <1>2
<1>4. PICK r : /\ r \in [0 .. w -> Int] /\ r[0] = v[w]
               /\ \A i \in 1 .. w : r[i] = r[i - 1] \div base
               /\ Digits(v[w], base, w) = [i \in 1 .. w |-> r[i - 1] % base]
  <2>1. \E r : Rests(r, v[w], base, w)
    BY <1>1, <1>3, DigitsLoop
  <2> QED  BY <2>1 DEF Rests
<1>5. digits = [i \in 1 .. w |-> d(w + 1 - i)]
  <2>1. \A i \in 1 .. w : d(w + 1 - i) = digits[i]
    BY <1>1
  <2> QED  BY <2>1
<1> HIDE DEF w, d
<1>6. ASSUME NEW i \in 1 .. w
      PROVE  v[i] \div base = v[i - 1] /\ v[i] % base = d(i)
  <2>1. v[i] = base * v[i - 1] + d(i) /\ v[i - 1] \in Int /\ d(i) \in 0 .. base - 1
    BY <1>1, <1>2
  <2> QED  BY <2>1, DivModUnique
<1> DEFINE T == {i \in 0 .. w : r[i] = v[w - i]}
<1>7. 0 \in T
  BY <1>1, <1>4
<1>8. ASSUME NEW i \in 1 .. w, i - 1 \in T PROVE i \in T
  <2> DEFINE k == w + 1 - i
  <2>1. k \in 1 .. w /\ w - (i - 1) = k /\ w - i = k - 1
    BY <1>1
  <2> HIDE DEF k
  <2>2. r[i - 1] = v[k]
    BY <1>8, <2>1
  <2>3. r[i] = v[k - 1]
    BY <1>4, <1>6, <2>1, <2>2
  <2> QED  BY <2>1, <2>3
<1>9. \A i \in 0 .. w : i \in T
  <2> HIDE DEF T
  <2> QED  BY <1>1, <1>7, <1>8, Rounds
<1>10. ASSUME NEW i \in 1 .. w PROVE r[i - 1] % base = d(w + 1 - i)
  <2> DEFINE k == w + 1 - i
  <2>1. k \in 1 .. w /\ w - (i - 1) = k /\ i - 1 \in 0 .. w
    BY <1>1
  <2> HIDE DEF k
  <2>2. r[i - 1] = v[k]
    BY <1>9, <2>1
  <2>3. r[i - 1] % base = d(k)
    BY <1>6, <2>1, <2>2
  <2> QED  BY <2>3 DEF k
<1> QED  BY <1>2, <1>4, <1>5, <1>10 DEF w

(* A number of at most so many digits is what they stand for.              *)
LEMMA NumberOfDigits ==
    ASSUME NEW base \in Nat \ {0}, NEW w \in Nat, NEW n \in 0 .. Power(base, w) - 1
    PROVE  Number(Digits(n, base, w), base) = n
<1>1. PICK p \in [0 .. w -> Nat \ {0}] :
          /\ p[0] = 1 /\ \A i \in 1 .. w : p[i] = base * p[i - 1]
          /\ Power(base, w) = p[w]
  BY PowerLoop
<1>2. p[w] \in Int /\ n \in Int /\ 0 <= n /\ n < p[w]
  BY <1>1
<1>3. PICK r : /\ r \in [0 .. w -> Int] /\ r[0] = n
               /\ \A i \in 1 .. w : r[i] = r[i - 1] \div base
               /\ Digits(n, base, w) = [i \in 1 .. w |-> r[i - 1] % base]
  <2>1. \E r : Rests(r, n, base, w)
    BY <1>2, DigitsLoop
  <2> QED  BY <2>1 DEF Rests
<1> DEFINE digits == Digits(n, base, w)
<1>4. digits \in Seq(Int) /\ Len(digits) = w
  <2>1. digits \in Seq(0 .. base - 1) /\ Len(digits) = w
    BY <1>2, DigitsType
  <2> QED  BY <2>1
<1> HIDE DEF digits
<1>5. PICK v \in [0 .. w -> Int] :
          /\ v[0] = 0 /\ \A i \in 1 .. w : v[i] = base * v[i - 1] + digits[w + 1 - i]
          /\ Number(digits, base) = v[w]
  BY <1>4, NumberLoop
<1>6. ASSUME NEW i \in 1 .. w
      PROVE  /\ r[i - 1] \in Int /\ r[i] \in Int
             /\ r[i - 1] = base * r[i] + digits[i]
             /\ digits[i] \in 0 .. base - 1
             /\ r[i - 1] >= 0 => r[i] >= 0
  <2>1. r[i - 1] \in Int /\ r[i] \in Int /\ r[i] = r[i - 1] \div base
    BY <1>3
  <2>2. digits[i] = r[i - 1] % base
    BY <1>3 DEF digits
  <2> QED  BY <2>1, <2>2, DivMod
<1> DEFINE T == {i \in 0 .. w : 0 <= r[i] /\ r[i] < p[w - i]}
<1>7. w \in T
  <2>1. 0 \in T
    BY <1>2, <1>3
  <2>2. ASSUME NEW i \in 1 .. w, i - 1 \in T PROVE i \in T
    <3> DEFINE x == r[i]
    <3> DEFINE y == p[w - i]
    <3> DEFINE z == r[i - 1]
    <3>1. w - i \in 0 .. w /\ w - (i - 1) \in 1 .. w /\ (w - (i - 1)) - 1 = w - i
      OBVIOUS
    <3>2. p[w - (i - 1)] = base * y /\ y \in Nat \ {0}
      BY <1>1, <3>1
    <3>3. 0 <= z /\ z < p[w - (i - 1)]
      BY <2>2
    <3>4. z \in Int /\ x \in Int /\ z = base * x + digits[i] /\ digits[i] \in 0 .. base - 1 /\ x >= 0
      BY <1>6, <3>3
    <3> HIDE DEF x, y, z
    <3>5. base * x + digits[i] < base * y
      BY <3>2, <3>3, <3>4
    <3> DEFINE e == digits[i]
    <3>6. e \in 0 .. base - 1 /\ base * x + e < base * y /\ y \in Int
      BY <3>2, <3>4, <3>5
    <3> HIDE DEF e
    <3>7. x < y
      BY ONLY <3>4, <3>6, DigitLess, base \in Nat \ {0}
    <3> QED  BY <3>4, <3>7 DEF x, y
  <2> HIDE DEF T
  <2>3. \A i \in 0 .. w : i \in T
    BY <2>1, <2>2, Rounds
  <2> QED  BY <2>3
<1>8. r[w] = 0
  BY <1>1, <1>3, <1>7
<1> DEFINE U == {i \in 0 .. w : v[i] = r[w - i]}
<1>9. w \in U
  <2>1. 0 \in U
    BY <1>5, <1>8
  <2>2. ASSUME NEW i \in 1 .. w, i - 1 \in U PROVE i \in U
    <3> DEFINE k == w + 1 - i
    <3>1. k \in 1 .. w /\ w - (i - 1) = k /\ w - i = k - 1
      OBVIOUS
    <3>2. v[i] = base * v[i - 1] + digits[k]
      BY <1>5
    <3> HIDE DEF k
    <3>3. v[i - 1] = r[k]
      BY <2>2, <3>1
    <3>4. v[i] = r[k - 1]
      BY <1>6, <3>1, <3>2, <3>3
    <3>5. i \in 0 .. w
      OBVIOUS
    <3> QED  BY <3>1, <3>4, <3>5
  <2> HIDE DEF U
  <2>3. \A i \in 0 .. w : i \in U
    BY <2>1, <2>2, Rounds
  <2> QED  BY <2>3
<1>10. v[w] = n
  BY <1>3, <1>9
<1> QED  BY <1>5, <1>10 DEF digits

---------------------------------------------------------------------------
(* Parts of a sequence *)

(* The part p begins after `from` elements of s.                           *)
Holds(s, from, p) ==
    from + Len(p) <= Len(s) /\ \A i \in 1 .. Len(p) : s[from + i] = p[i]

(* What is sliced out of the place of a part is the part.                  *)
LEMMA HoldsSlice ==
    ASSUME NEW X, NEW s \in Seq(X), NEW p \in Seq(X), NEW from \in Nat, Holds(s, from, p)
    PROVE  Slice(s, from, Len(p)) = p
<1>1. Len(p) \in Nat /\ Len(s) \in Nat /\ from + Len(p) <= Len(s)
  BY DEF Holds
<1> DEFINE q == SubSeq(s, from + 1, from + Len(p))
<1>2. q \in Seq(X) /\ Len(q) = Len(p)
  BY <1>1
<1>3. \A i \in 1 .. Len(p) : q[i] = s[from + i]
  BY <1>1
<1> HIDE DEF q
<1>4. q = p
  BY <1>1, <1>2, <1>3 DEF Holds
<1> QED  BY <1>4 DEF q, Slice

(* A part of a part.                                                       *)
LEMMA HoldsPart ==
    ASSUME NEW X, NEW s \in Seq(X), NEW p \in Seq(X), NEW q \in Seq(X),
           NEW from \in Nat, NEW k \in Nat, Holds(s, from, p), Holds(p, k, q)
    PROVE  Holds(s, from + k, q)
<1>1. Len(p) \in Nat /\ Len(s) \in Nat /\ Len(q) \in Nat
  OBVIOUS
<1>2. from + k + Len(q) <= Len(s)
  BY <1>1 DEF Holds
<1>3. ASSUME NEW i \in 1 .. Len(q) PROVE s[(from + k) + i] = q[i]
  <2>1. k + i \in 1 .. Len(p) /\ from + (k + i) = (from + k) + i
    BY <1>1 DEF Holds
  <2>2. p[k + i] = q[i] /\ s[from + (k + i)] = p[k + i]
    BY <2>1 DEF Holds
  <2> QED  BY <2>1, <2>2
<1> QED  BY <1>2, <1>3 DEF Holds

(* The two parts of a concatenation.                                       *)
LEMMA HoldsConcat ==
    ASSUME NEW X, NEW a \in Seq(X), NEW b \in Seq(X)
    PROVE  /\ a \o b \in Seq(X) /\ Len(a \o b) = Len(a) + Len(b)
           /\ Holds(a \o b, 0, a) /\ Holds(a \o b, Len(a), b)
           /\ From(a \o b, Len(a)) = b
<1> DEFINE c == a \o b
<1>1. Len(a) \in Nat /\ Len(b) \in Nat
  OBVIOUS
<1>2. c \in Seq(X) /\ Len(c) = Len(a) + Len(b)
  OBVIOUS
<1>3. \A i \in 1 .. Len(a) : c[i] = a[i]
  OBVIOUS
<1>4. \A i \in 1 .. Len(b) : c[Len(a) + i] = b[i]
  OBVIOUS
<1> HIDE DEF c
<1>5. Holds(c, 0, a) /\ Holds(c, Len(a), b)
  BY <1>1, <1>2, <1>3, <1>4 DEF Holds
<1>6. Slice(c, Len(a), Len(b)) = b
  BY <1>1, <1>2, <1>5, HoldsSlice
<1> QED  BY <1>2, <1>5, <1>6 DEF c, Slice, From

(* Parts of the first and of the second half of a concatenation.           *)
LEMMA HoldsLeft ==
    ASSUME NEW X, NEW a \in Seq(X), NEW b \in Seq(X), NEW p \in Seq(X), NEW from \in Nat,
           Holds(a, from, p)
    PROVE  Holds(a \o b, from, p)
<1>1. a \o b \in Seq(X) /\ Holds(a \o b, 0, a)
  BY HoldsConcat
<1>2. Holds(a \o b, 0 + from, p)
  BY <1>1, HoldsPart
<1> QED  BY <1>2

(* A part of the second half.                                              *)
LEMMA HoldsRight ==
    ASSUME NEW X, NEW a \in Seq(X), NEW b \in Seq(X), NEW p \in Seq(X), NEW from \in Nat,
           Holds(b, from, p)
    PROVE  Holds(a \o b, Len(a) + from, p)
<1>1. a \o b \in Seq(X) /\ Holds(a \o b, Len(a), b) /\ Len(a) \in Nat
  BY HoldsConcat
<1> QED  BY <1>1, HoldsPart

(* What follows a part is where it was, seen from the end of the part.     *)
LEMMA HoldsFrom ==
    ASSUME NEW X, NEW s \in Seq(X), NEW p \in Seq(X), NEW from \in Nat, NEW k \in Nat,
           Holds(s, k + from, p)
    PROVE  /\ From(s, k) \in Seq(X) /\ Len(From(s, k)) = Len(s) - k
           /\ Holds(From(s, k), from, p)
<1>1. Len(p) \in Nat /\ Len(s) \in Nat /\ (k + from) + Len(p) <= Len(s)
  BY DEF Holds
<1> DEFINE t == SubSeq(s, k + 1, Len(s))
<1>2. t \in Seq(X) /\ Len(t) = Len(s) - k
  BY <1>1
<1>3. \A i \in 1 .. Len(t) : t[i] = s[k + i]
  BY <1>1
<1> HIDE DEF t
<1>4. ASSUME NEW i \in 1 .. Len(p) PROVE t[from + i] = p[i]
  <2>1. from + i \in 1 .. Len(t) /\ k + (from + i) = (k + from) + i
    BY <1>1, <1>2
  <2> QED  BY <1>3, <2>1 DEF Holds
<1>5. Holds(t, from, p)
  BY <1>1, <1>2, <1>4 DEF Holds
<1> QED  BY <1>2, <1>5 DEF t, From

(* A sequence that lost its end still holds what lies before.              *)
LEMMA HoldsCut ==
    ASSUME NEW X, NEW s \in Seq(X), NEW p \in Seq(X), NEW from \in Nat,
           NEW n \in 0 .. Len(s), Holds(s, from, p), from + Len(p) <= n
    PROVE  /\ SubSeq(s, 1, n) \in Seq(X) /\ Len(SubSeq(s, 1, n)) = n
           /\ Holds(SubSeq(s, 1, n), from, p)
<1>1. Len(p) \in Nat /\ Len(s) \in Nat /\ n \in Nat
  OBVIOUS
<1> DEFINE t == SubSeq(s, 1, n)
<1>2. t \in Seq(X) /\ Len(t) = n /\ \A i \in 1 .. n : t[i] = s[i]
  BY <1>1
<1> HIDE DEF t
<1>3. ASSUME NEW i \in 1 .. Len(p) PROVE t[from + i] = p[i]
  <2>1. from + i \in 1 .. n
    BY <1>1
  <2> QED  BY <1>2, <2>1 DEF Holds
<1>4. Holds(t, from, p)
  BY <1>1, <1>2, <1>3 DEF Holds
<1> QED  BY <1>2, <1>4 DEF t

---------------------------------------------------------------------------
(* Sequences of sequences, one behind the other *)

(* The loop of FlattenSeq.                                                 *)
LEMMA FlattenLoop ==
    ASSUME NEW X, NEW texts \in Seq(Seq(X))
    PROVE  \E F \in [0 .. Len(texts) -> Seq(X)] :
              /\ F[0] = <<>> /\ \A i \in 1 .. Len(texts) : F[i] = F[i - 1] \o texts[i]
              /\ FlattenSeq(texts) = F[Len(texts)]
<1> DEFINE n == Len(texts)
<1> DEFINE t(i) == texts[i]
<1> DEFINE Text == Seq(X)
<1> DEFINE step == [a \in (1 .. n) \X Text |-> a[2] \o t(a[1])]
<1> DEFINE IsFlat(f) == f = [i \in 1 .. n |-> IF i = 1 THEN t(i) ELSE f[i - 1] \o t(i)]
<1>1. n \in Nat /\ (\A i \in 1 .. n : t(i) \in Text) /\ <<>> \in Text
  OBVIOUS
<1>2. \A x, y \in Text : x \o y \in Text
  OBVIOUS
<1>3. \A x \in Text : <<>> \o x = x
  OBVIOUS
<1>4. CASE n = 0
  <2>1. texts = <<>> /\ FlattenSeq(texts) = texts
    BY <1>4 DEF FlattenSeq
  <2> DEFINE F == [i \in 0 .. 0 |-> <<>>]
  <2>2. F \in [0 .. n -> Seq(X)] /\ F[0] = <<>> /\ F[n] = <<>>
    BY <1>4
  <2> HIDE DEF F
  <2>3. \A i \in 1 .. n : F[i] = F[i - 1] \o texts[i]
    BY <1>4
  <2> QED  BY <2>1, <2>2, <2>3
<1>5. CASE n # 0
  <2>1. FlattenSeq(texts) = (CHOOSE f : IsFlat(f))[n]
    BY <1>5 DEF FlattenSeq
  <2>2. \A i \in 1 .. n : \A x \in Text : x \o t(i) \in Text
    BY <1>1, <1>2
  <2> HIDE DEF Text, t, n
  <2>3. step \in [(1 .. n) \X Text -> Text]
    BY <2>2
  <2>4. \A i \in 1 .. n : \A x \in Text : step[<<i, x>>] = x \o t(i)
    OBVIOUS
  <2> HIDE DEF step, IsFlat
  <2>5. \E q : IsRun(q, n, Text, <<>>, step)
    BY <1>1, <2>3, LoopRuns
  <2>6. PICK q : /\ q \in [0 .. n -> Text] /\ q[0] = <<>>
                 /\ \A i \in 1 .. n : q[i] = step[<<i, q[i - 1]>>]
    BY <2>5 DEF IsRun
  <2>7. ASSUME NEW i \in 1 .. n PROVE q[i] = q[i - 1] \o t(i) /\ q[i] \in Text
    <3>1. q[i] = step[<<i, q[i - 1]>>] /\ q[i - 1] \in Text /\ q[i] \in Text
      BY <2>6, <1>1
    <3> QED  BY <3>1, <2>4
  <2>8. \E g : IsFlat(g)
    <3> DEFINE g == [i \in 1 .. n |-> q[i]]
    <3>1. ASSUME NEW i \in 1 .. n PROVE g[i] = IF i = 1 THEN t(i) ELSE g[i - 1] \o t(i)
      <4>1. CASE i = 1
        <5>1. q[i] = <<>> \o t(i) /\ t(i) \in Text
          <6>1. i - 1 = 0 /\ q[i] = q[i - 1] \o t(i) /\ t(i) \in Text
            BY <1>1, <2>7, <4>1
          <6>2. q[i - 1] = <<>>
            BY <2>6, <6>1
          <6> QED  BY <6>1, <6>2
        <5> QED  BY <1>3, <4>1, <5>1
      <4>2. CASE i # 1
        <5>1. i - 1 \in 1 .. n /\ g[i - 1] = q[i - 1]
          BY <4>2, <1>1
        <5> QED  BY <4>2, <5>1, <2>7
      <4> QED  BY <4>1, <4>2
    <3>2. g = [i \in 1 .. n |-> g[i]]
      OBVIOUS
    <3> HIDE DEF g
    <3>3. IsFlat(g)
      BY <3>1, <3>2 DEF IsFlat
    <3> QED  BY <3>3
  <2> DEFINE f == CHOOSE f : IsFlat(f)
  <2>9. IsFlat(f)
    BY <2>8
  <2>10. FlattenSeq(texts) = f[n]
    BY <2>1
  <2> HIDE DEF f
  <2>11. \A i \in 1 .. n : f[i] = IF i = 1 THEN t(i) ELSE f[i - 1] \o t(i)
    BY <2>9 DEF IsFlat
  <2> DEFINE F == [i \in 0 .. n |-> IF i = 0 THEN <<>> ELSE f[i]]
  <2>12. \A i \in 1 .. n : f[i] \in Text
    <3> DEFINE T == {i \in 0 .. n : i > 0 => f[i] \in Text}
    <3>1. 0 \in T
      BY <1>1
    <3>2. ASSUME NEW i \in 1 .. n, i - 1 \in T PROVE i \in T
      <4>1. CASE i = 1
        BY <1>1, <2>11, <4>1
      <4>2. CASE i # 1
        <5>1. f[i - 1] \in Text /\ t(i) \in Text /\ f[i] = f[i - 1] \o t(i)
          <6>1. i - 1 > 0
            BY <4>2, <1>1
          <6>2. f[i - 1] \in Text
            BY <3>2, <6>1
          <6> HIDE DEF T
          <6> QED  BY <1>1, <2>11, <4>2, <6>2
        <5>2. f[i] \in Text
          BY <1>2, <5>1
        <5> QED  BY <5>2
      <4> QED  BY <4>1, <4>2
    <3> HIDE DEF T
    <3>3. \A i \in 0 .. n : i \in T
      BY <1>1, <3>1, <3>2, Rounds
    <3> QED  BY <3>3, <1>1 DEF T
  <2>13. F \in [0 .. n -> Text] /\ F[0] = <<>> /\ F[n] = f[n]
    BY <1>1, <1>5, <2>12
  <2>14. ASSUME NEW i \in 1 .. n PROVE F[i] = F[i - 1] \o t(i)
    <3>1. CASE i = 1
      <4>1. F[i] = t(i) /\ F[i - 1] = <<>> /\ t(i) \in Text
        BY <1>1, <2>11, <3>1
      <4> QED  BY <4>1, <1>3
    <3>2. CASE i # 1
      <4>1. i - 1 \in 1 .. n /\ i - 1 # 0 /\ i # 0
        BY <3>2, <1>1
      <4>2. F[i] = f[i] /\ F[i - 1] = f[i - 1]
        BY <4>1, <1>1
      <4> HIDE DEF F
      <4> QED  BY <2>11, <3>2, <4>2
    <3> QED  BY <3>1, <3>2
  <2> HIDE DEF F
  <2>15. \E G \in [0 .. n -> Text] :
            /\ G[0] = <<>> /\ \A i \in 1 .. n : G[i] = G[i - 1] \o t(i)
            /\ FlattenSeq(texts) = G[n]
    BY <2>10, <2>13, <2>14
  <2> QED  BY <2>15 DEF Text, t, n
<1> QED  BY <1>4, <1>5

(* The loop of EndsOf.                                                     *)
LEMMA EndsLoop ==
    ASSUME NEW X, NEW texts \in Seq(Seq(X))
    PROVE  \E e \in [0 .. Len(texts) -> Nat] :
              /\ e[0] = 0 /\ \A i \in 1 .. Len(texts) : e[i] = e[i - 1] + Len(texts[i])
              /\ EndsOf(texts) = [i \in 1 .. Len(texts) |-> e[i]]
<1> DEFINE n == Len(texts)
<1> DEFINE t(i) == Len(texts[i])
<1> DEFINE step == [a \in (1 .. n) \X Nat |-> a[2] + t(a[1])]
<1> DEFINE IsEnd(f) == f = [i \in 0 .. n |-> IF i = 0 THEN 0 ELSE f[i - 1] + t(i)]
<1>1. n \in Nat /\ \A i \in 1 .. n : t(i) \in Nat
  <2>1. \A i \in 1 .. n : texts[i] \in Seq(X)
    OBVIOUS
  <2> QED  BY <2>1
<1>2. EndsOf(texts) = [i \in DOMAIN texts |-> (CHOOSE f : IsEnd(f))[i]]
  BY DEF EndsOf
<1>3. DOMAIN texts = 1 .. n
  OBVIOUS
<1> HIDE DEF n, t
<1>4. step \in [(1 .. n) \X Nat -> Nat]
  BY <1>1
<1>5. \A i \in 1 .. n : \A x \in Nat : step[<<i, x>>] = x + t(i)
  OBVIOUS
<1> HIDE DEF step, IsEnd
<1>6. \E q : IsRun(q, n, Nat, 0, step)
  <2>1. 0 \in Nat
    OBVIOUS
  <2> QED  BY <1>1, <1>4, <2>1, LoopRuns
<1>7. PICK q : /\ q \in [0 .. n -> Nat] /\ q[0] = 0
               /\ \A i \in 1 .. n : q[i] = step[<<i, q[i - 1]>>]
  BY <1>6 DEF IsRun
<1>8. ASSUME NEW i \in 1 .. n PROVE q[i] = q[i - 1] + t(i)
  <2>1. q[i] = step[<<i, q[i - 1]>>] /\ q[i - 1] \in Nat
    BY <1>1, <1>7
  <2> QED  BY <2>1, <1>5
<1>9. \E g : IsEnd(g)
  <2>1. \A i \in 0 .. n : q[i] = IF i = 0 THEN 0 ELSE q[i - 1] + t(i)
    BY <1>1, <1>7, <1>8
  <2>2. q = [i \in 0 .. n |-> q[i]]
    BY <1>7
  <2>3. IsEnd(q)
    BY <2>1, <2>2 DEF IsEnd
  <2> QED  BY <2>3
<1> DEFINE f == CHOOSE f : IsEnd(f)
<1>10. IsEnd(f)
  BY <1>9
<1>11. EndsOf(texts) = [i \in 1 .. n |-> f[i]]
  BY <1>2, <1>3
<1> HIDE DEF f
<1>12. f = [i \in 0 .. n |-> f[i]]
  BY <1>10 DEF IsEnd
<1>13. f[0] = 0 /\ \A i \in 1 .. n : f[i] = f[i - 1] + t(i)
  <2>1. \A i \in 0 .. n : f[i] = IF i = 0 THEN 0 ELSE f[i - 1] + t(i)
    BY <1>10 DEF IsEnd
  <2> QED  BY ONLY <2>1, <1>1
<1>14. f \in [0 .. n -> Nat]
  <2> DEFINE T == {i \in 0 .. n : f[i] \in Nat}
  <2>1. 0 \in T
    BY <1>1, <1>13
  <2>2. ASSUME NEW i \in 1 .. n, i - 1 \in T PROVE i \in T
    BY <1>1, <1>13, <2>2
  <2> HIDE DEF T
  <2>3. \A i \in 0 .. n : i \in T
    BY <1>1, <2>1, <2>2, Rounds
  <2>4. \A i \in 0 .. n : f[i] \in Nat
    BY <2>3 DEF T
  <2> QED  BY <1>12, <2>4
<1> QED  BY <1>11, <1>13, <1>14 DEF n, t

(* e[i] is where the i-th of the parts of s ends.                          *)
Ends(e, texts, s) ==
    /\ e \in [0 .. Len(texts) -> Nat]
    /\ e[0] = 0 /\ \A i \in 1 .. Len(texts) : e[i] = e[i - 1] + Len(texts[i])
    /\ EndsOf(texts) = [i \in 1 .. Len(texts) |-> e[i]]
    /\ Len(s) = e[Len(texts)]
    /\ \A i \in 1 .. Len(texts) : Holds(s, e[i - 1], texts[i])
    /\ \A i \in 0 .. Len(texts) : e[i] <= e[Len(texts)]

(* A flattened sequence holds its parts, each behind the one before.       *)
LEMMA FlattenParts ==
    ASSUME NEW X, NEW texts \in Seq(Seq(X))
    PROVE  /\ FlattenSeq(texts) \in Seq(X)
           /\ \E e : Ends(e, texts, FlattenSeq(texts))
<1> DEFINE n == Len(texts)
<1> DEFINE Text == Seq(X)
<1>1. PICK F \in [0 .. n -> Text] :
          /\ F[0] = <<>> /\ \A i \in 1 .. n : F[i] = F[i - 1] \o texts[i]
          /\ FlattenSeq(texts) = F[n]
  BY FlattenLoop
<1>2. PICK e \in [0 .. n -> Nat] :
          /\ e[0] = 0 /\ \A i \in 1 .. n : e[i] = e[i - 1] + Len(texts[i])
          /\ EndsOf(texts) = [i \in 1 .. n |-> e[i]]
  BY EndsLoop
<1>3. n \in Nat /\ \A i \in 1 .. n : texts[i] \in Text
  OBVIOUS
<1> HIDE DEF n
<1> DEFINE Good(k) ==
        /\ Len(F[k]) = e[k]
        /\ \A i \in 1 .. k : Holds(F[k], e[i - 1], texts[i])
        /\ \A i \in 0 .. k : e[i] <= e[k]
<1> DEFINE T == {k \in 0 .. n : Good(k)}
<1>4. 0 \in T
  <2>1. Len(F[0]) = e[0]
    BY <1>1, <1>2
  <2>2. Good(0)
    BY <1>2, <1>3, <2>1
  <2> HIDE DEF Good
  <2> QED  BY <1>3, <2>2
<1>5. ASSUME NEW k \in 1 .. n, k - 1 \in T PROVE k \in T
  <2>0. Good(k - 1)
    BY <1>5
  <2>1. k - 1 \in 0 .. n /\ k \in 0 .. n /\ F[k - 1] \in Text /\ texts[k] \in Text
    <3>1. k - 1 \in 0 .. n /\ k \in 0 .. n
      BY <1>3
    <3> QED  BY <1>1, <1>3, <3>1
  <2>2. F[k] = F[k - 1] \o texts[k] /\ e[k] = e[k - 1] + Len(texts[k])
    BY <1>1, <1>2
  <2>3. Len(F[k - 1]) = e[k - 1] /\ e[k - 1] \in Nat
    BY <1>2, <2>0, <2>1
  <2>4. Len(texts[k]) \in Nat
    BY <2>1
  <2>5. Len(F[k]) = e[k] /\ Holds(F[k], e[k - 1], texts[k])
    <3> DEFINE a == F[k - 1]
    <3> DEFINE b == texts[k]
    <3>1. a \in Seq(X) /\ b \in Seq(X) /\ F[k] = a \o b /\ Len(a) = e[k - 1]
      BY <2>1, <2>2, <2>3
    <3> HIDE DEF a, b
    <3>2. Len(a \o b) = Len(a) + Len(b) /\ Holds(a \o b, Len(a), b)
      BY <3>1, HoldsConcat
    <3>3. e[k] = e[k - 1] + Len(b)
      BY <2>2 DEF b
    <3> QED  BY <3>1, <3>2, <3>3 DEF b
  <2>6. ASSUME NEW i \in 1 .. k PROVE Holds(F[k], e[i - 1], texts[i])
    <3>1. CASE i = k
      BY <2>5, <3>1
    <3>2. CASE i # k
      <4>1. i \in 1 .. k - 1 /\ i - 1 \in 0 .. n /\ i \in 1 .. n
        BY <1>3, <3>2
      <4>2. Holds(F[k - 1], e[i - 1], texts[i]) /\ e[i - 1] \in Nat /\ texts[i] \in Text
        BY <1>2, <1>3, <2>0, <4>1
      <4> HIDE DEF Good, T
      <4> QED  BY <2>1, <2>2, <4>2, HoldsLeft
    <3> QED  BY <3>1, <3>2
  <2>7. ASSUME NEW i \in 0 .. k PROVE e[i] <= e[k]
    <3>1. CASE i = k
      BY <1>2, <1>3, <3>1
    <3>2. CASE i # k
      <4>1. i \in 0 .. k - 1 /\ i \in 0 .. n
        BY <1>3, <3>2
      <4>2. e[i] <= e[k - 1] /\ e[i] \in Nat
        BY <1>2, <2>0, <4>1
      <4> QED  BY <2>2, <2>3, <2>4, <4>2
    <3> QED  BY <3>1, <3>2
  <2>8. Good(k)
    BY <2>5, <2>6, <2>7
  <2> HIDE DEF Good
  <2> QED  BY <2>1, <2>8
<1>6. Good(n)
  <2> HIDE DEF Good
  <2>1. 0 \in T /\ \A k \in 1 .. n : k - 1 \in T => k \in T
    BY <1>4, <1>5
  <2> HIDE DEF T
  <2>2. \A i \in 0 .. n : i \in T
    BY <1>3, <2>1, Rounds
  <2> QED  BY <1>3, <2>2 DEF T
<1>7. Ends(e, texts, FlattenSeq(texts))
  BY <1>1, <1>2, <1>6 DEF Ends, n
<1>8. F[n] \in Text
  BY <1>1, <1>3
<1> QED  BY <1>1, <1>7, <1>8

(* Parts of one width are a row of fields.                                 *)
LEMMA FlattenFields ==
    ASSUME NEW X, NEW w \in Nat, NEW texts \in Seq(Seq(X)),
           \A i \in 1 .. Len(texts) : Len(texts[i]) = w
    PROVE  /\ FlattenSeq(texts) \in Seq(X)
           /\ Len(FlattenSeq(texts)) = Len(texts) * w
           /\ \A i \in 1 .. Len(texts) :
                 (i - 1) * w \in Nat /\ Holds(FlattenSeq(texts), (i - 1) * w, texts[i])
<1> DEFINE n == Len(texts)
<1> DEFINE s == FlattenSeq(texts)
<1>1. s \in Seq(X) /\ n \in Nat
  BY FlattenParts
<1>2. PICK e : Ends(e, texts, s)
  BY FlattenParts
<1> HIDE DEF s
<1>3. /\ e \in [0 .. n -> Nat] /\ e[0] = 0
      /\ \A i \in 1 .. n : e[i] = e[i - 1] + w
      /\ Len(s) = e[n]
      /\ \A i \in 1 .. n : Holds(s, e[i - 1], texts[i])
  BY <1>2 DEF Ends
<1> HIDE DEF n
<1> DEFINE T == {i \in 0 .. n : e[i] = i * w}
<1>4. 0 \in T
  BY <1>1, <1>3
<1>5. ASSUME NEW i \in 1 .. n, i - 1 \in T PROVE i \in T
  <2>1. e[i] = e[i - 1] + w /\ e[i - 1] = (i - 1) * w
    BY <1>3, <1>5
  <2>2. (i - 1) * w + w = i * w
    OBVIOUS
  <2> QED  BY <2>1, <2>2
<1> HIDE DEF T
<1>6. \A i \in 0 .. n : i \in T
  BY <1>1, <1>4, <1>5, Rounds
<1>7. ASSUME NEW i \in 0 .. n PROVE e[i] = i * w /\ i * w \in Nat
  <2>1. e[i] = i * w
    BY <1>6 DEF T
  <2>2. e[i] \in Nat
    BY <1>3
  <2> QED  BY <2>1, <2>2
<1>8. Len(s) = n * w
  BY <1>1, <1>3, <1>7
<1>9. ASSUME NEW i \in 1 .. n PROVE (i - 1) * w \in Nat /\ Holds(s, (i - 1) * w, texts[i])
  <2> DEFINE k == i - 1
  <2>1. k \in 0 .. n /\ Holds(s, e[k], texts[i])
    <3>1. k \in 0 .. n
      BY <1>1
    <3>2. Holds(s, e[i - 1], texts[i])
      BY <1>3
    <3> QED  BY <3>1, <3>2
  <2> HIDE DEF k
  <2>2. k * w \in Nat /\ Holds(s, k * w, texts[i])
    BY <1>7, <2>1
  <2> QED  BY <2>2 DEF k
<1> QED  BY <1>1, <1>8, <1>9 DEF s, n

---------------------------------------------------------------------------
(* The two widths of integers *)

(* A power of at least one factor.                                         *)
LEMMA PowerFactor ==
    ASSUME NEW base \in Nat \ {0}, NEW n \in Nat \ {0}
    PROVE  \E k \in Nat \ {0} : Power(base, n) = base * k
<1>1. PICK p \in [0 .. n -> Nat \ {0}] :
          /\ p[0] = 1 /\ \A i \in 1 .. n : p[i] = base * p[i - 1]
          /\ Power(base, n) = p[n]
  BY PowerLoop
<1>2. n \in 1 .. n /\ n - 1 \in 0 .. n
  OBVIOUS
<1>3. p[n] = base * p[n - 1] /\ p[n - 1] \in Nat \ {0}
  BY <1>1, <1>2
<1> QED  BY <1>1, <1>3

(* A byte has at least two values; the i64s are half negative.             *)
LEMMA WidthFacts ==
    /\ Bits \in Nat \ {0} /\ U32Bytes \in Nat \ {0} /\ I64Bytes \in Nat \ {0}
    /\ Base \in Nat \ {0} /\ Base >= 2
    /\ U32End \in Nat /\ U32End >= 2 /\ U32Max = U32End - 1
    /\ \E h \in Nat \ {0} : I64End = 2 * h /\ I64Min = - h /\ I64Max = h - 1
<1>1. Bits \in Nat \ {0} /\ U32Bytes \in Nat \ {0} /\ I64Bytes \in Nat \ {0}
  BY WidthAssumption
<1>2. PICK k \in Nat \ {0} : Base = 2 * k
  <2>1. 2 \in Nat \ {0}
    OBVIOUS
  <2> QED  BY <1>1, <2>1, PowerFactor DEF Base
<1>3. Base \in Nat \ {0} /\ Base >= 2
  BY <1>2
<1>4. U32End \in Nat /\ U32End >= 2
  <2>1. PICK m \in Nat \ {0} : U32End = Base * m
    BY <1>1, <1>3, PowerFactor DEF U32End
  <2>2. Base * m = 2 * (k * m) /\ k * m \in Nat \ {0}
    BY <1>2
  <2> QED  BY <2>1, <2>2
<1>5. \E h \in Nat \ {0} : I64End = 2 * h /\ I64Min = - h /\ I64Max = h - 1
  <2>1. PICK m \in Nat \ {0} : I64End = Base * m
    BY <1>1, <1>3, PowerFactor DEF I64End
  <2> DEFINE h == k * m
  <2>2. Base * m = 2 * h /\ h \in Nat \ {0}
    BY <1>2
  <2> HIDE DEF h
  <2>3. (2 * h) \div 2 = h
    BY <2>2
  <2>4. I64Min = - h /\ I64Max = h - 1
    BY <2>1, <2>2, <2>3, WidthAssumption
  <2> QED  BY <2>1, <2>2, <2>4
<1> QED  BY <1>1, <1>3, <1>4, <1>5 DEF U32Max

(* Bytes are numbers.                                                      *)
LEMMA BytesAreInts == \A s : s \in Seq(Byte) => s \in Seq(Int)
<1> SUFFICES ASSUME NEW s \in Seq(Byte) PROVE s \in Seq(Int)
  OBVIOUS
<1>1. Byte \subseteq Int
  BY WidthFacts DEF Byte
<1>2. Len(s) \in Nat /\ \A i \in 1 .. Len(s) : s[i] \in Int
  <2>1. Len(s) \in Nat /\ \A i \in 1 .. Len(s) : s[i] \in Byte
    OBVIOUS
  <2> QED  BY <1>1, <2>1
<1>3. s = [i \in 1 .. Len(s) |-> s[i]]
  OBVIOUS
<1>4. [i \in 1 .. Len(s) |-> s[i]] \in Seq(Int)
  BY <1>2
<1> QED  BY <1>3, <1>4

(* A u32 that is written is read back.                                     *)
LEMMA U32Written ==
    ASSUME NEW n \in 0 .. U32Max
    PROVE  U32(n) \in Seq(Byte) /\ Len(U32(n)) = U32Bytes /\ Number(U32(n), Base) = n
<1>1. n \in Int /\ n \in 0 .. Power(Base, U32Bytes) - 1
  BY WidthFacts DEF U32Max, U32End
<1>2. Base \in Nat \ {0} /\ U32Bytes \in Nat
  BY WidthFacts
<1>3. U32(n) \in Seq(Byte) /\ Len(U32(n)) = U32Bytes
  BY <1>1, <1>2, DigitsType DEF U32, Byte
<1>4. Number(Digits(n, Base, U32Bytes), Base) = n
  BY <1>1, <1>2, NumberOfDigits
<1> QED  BY <1>3, <1>4 DEF U32

(* u32_at finds a u32 where one was written.                               *)
LEMMA U32Read ==
    ASSUME NEW s \in Seq(Int), NEW from \in Nat, NEW n \in 0 .. U32Max,
           Holds(s, from, U32(n))
    PROVE  U32At(s, from) = n
<1>1. U32(n) \in Seq(Byte) /\ Len(U32(n)) = U32Bytes /\ Number(U32(n), Base) = n
  BY U32Written
<1>2. U32(n) \in Seq(Int)
  BY <1>1, BytesAreInts
<1>3. Slice(s, from, U32Bytes) = U32(n)
  BY <1>1, <1>2, HoldsSlice
<1> QED  BY <1>1, <1>3 DEF U32At

(* A slice that lies within the sequence.                                  *)
LEMMA SliceType ==
    ASSUME NEW X, NEW s \in Seq(X), NEW from \in Nat, NEW w \in Nat, from + w <= Len(s)
    PROVE  Slice(s, from, w) \in Seq(X) /\ Len(Slice(s, from, w)) = w
<1>1. Len(s) \in Nat
  OBVIOUS
<1> QED  BY <1>1 DEF Slice

(* Any bytes are a u32.                                                    *)
LEMMA U32AtType ==
    ASSUME NEW s \in Seq(Byte), NEW from \in Nat, from + U32Bytes <= Len(s)
    PROVE  U32At(s, from) \in 0 .. U32Max
<1> DEFINE d == Slice(s, from, U32Bytes)
<1>1. d \in Seq(Byte) /\ Len(d) = U32Bytes
  BY SliceType, WidthFacts
<1> HIDE DEF d
<1>2. Number(d, Base) \in 0 .. Power(Base, Len(d)) - 1
  <2>1. d \in Seq(0 .. Base - 1) /\ Base \in Nat \ {0}
    BY <1>1, WidthFacts DEF Byte
  <2> QED  BY <2>1, NumberBound
<1> QED  BY <1>1, <1>2 DEF U32At, U32Max, U32End, d

(* An i64 that is written is read back.                                    *)
LEMMA I64Written ==
    ASSUME NEW n \in I64
    PROVE  I64LE(n) \in Seq(Byte) /\ Len(I64LE(n)) = I64Bytes /\ Signed(I64LE(n)) = n
<1>1. PICK h \in Nat \ {0} : I64End = 2 * h /\ I64Min = - h /\ I64Max = h - 1
  BY WidthFacts
<1>2. n \in Int /\ - h <= n /\ n < h
  BY <1>1 DEF I64
<1> DEFINE m == IF n < 0 THEN n + 2 * h ELSE n
<1>3. n % I64End = m
  <2>1. CASE n < 0
    <3>1. n = (2 * h) * (-1) + m /\ m \in 0 .. 2 * h - 1
      BY <1>2, <2>1
    <3> HIDE DEF m
    <3>2. ((2 * h) * (-1) + m) % (2 * h) = m
      BY <3>1, DivModUnique
    <3> QED  BY <1>1, <3>1, <3>2
  <2>2. CASE ~ (n < 0)
    <3>1. n = (2 * h) * 0 + m /\ m \in 0 .. 2 * h - 1
      BY <1>2, <2>2
    <3> HIDE DEF m
    <3>2. ((2 * h) * 0 + m) % (2 * h) = m
      BY <3>1, DivModUnique
    <3> QED  BY <1>1, <3>1, <3>2
  <2> QED  BY <2>1, <2>2
<1>4. m \in Int /\ m \in 0 .. Power(Base, I64Bytes) - 1
  BY <1>1, <1>2 DEF I64End
<1>5. Base \in Nat \ {0} /\ I64Bytes \in Nat
  BY WidthFacts
<1>6. IF m > I64Max THEN m - I64End = n ELSE m = n
  BY <1>1, <1>2
<1> HIDE DEF m
<1>7. I64LE(n) \in Seq(Byte) /\ Len(I64LE(n)) = I64Bytes
  BY <1>3, <1>4, <1>5, DigitsType DEF I64LE, Byte
<1>8. Number(Digits(m, Base, I64Bytes), Base) = m
  BY <1>4, <1>5, NumberOfDigits
<1>9. Signed(I64LE(n)) = IF m > I64Max THEN m - I64End ELSE m
  BY <1>3, <1>8 DEF Signed, I64LE
<1> QED  BY <1>6, <1>7, <1>9

(* And so an i64.                                                          *)
LEMMA I64Read ==
    ASSUME NEW s \in Seq(Int), NEW from \in Nat, NEW n \in I64, Holds(s, from, I64LE(n))
    PROVE  Signed(Slice(s, from, I64Bytes)) = n
<1>1. I64LE(n) \in Seq(Byte) /\ Len(I64LE(n)) = I64Bytes /\ Signed(I64LE(n)) = n
  BY I64Written
<1>2. I64LE(n) \in Seq(Int)
  BY <1>1, BytesAreInts
<1>3. Slice(s, from, I64Bytes) = I64LE(n)
  BY <1>1, <1>2, HoldsSlice
<1> QED  BY <1>1, <1>3

(* Any bytes are an i64.                                                   *)
LEMMA SignedType ==
    ASSUME NEW s \in Seq(Byte), Len(s) = I64Bytes
    PROVE  Signed(s) \in I64
<1>1. PICK h \in Nat \ {0} : I64End = 2 * h /\ I64Min = - h /\ I64Max = h - 1
  BY WidthFacts
<1>2. s \in Seq(0 .. Base - 1) /\ Base \in Nat \ {0}
  BY WidthFacts DEF Byte
<1> DEFINE n == Number(s, Base)
<1>3. n \in 0 .. I64End - 1
  BY <1>2, NumberBound DEF I64End
<1> HIDE DEF n
<1>4. (IF n > I64Max THEN n - I64End ELSE n) \in I64Min .. I64Max
  BY <1>1, <1>3
<1> QED  BY <1>4 DEF Signed, I64, n

---------------------------------------------------------------------------
(* Bits in bytes *)

(* An offset is a byte and a bit of it.                                    *)
LEMMA OffsetSplit ==
    ASSUME NEW i \in Nat
    PROVE  /\ i \div Bits \in Nat /\ i % Bits \in 0 .. Bits - 1
           /\ i = Bits * (i \div Bits) + (i % Bits)
<1>1. Bits \in Nat \ {0} /\ i \in Int /\ i >= 0
  BY WidthFacts
<1>2. /\ i \div Bits \in Int /\ i % Bits \in 0 .. Bits - 1
      /\ i = Bits * (i \div Bits) + (i % Bits)
      /\ i >= 0 => i \div Bits >= 0
  BY ONLY <1>1, DivMod
<1> QED  BY <1>1, <1>2

(* A byte and a bit of it are an offset.                                   *)
LEMMA OffsetJoin ==
    ASSUME NEW k \in Nat, NEW j \in 0 .. Bits - 1
    PROVE  (Bits * k + j) \div Bits = k /\ (Bits * k + j) % Bits = j
<1>1. Bits \in Nat \ {0} /\ k \in Int
  BY WidthFacts
<1> QED  BY <1>1, DivModUnique

(* A bitmap is long enough for every offset, and no longer.                *)
LEMMA CeilDivFacts ==
    ASSUME NEW n \in Nat
    PROVE  /\ CeilDiv(n) \in Nat
           /\ \A i \in Nat : i < n => i \div Bits < CeilDiv(n)
           /\ \A i \in Nat : i < n => i \div Bits + 1 \in 1 .. CeilDiv(n)
<1>1. Bits \in Nat \ {0}
  BY WidthFacts
<1> DEFINE m == n + Bits - 1
<1> DEFINE c == CeilDiv(n)
<1>2. m \in Nat
  BY <1>1
<1>3. c \in Nat /\ m % Bits \in 0 .. Bits - 1 /\ m = Bits * c + (m % Bits)
  <2>1. c = m \div Bits
    BY DEF CeilDiv
  <2> QED  BY <1>2, <2>1, OffsetSplit
<1> HIDE DEF c
<1>4. ASSUME NEW i \in Nat, i < n PROVE i \div Bits < c
  <2> DEFINE q == i \div Bits
  <2> DEFINE r == i % Bits
  <2>1. q \in Nat /\ r \in 0 .. Bits - 1 /\ i = Bits * q + r
    BY OffsetSplit
  <2>2. i + Bits <= m
    BY <1>1, <1>4
  <2> DEFINE e == m % Bits
  <2>3. e \in 0 .. Bits - 1 /\ m = Bits * c + e /\ m \in Int
    BY <1>2, <1>3
  <2> HIDE DEF q, r, e, m
  <2> DEFINE u == Bits * q
  <2> DEFINE v == Bits * c
  <2>4. u \in Int /\ v \in Int
    BY <1>1, <1>3, <2>1
  <2>5. u < v
    <3>1. u + r + Bits <= v + e
      BY <2>1, <2>2, <2>3
    <3> HIDE DEF u, v
    <3> QED  BY <1>1, <2>1, <2>3, <2>4, <3>1
  <2>6. Bits * q + 0 < Bits * c
    <3> HIDE DEF c
    <3>1. Bits * q + 0 = u
      BY <2>4
    <3> QED  BY <2>5, <3>1
  <2>7. q \in Int /\ c \in Int /\ 0 \in 0 .. Bits - 1
    BY <1>1, <1>3, <2>1
  <2>8. q < c
    BY ONLY <1>1, <2>6, <2>7, DigitLess
  <2> QED  BY <2>8 DEF q
<1>5. ASSUME NEW i \in Nat, i < n PROVE i \div Bits + 1 \in 1 .. c
  <2>1. i \div Bits \in Nat
    BY OffsetSplit
  <2> QED  BY <1>3, <1>4, <1>5, <2>1
<1> QED  BY <1>3, <1>4, <1>5 DEF c

(* The bytes of a bitmap.                                                  *)
LEMMA BitmapBytes ==
    ASSUME NEW size \in Nat, NEW set
    PROVE  /\ Bitmap(size, set) \in Seq(Byte) /\ Len(Bitmap(size, set)) = CeilDiv(size)
           /\ \A k \in 1 .. CeilDiv(size) :
                 Digits(Bitmap(size, set)[k], 2, Bits)
                    = [j \in 1 .. Bits |-> IF Bits * (k - 1) + (j - 1) \in set THEN 1 ELSE 0]
<1>1. Bits \in Nat /\ CeilDiv(size) \in Nat
  BY WidthFacts, CeilDivFacts
<1> DEFINE bits(k) == [j \in 1 .. Bits |-> IF Bits * (k - 1) + (j - 1) \in set THEN 1 ELSE 0]
<1>2. ASSUME NEW k \in 1 .. CeilDiv(size)
      PROVE  /\ Number(bits(k), 2) \in Byte
             /\ Digits(Number(bits(k), 2), 2, Bits) = bits(k)
  <2> DEFINE b == bits(k)
  <2>1. b \in Seq(0 .. 2 - 1) /\ Len(b) = Bits
    BY <1>1
  <2>2. 2 \in Nat \ {0}
    OBVIOUS
  <2> HIDE DEF b, bits
  <2>3. Number(b, 2) \in 0 .. Power(2, Len(b)) - 1
    BY <2>1, <2>2, NumberBound
  <2>4. Digits(Number(b, 2), 2, Len(b)) = b
    BY <2>1, <2>2, DigitsOfNumber
  <2> QED  BY <2>1, <2>3, <2>4 DEF b, Byte, Base
<1>3. Bitmap(size, set) = [k \in 1 .. CeilDiv(size) |-> Number(bits(k), 2)]
  BY DEF Bitmap
<1> HIDE DEF bits
<1>4. /\ Bitmap(size, set) \in Seq(Byte) /\ Len(Bitmap(size, set)) = CeilDiv(size)
      /\ \A k \in 1 .. CeilDiv(size) : Digits(Bitmap(size, set)[k], 2, Bits) = bits(k)
  BY <1>1, <1>2, <1>3
<1> QED  BY <1>4 DEF bits

(* A bit is set for exactly the members of the set.                        *)
LEMMA BitmapBit ==
    ASSUME NEW size \in Nat, NEW set, NEW i \in 0 .. size - 1
    PROVE  BitSet(Bitmap(size, set), i) <=> i \in set
<1> DEFINE k == (i \div Bits) + 1
<1> DEFINE j == (i % Bits) + 1
<1>1. i \in Nat /\ i < size
  OBVIOUS
<1>2. k \in 1 .. CeilDiv(size)
  BY <1>1, CeilDivFacts
<1>3. j \in 1 .. Bits /\ Bits * (k - 1) + (j - 1) = i
  <2>1. /\ i \div Bits \in Nat /\ i % Bits \in 0 .. Bits - 1
        /\ i = Bits * (i \div Bits) + (i % Bits)
    BY <1>1, OffsetSplit
  <2>2. k - 1 = i \div Bits /\ j - 1 = i % Bits /\ Bits \in Nat
    BY <2>1, WidthFacts
  <2> QED  BY <2>1, <2>2
<1>4. BitSet(Bitmap(size, set), i) <=> Digits(Bitmap(size, set)[k], 2, Bits)[j] = 1
  BY DEF BitSet
<1> HIDE DEF k, j
<1>5. Digits(Bitmap(size, set)[k], 2, Bits)
          = [l \in 1 .. Bits |-> IF Bits * (k - 1) + (l - 1) \in set THEN 1 ELSE 0]
  BY <1>2, BitmapBytes
<1>6. Digits(Bitmap(size, set)[k], 2, Bits)[j] = IF Bits * (k - 1) + (j - 1) \in set THEN 1 ELSE 0
  BY <1>3, <1>5
<1> QED  BY <1>3, <1>4, <1>6

(* Setting the bit of an offset adds it to the set.                        *)
LEMMA BitmapAdd ==
    ASSUME NEW size \in Nat, NEW set, NEW i \in 0 .. size - 1
    PROVE  [Bitmap(size, set) EXCEPT ![(i \div Bits) + 1] = WithBit(@, i % Bits)]
              = Bitmap(size, set \cup {i})
<1> DEFINE k == (i \div Bits) + 1
<1> DEFINE j == (i % Bits) + 1
<1> DEFINE bits(s, l) == [m \in 1 .. Bits |-> IF Bits * (l - 1) + (m - 1) \in s THEN 1 ELSE 0]
<1> DEFINE add == set \cup {i}
<1>1. i \in Nat /\ i < size /\ Bits \in Nat \ {0} /\ CeilDiv(size) \in Nat
  BY WidthFacts, CeilDivFacts
<1>2. k \in 1 .. CeilDiv(size)
  BY <1>1, CeilDivFacts
<1>3. j \in 1 .. Bits /\ Bits * (k - 1) + (j - 1) = i
  <2>1. /\ i \div Bits \in Nat /\ i % Bits \in 0 .. Bits - 1
        /\ i = Bits * (i \div Bits) + (i % Bits)
    BY <1>1, OffsetSplit
  <2>2. k - 1 = i \div Bits /\ j - 1 = i % Bits
    BY <2>1, <1>1
  <2> QED  BY <1>1, <2>1, <2>2
<1>4. ASSUME NEW l \in 1 .. CeilDiv(size), NEW m \in 1 .. Bits,
             Bits * (l - 1) + (m - 1) = i
      PROVE  l = k /\ m = j
  <2>1. l - 1 \in Nat /\ m - 1 \in 0 .. Bits - 1
    BY <1>1
  <2>2. (Bits * (l - 1) + (m - 1)) \div Bits = l - 1 /\ (Bits * (l - 1) + (m - 1)) % Bits = m - 1
    BY ONLY <2>1, OffsetJoin
  <2>3. i \div Bits = l - 1 /\ i % Bits = m - 1
    BY <1>4, <2>2
  <2> QED  BY <1>1, <2>3
<1>5. Bitmap(size, set) = [l \in 1 .. CeilDiv(size) |-> Number(bits(set, l), 2)]
  BY DEF Bitmap
<1>6. Bitmap(size, add) = [l \in 1 .. CeilDiv(size) |-> Number(bits(add, l), 2)]
  BY DEF Bitmap
<1>7. \A b : WithBit(b, i % Bits) = Number([Digits(b, 2, Bits) EXCEPT ![j] = 1], 2)
  BY DEF WithBit
<1>8. Digits(Bitmap(size, set)[k], 2, Bits) = bits(set, k)
  BY <1>2, BitmapBytes
<1>9. [bits(set, k) EXCEPT ![j] = 1] = bits(add, k)
  <2>1. ASSUME NEW m \in 1 .. Bits
        PROVE  [bits(set, k) EXCEPT ![j] = 1][m] = bits(add, k)[m]
    <3> DEFINE o == Bits * (k - 1) + (m - 1)
    <3>1. bits(set, k)[m] = (IF o \in set THEN 1 ELSE 0) /\ bits(add, k)[m] = (IF o \in add THEN 1 ELSE 0)
      OBVIOUS
    <3>2. m = j <=> o = i
      BY <1>2, <1>3, <1>4
    <3> HIDE DEF o, j
    <3> QED  BY <3>1, <3>2
  <2> QED  BY <2>1
<1>10. ASSUME NEW l \in 1 .. CeilDiv(size), l # k
       PROVE  bits(set, l) = bits(add, l)
  <2>1. ASSUME NEW m \in 1 .. Bits PROVE bits(set, l)[m] = bits(add, l)[m]
    <3> DEFINE o == Bits * (l - 1) + (m - 1)
    <3>1. bits(set, l)[m] = (IF o \in set THEN 1 ELSE 0) /\ bits(add, l)[m] = (IF o \in add THEN 1 ELSE 0)
      OBVIOUS
    <3>2. o # i
      BY <1>4, <1>10
    <3> HIDE DEF o
    <3> QED  BY <3>1, <3>2
  <2> QED  BY <2>1
<1> HIDE DEF k, j, bits, add
<1>11. WithBit(Bitmap(size, set)[k], i % Bits) = Number(bits(add, k), 2)
  BY <1>7, <1>8, <1>9
<1>12. [Bitmap(size, set) EXCEPT ![k] = WithBit(@, i % Bits)] = Bitmap(size, add)
  BY <1>2, <1>5, <1>6, <1>10, <1>11
<1> QED  BY <1>12 DEF k, add

---------------------------------------------------------------------------
(* deletes.bm *)

(* The file of a count and a bitmap loads as the two.                      *)
LEMMA DeletesLoad ==
    ASSUME NEW count \in 0 .. U32Max, NEW bitmap \in Seq(Byte)
    PROVE  Load(DeletesFile(count, bitmap)) = {[count |-> count, bitmap |-> bitmap]}
<1> DEFINE a == << DelMagic >>
<1> DEFINE b == U32(FormatVersion)
<1> DEFINE c == U32(count)
<1> DEFINE z == Zeros(2 * U32Bytes)
<1>1. FormatVersion \in 0 .. U32Max /\ U32Bytes \in Nat
  BY WidthFacts DEF FormatVersion
<1>2. a \in Seq(Int) /\ Len(a) = 1 /\ a[1] = DelMagic
  BY DEF DelMagic
<1>3. b \in Seq(Int) /\ c \in Seq(Int) /\ Len(b) = U32Bytes /\ Len(c) = U32Bytes
  BY <1>1, U32Written, BytesAreInts
<1>4. z \in Seq(Int) /\ Len(z) = 2 * U32Bytes /\ bitmap \in Seq(Int)
  BY <1>1, BytesAreInts DEF Zeros
<1> HIDE DEF a, z
<1> DEFINE ab == a \o b
<1> DEFINE abc == ab \o c
<1> DEFINE head == abc \o z
<1> DEFINE file == head \o bitmap
<1>5. ab \in Seq(Int) /\ Len(ab) = 1 + U32Bytes /\ Holds(ab, 0, a) /\ Holds(ab, 1, b)
  <2> HIDE DEF b, c
  <2>1. ab \in Seq(Int) /\ Len(ab) = Len(a) + Len(b) /\ Holds(ab, 0, a) /\ Holds(ab, Len(a), b)
    BY <1>2, <1>3, HoldsConcat
  <2> QED  BY <1>2, <1>3, <2>1
<1> HIDE DEF ab, b, c
<1>6. abc \in Seq(Int) /\ Len(abc) = 1 + 2 * U32Bytes /\ Holds(abc, 0, ab) /\ Holds(abc, 1 + U32Bytes, c)
  <2>1. /\ abc \in Seq(Int) /\ Len(abc) = Len(ab) + Len(c)
        /\ Holds(abc, 0, ab) /\ Holds(abc, Len(ab), c)
    BY <1>3, <1>5, HoldsConcat
  <2>2. Len(ab) + Len(c) = 1 + 2 * U32Bytes
    BY <1>1, <1>3, <1>5
  <2> HIDE DEF abc
  <2> QED  BY <1>5, <2>1, <2>2
<1> HIDE DEF abc
<1>7. head \in Seq(Int) /\ Len(head) = DelHeaderSize /\ Holds(head, 0, abc)
  <2>1. head \in Seq(Int) /\ Len(head) = Len(abc) + Len(z) /\ Holds(head, 0, abc)
    BY <1>4, <1>6, HoldsConcat
  <2>2. Len(abc) + Len(z) = DelHeaderSize
    BY <1>1, <1>4, <1>6 DEF DelHeaderSize
  <2> QED  BY <2>1, <2>2
<1> HIDE DEF head
<1>8. file \in Seq(Int) /\ Len(file) = DelHeaderSize + Len(bitmap) /\ Holds(file, 0, head)
      /\ From(file, DelHeaderSize) = bitmap
  <2>1. file \in Seq(Int) /\ Len(file) = Len(head) + Len(bitmap) /\ Holds(file, 0, head)
        /\ From(file, Len(head)) = bitmap
    <3>1. head \in Seq(Int) /\ bitmap \in Seq(Int)
      BY <1>4, <1>7
    <3> QED  BY ONLY <3>1, HoldsConcat
  <2> HIDE DEF file
  <2> QED  BY <1>7, <2>1
<1> HIDE DEF file
<1>9. Holds(file, 0, abc)
  <2>1. Holds(file, 0 + 0, abc)
    BY <1>6, <1>7, <1>8, HoldsPart
  <2> QED  BY <2>1
<1>10. Holds(file, 1 + U32Bytes, c)
  <2>1. Holds(file, 0 + (1 + U32Bytes), c)
    BY <1>1, <1>3, <1>6, <1>8, <1>9, HoldsPart
  <2> QED  BY <1>1, <2>1
<1>11. Holds(file, 0, ab)
  <2>1. Holds(file, 0 + 0, ab)
    BY <1>5, <1>6, <1>8, <1>9, HoldsPart
  <2> QED  BY <2>1
<1>12. Holds(file, 1, b)
  <2>1. Holds(file, 0 + 1, b)
    BY <1>3, <1>5, <1>8, <1>11, HoldsPart
  <2> QED  BY <2>1
<1>13. Holds(file, 0, a)
  <2>1. Holds(file, 0 + 0, a)
    BY <1>2, <1>5, <1>8, <1>11, HoldsPart
  <2> QED  BY <2>1
<1>14. file[1] = DelMagic
  <2>1. file[0 + 1] = a[1]
    BY <1>2, <1>13 DEF Holds
  <2> QED  BY <1>2, <2>1
<1>15. U32At(file, 1) = FormatVersion
  BY <1>1, <1>8, <1>12, U32Read DEF b
<1>16. U32At(file, 1 + U32Bytes) = count
  BY <1>1, <1>8, <1>10, U32Read DEF c
<1>17. Len(file) >= DelHeaderSize
  <2>1. Len(bitmap) \in Nat /\ DelHeaderSize \in Nat
    BY <1>1, <1>4 DEF DelHeaderSize
  <2> QED  BY <1>8, <2>1
<1>18. DeletesFile(count, bitmap) = file
  BY DEF DeletesFile, file, head, abc, ab, a, b, c, z
<1>19. U32At(file, 1) <= FormatVersion
  BY <1>15 DEF FormatVersion
<1> QED  BY <1>8, <1>14, <1>16, <1>17, <1>18, <1>19 DEF Load

(* The offsets a bitmap was made of are the ones it says are deleted.      *)
LEMMA DeletesHoldSet ==
    ASSUME NEW count \in 0 .. U32Max, NEW set \in SUBSET (0 .. GroupSize - 1)
    PROVE  DeletedIn(DeletesFile(count, Bitmap(GroupSize, set))) = set
<1> DEFINE bm == Bitmap(GroupSize, set)
<1>1. GroupSize \in Nat
  BY FileAssumption
<1>2. bm \in Seq(Byte) /\ Len(bm) = CeilDiv(GroupSize)
  BY <1>1, BitmapBytes
<1>3. \A o \in 0 .. GroupSize - 1 : BitSet(bm, o) <=> o \in set
  BY <1>1, BitmapBit
<1>4. \A o \in 0 .. GroupSize - 1 : o \div Bits < Len(bm)
  BY <1>1, <1>2, CeilDivFacts
<1> HIDE DEF bm
<1>5. Load(DeletesFile(count, bm)) = {[count |-> count, bitmap |-> bm]}
  BY <1>2, DeletesLoad
<1>6. DeletedIn(DeletesFile(count, bm)) = {o \in 0 .. GroupSize - 1 : IsDeleted(bm, o)}
  BY <1>5 DEF DeletedIn
<1>7. \A o \in 0 .. GroupSize - 1 : IsDeleted(bm, o) <=> o \in set
  BY <1>3, <1>4 DEF IsDeleted
<1> QED  BY <1>6, <1>7 DEF bm

(* mark_deleted of a live offset adds it and counts it.                    *)
LEMMA MarkDeletedAdds ==
    ASSUME NEW count \in 0 .. U32Max, NEW set \in SUBSET (0 .. GroupSize - 1),
           NEW o \in 0 .. GroupSize - 1, o \notin set
    PROVE  MarkDeleted(DeletesFile(count, Bitmap(GroupSize, set)), o)
              = {DeletesFile(count + 1, Bitmap(GroupSize, set \cup {o}))}
<1> DEFINE bm == Bitmap(GroupSize, set)
<1>1. GroupSize \in Nat
  BY FileAssumption
<1>2. bm \in Seq(Byte) /\ Len(bm) = CeilDiv(GroupSize)
  BY <1>1, BitmapBytes
<1>3. ~ IsDeleted(bm, o)
  BY <1>1, BitmapBit DEF IsDeleted
<1>4. o \div Bits < Len(bm)
  BY <1>1, <1>2, CeilDivFacts
<1>5. [bm EXCEPT ![(o \div Bits) + 1] = WithBit(@, o % Bits)] = Bitmap(GroupSize, set \cup {o})
  BY <1>1, BitmapAdd
<1> HIDE DEF bm
<1>6. Load(DeletesFile(count, bm)) = {[count |-> count, bitmap |-> bm]}
  BY <1>2, DeletesLoad
<1> DEFINE f == [count |-> count, bitmap |-> bm]
<1>7. f.count = count /\ f.bitmap = bm
  OBVIOUS
<1> HIDE DEF f
<1>8. MarkDeleted(DeletesFile(count, bm), o)
        = {DeletesFile(count + 1, [bm EXCEPT ![(o \div Bits) + 1] = WithBit(@, o % Bits)])}
  BY <1>3, <1>4, <1>6, <1>7 DEF MarkDeleted, f
<1> QED  BY <1>5, <1>8 DEF bm

(* A new deletes.bm is the one of no offsets.                              *)
LEMMA EmptyDeletesIs ==
    EmptyDeletes(GroupSize) = DeletesFile(0, Bitmap(GroupSize, {}))
<1>1. GroupSize \in Nat /\ Bits \in Nat /\ 2 \in Nat \ {0} /\ CeilDiv(GroupSize) \in Nat
  BY FileAssumption, WidthFacts, CeilDivFacts
<1> DEFINE d == [j \in 1 .. Bits |-> 0]
<1>2. d \in Seq(Int) /\ Len(d) = Bits
  BY <1>1
<1>3. Number(d, 2) = 0
  <2>1. \A j \in 1 .. Bits : d[j] = 0
    OBVIOUS
  <2> HIDE DEF d
  <2>2. PICK v \in [0 .. Bits -> Int] :
            /\ v[0] = 0 /\ \A i \in 1 .. Bits : v[i] = 2 * v[i - 1] + d[Bits + 1 - i]
            /\ Number(d, 2) = v[Bits]
    BY <1>1, <1>2, NumberLoop
  <2> DEFINE T == {i \in 0 .. Bits : v[i] = 0}
  <2>3. 0 \in T
    BY <1>1, <2>2
  <2>4. ASSUME NEW i \in 1 .. Bits, i - 1 \in T PROVE i \in T
    <3>1. d[Bits + 1 - i] = 0 /\ v[i - 1] = 0
      BY <1>1, <2>1, <2>4
    <3> QED  BY <2>2, <3>1
  <2> HIDE DEF T
  <2>5. \A i \in 0 .. Bits : i \in T
    BY <1>1, <2>3, <2>4, Rounds
  <2> QED  BY <1>1, <2>2, <2>5 DEF T
<1>4. Bitmap(GroupSize, {}) = [k \in 1 .. CeilDiv(GroupSize) |-> Number(d, 2)]
  BY DEF Bitmap
<1> HIDE DEF d
<1>5. Bitmap(GroupSize, {}) = Zeros(CeilDiv(GroupSize))
  BY <1>3, <1>4 DEF Zeros
<1> QED  BY <1>5 DEF EmptyDeletes

---------------------------------------------------------------------------
(* The header of a column file *)

(* One element of a part.                                                  *)
LEMMA HoldsElement ==
    ASSUME NEW s, NEW from \in Nat, NEW p, Holds(s, from, p), NEW i \in 1 .. Len(p)
    PROVE  s[from + i] = p[i]
  BY DEF Holds

(* A header that can be written.                                           *)
Writable(ty, encoding, rows, nulls, range) ==
    /\ ty \in {"Int", "Text"} /\ encoding \in {Raw, Dict}
    /\ rows \in 0 .. U32Max /\ nulls \in 0 .. U32Max
    /\ ty = "Int" => range[1] \in I64 /\ range[2] \in I64

(* The fields of a header are where parse_header looks for them.           *)
HasFields(s, ty, encoding, rows, nulls, range) ==
    /\ s[1] = Magic
    /\ Holds(s, 1, U32(FormatVersion))
    /\ s[2 + U32Bytes] = TypeTag(ty)
    /\ s[3 + U32Bytes] = encoding
    /\ s[4 + U32Bytes] = (IF nulls > 0 THEN 1 ELSE 0)
    /\ Holds(s, 5 + U32Bytes, U32(rows))
    /\ ty = "Int" => /\ Holds(s, 5 + 3 * U32Bytes, I64LE(range[1]))
                     /\ Holds(s, 5 + 3 * U32Bytes + 2 * I64Bytes, I64LE(range[2]))

(* A minimum or maximum takes two i64s.                                    *)
LEMMA SlotType ==
    ASSUME NEW ty, NEW n, ty = "Int" => n \in I64
    PROVE  LET slot == (IF ty = "Int" THEN I64LE(n) ELSE Zeros(I64Bytes)) \o Zeros(I64Bytes)
           IN  /\ slot \in Seq(Byte) /\ Len(slot) = 2 * I64Bytes
               /\ ty = "Int" => Holds(slot, 0, I64LE(n)) /\ I64LE(n) \in Seq(Byte)
<1> DEFINE x == IF ty = "Int" THEN I64LE(n) ELSE Zeros(I64Bytes)
<1> DEFINE z == Zeros(I64Bytes)
<1>1. I64Bytes \in Nat /\ 0 \in Byte
  BY WidthFacts DEF Byte
<1>2. z \in Seq(Byte) /\ Len(z) = I64Bytes
  BY <1>1 DEF Zeros
<1>3. x \in Seq(Byte) /\ Len(x) = I64Bytes
  <2>1. CASE ty = "Int"
    BY <2>1, I64Written
  <2>2. CASE ty # "Int"
    BY <1>2, <2>2
  <2> QED  BY <2>1, <2>2
<1>4. ty = "Int" => x = I64LE(n)
  OBVIOUS
<1> HIDE DEF x, z
<1>5. x \o z \in Seq(Byte) /\ Len(x \o z) = Len(x) + Len(z) /\ Holds(x \o z, 0, x)
  BY <1>2, <1>3, HoldsConcat
<1>6. Len(x) + Len(z) = 2 * I64Bytes
  BY <1>1, <1>2, <1>3
<1> QED  BY <1>3, <1>4, <1>5, <1>6 DEF x, z

(* encode_header makes a header of the right size, with its fields.        *)
LEMMA HeaderFields ==
    ASSUME NEW ty, NEW encoding, NEW rows, NEW nulls, NEW range,
           Writable(ty, encoding, rows, nulls, range)
    PROVE  LET head == Header(ty, encoding, rows, nulls, range)
           IN  /\ head \in Seq(Byte) /\ Len(head) = HeaderSize
               /\ HasFields(head, ty, encoding, rows, nulls, range)
<1> DEFINE slot(n) == (IF ty = "Int" THEN I64LE(n) ELSE Zeros(I64Bytes)) \o Zeros(I64Bytes)
<1> DEFINE a == << Magic >>
<1> DEFINE b == U32(FormatVersion)
<1> DEFINE flag == IF nulls > 0 THEN 1 ELSE 0
<1> DEFINE c == << TypeTag(ty), encoding, flag, 0 >>
<1> DEFINE d == U32(rows)
<1> DEFINE e == U32(nulls)
<1> DEFINE f == slot(range[1])
<1> DEFINE g == slot(range[2])
<1>1. U32Bytes \in Nat /\ I64Bytes \in Nat /\ FormatVersion \in 0 .. U32Max
  BY WidthFacts DEF FormatVersion
<1>2. 0 \in Byte /\ 1 \in Byte
  BY WidthFacts DEF Byte
<1>3. a \in Seq(Byte) /\ Len(a) = 1 /\ a[1] = Magic
  BY <1>2 DEF Magic
<1>4. TypeTag(ty) \in Byte /\ encoding \in Byte /\ flag \in Byte
  BY <1>2 DEF TypeTag, Writable, Raw, Dict
<1>5. /\ c \in Seq(Byte) /\ Len(c) = 4
      /\ c[1] = TypeTag(ty) /\ c[2] = encoding /\ c[3] = flag
  <2> HIDE DEF flag
  <2> QED  BY <1>2, <1>4
<1>6. b \in Seq(Byte) /\ Len(b) = U32Bytes
  BY <1>1, U32Written
<1>7. d \in Seq(Byte) /\ Len(d) = U32Bytes /\ e \in Seq(Byte) /\ Len(e) = U32Bytes
  BY U32Written DEF Writable
<1>8. /\ f \in Seq(Byte) /\ Len(f) = 2 * I64Bytes
      /\ ty = "Int" => Holds(f, 0, I64LE(range[1])) /\ I64LE(range[1]) \in Seq(Byte)
  BY SlotType DEF Writable
<1>9. /\ g \in Seq(Byte) /\ Len(g) = 2 * I64Bytes
      /\ ty = "Int" => Holds(g, 0, I64LE(range[2])) /\ I64LE(range[2]) \in Seq(Byte)
  BY SlotType DEF Writable
<1>10. Header(ty, encoding, rows, nulls, range) = a \o b \o c \o d \o e \o f \o g
  BY DEF Header
<1> HIDE DEF a, b, c, d, e, f, g, slot
<1> DEFINE s1 == a \o b
<1> DEFINE s2 == s1 \o c
<1> DEFINE s3 == s2 \o d
<1> DEFINE s4 == s3 \o e
<1> DEFINE s5 == s4 \o f
<1> DEFINE s6 == s5 \o g
<1>11. /\ s1 \in Seq(Byte) /\ Len(s1) = 1 + U32Bytes
       /\ Holds(s1, 0, a) /\ Holds(s1, 1, b)
  <2>1. s1 \in Seq(Byte) /\ Len(s1) = Len(a) + Len(b) /\ Holds(s1, 0, a) /\ Holds(s1, Len(a), b)
    BY <1>3, <1>6, HoldsConcat
  <2> HIDE DEF s1
  <2> QED  BY <1>3, <1>6, <2>1
<1> HIDE DEF s1
<1>12. /\ s2 \in Seq(Byte) /\ Len(s2) = 5 + U32Bytes /\ Holds(s2, 0, s1) /\ Holds(s2, 1 + U32Bytes, c)
  <2>1. s2 \in Seq(Byte) /\ Len(s2) = Len(s1) + Len(c) /\ Holds(s2, 0, s1) /\ Holds(s2, Len(s1), c)
    BY <1>5, <1>11, HoldsConcat
  <2>2. Len(s1) + Len(c) = 5 + U32Bytes
    BY <1>1, <1>5, <1>11
  <2> HIDE DEF s2
  <2> QED  BY <1>11, <2>1, <2>2
<1> HIDE DEF s2
<1>13. /\ s3 \in Seq(Byte) /\ Len(s3) = 5 + 2 * U32Bytes /\ Holds(s3, 0, s2) /\ Holds(s3, 5 + U32Bytes, d)
  <2>1. s3 \in Seq(Byte) /\ Len(s3) = Len(s2) + Len(d) /\ Holds(s3, 0, s2) /\ Holds(s3, Len(s2), d)
    BY <1>7, <1>12, HoldsConcat
  <2>2. Len(s2) + Len(d) = 5 + 2 * U32Bytes
    BY <1>1, <1>7, <1>12
  <2> HIDE DEF s3
  <2> QED  BY <1>12, <2>1, <2>2
<1> HIDE DEF s3
<1>14. /\ s4 \in Seq(Byte) /\ Len(s4) = 5 + 3 * U32Bytes /\ Holds(s4, 0, s3)
  <2>1. s4 \in Seq(Byte) /\ Len(s4) = Len(s3) + Len(e) /\ Holds(s4, 0, s3)
    BY <1>7, <1>13, HoldsConcat
  <2>2. Len(s3) + Len(e) = 5 + 3 * U32Bytes
    BY <1>1, <1>7, <1>13
  <2> HIDE DEF s4
  <2> QED  BY <2>1, <2>2
<1> HIDE DEF s4
<1>15. /\ s5 \in Seq(Byte) /\ Len(s5) = 5 + 3 * U32Bytes + 2 * I64Bytes
       /\ Holds(s5, 0, s4) /\ Holds(s5, 5 + 3 * U32Bytes, f)
  <2>1. s5 \in Seq(Byte) /\ Len(s5) = Len(s4) + Len(f) /\ Holds(s5, 0, s4) /\ Holds(s5, Len(s4), f)
    BY <1>8, <1>14, HoldsConcat
  <2>2. Len(s4) + Len(f) = 5 + 3 * U32Bytes + 2 * I64Bytes
    BY <1>1, <1>8, <1>14
  <2> HIDE DEF s5
  <2> QED  BY <1>14, <2>1, <2>2
<1> HIDE DEF s5
<1>16. /\ s6 \in Seq(Byte) /\ Len(s6) = HeaderSize
       /\ Holds(s6, 0, s5) /\ Holds(s6, 5 + 3 * U32Bytes + 2 * I64Bytes, g)
  <2>1. s6 \in Seq(Byte) /\ Len(s6) = Len(s5) + Len(g) /\ Holds(s6, 0, s5) /\ Holds(s6, Len(s5), g)
    BY <1>9, <1>15, HoldsConcat
  <2>2. Len(s5) + Len(g) = HeaderSize
    BY <1>1, <1>9, <1>15 DEF HeaderSize
  <2> HIDE DEF s6
  <2> QED  BY <1>15, <2>1, <2>2
<1>17. Header(ty, encoding, rows, nulls, range) = s6
  BY <1>10 DEF s1, s2, s3, s4, s5
<1> HIDE DEF s6
<1>18. Holds(s6, 0, s4)
  <2>1. Holds(s6, 0 + 0, s4)
    BY <1>14, <1>15, <1>16, HoldsPart
  <2> QED  BY <2>1
<1>19. Holds(s6, 0, s3)
  <2>1. Holds(s6, 0 + 0, s3)
    BY <1>13, <1>14, <1>16, <1>18, HoldsPart
  <2> QED  BY <2>1
<1>20. Holds(s6, 0, s2)
  <2>1. Holds(s6, 0 + 0, s2)
    BY <1>12, <1>13, <1>16, <1>19, HoldsPart
  <2> QED  BY <2>1
<1>21. Holds(s6, 0, s1)
  <2>1. Holds(s6, 0 + 0, s1)
    BY <1>11, <1>12, <1>16, <1>20, HoldsPart
  <2> QED  BY <2>1
<1>22. Holds(s6, 0, a) /\ Holds(s6, 1, b)
  <2>1. Holds(s6, 0 + 0, a) /\ Holds(s6, 0 + 1, b)
    BY <1>3, <1>6, <1>11, <1>16, <1>21, HoldsPart
  <2> QED  BY <2>1
<1>23. Holds(s6, 1 + U32Bytes, c)
  <2>1. Holds(s6, 0 + (1 + U32Bytes), c)
    BY <1>1, <1>5, <1>12, <1>16, <1>20, HoldsPart
  <2> QED  BY <1>1, <2>1
<1>24. Holds(s6, 5 + U32Bytes, d)
  <2>1. Holds(s6, 0 + (5 + U32Bytes), d)
    BY <1>1, <1>7, <1>13, <1>16, <1>19, HoldsPart
  <2> QED  BY <1>1, <2>1
<1>25. Holds(s6, 5 + 3 * U32Bytes, f)
  <2>0. 5 + 3 * U32Bytes \in Nat
    BY <1>1
  <2>1. Holds(s6, 0 + (5 + 3 * U32Bytes), f)
    BY <2>0, <1>8, <1>15, <1>16, HoldsPart
  <2> QED  BY <2>0, <2>1
<1>26. /\ s6[1] = Magic /\ s6[2 + U32Bytes] = TypeTag(ty)
       /\ s6[3 + U32Bytes] = encoding /\ s6[4 + U32Bytes] = flag
  <2>1. s6[0 + 1] = a[1]
    BY <1>3, <1>22, HoldsElement
  <2>2. \A i \in 1 .. 4 : s6[(1 + U32Bytes) + i] = c[i]
    <3>1. 1 + U32Bytes \in Nat /\ 1 .. 4 = 1 .. Len(c)
      BY <1>1, <1>5
    <3> QED  BY <1>23, <3>1, HoldsElement
  <2>3. 2 + U32Bytes = (1 + U32Bytes) + 1 /\ 3 + U32Bytes = (1 + U32Bytes) + 2 /\ 4 + U32Bytes = (1 + U32Bytes) + 3
    BY <1>1
  <2> QED  BY <1>3, <1>5, <2>1, <2>2, <2>3
<1>27. ty = "Int" => /\ Holds(s6, 5 + 3 * U32Bytes, I64LE(range[1]))
                     /\ Holds(s6, 5 + 3 * U32Bytes + 2 * I64Bytes, I64LE(range[2]))
  <2> DEFINE k == 5 + 3 * U32Bytes
  <2> DEFINE l == 5 + 3 * U32Bytes + 2 * I64Bytes
  <2>1. k \in Nat /\ l \in Nat /\ k + 0 = k /\ l + 0 = l
    BY <1>1
  <2>2. Holds(s6, k, f) /\ Holds(s6, l, g)
    BY <1>16, <1>25
  <2> HIDE DEF k, l
  <2>3. ty = "Int" => Holds(s6, k + 0, I64LE(range[1])) /\ Holds(s6, l + 0, I64LE(range[2]))
    BY <1>8, <1>9, <1>16, <2>1, <2>2, HoldsPart
  <2> QED  BY <2>1, <2>3 DEF k, l
<1>28. HasFields(s6, ty, encoding, rows, nulls, range)
  BY <1>22, <1>24, <1>26, <1>27 DEF HasFields, b, d
<1> QED  BY <1>16, <1>17, <1>28

(* What a header that was parsed says.                                     *)
Says(h, ty, encoding, rows, nulls, range) ==
    /\ h.ty = ty /\ h.encoding = encoding /\ h.rows = rows /\ h.nulls = (nulls > 0)
    /\ ty = "Int" => h.range = << range[1], range[2] >>

(* Bytes that begin with a header parse as what it was made of.            *)
LEMMA HeaderRead ==
    ASSUME NEW ty, NEW encoding, NEW rows, NEW nulls, NEW range,
           Writable(ty, encoding, rows, nulls, range),
           NEW bytes \in Seq(Byte), Holds(bytes, 0, Header(ty, encoding, rows, nulls, range))
    PROVE  \E h : ParseHeader(bytes) = {h} /\ Says(h, ty, encoding, rows, nulls, range)
<1> DEFINE head == Header(ty, encoding, rows, nulls, range)
<1>1. U32Bytes \in Nat /\ I64Bytes \in Nat /\ FormatVersion \in 0 .. U32Max /\ HeaderSize \in Nat
  BY WidthFacts DEF FormatVersion, HeaderSize
<1>2. head \in Seq(Byte) /\ Len(head) = HeaderSize /\ HasFields(head, ty, encoding, rows, nulls, range)
  BY HeaderFields
<1> HIDE DEF head
<1>3. Len(bytes) >= HeaderSize
  BY <1>1, <1>2 DEF Holds, head
<1>4. \A i \in 1 .. HeaderSize : bytes[i] = head[i]
  BY <1>1, <1>2 DEF Holds, head
<1>5. \A k \in Nat : \A q \in Seq(Byte) : Holds(head, k, q) => Holds(bytes, k, q)
  <2> SUFFICES ASSUME NEW k \in Nat, NEW q \in Seq(Byte), Holds(head, k, q) PROVE Holds(bytes, k, q)
    OBVIOUS
  <2>1. Holds(bytes, 0, head)
    BY DEF head
  <2>2. Holds(bytes, 0 + k, q)
    BY <1>2, <2>1, HoldsPart
  <2> QED  BY <2>2
<1>6. bytes \in Seq(Int)
  BY BytesAreInts
<1>7. /\ bytes[1] = Magic /\ bytes[2 + U32Bytes] = TypeTag(ty)
      /\ bytes[3 + U32Bytes] = encoding /\ bytes[4 + U32Bytes] = (IF nulls > 0 THEN 1 ELSE 0)
  <2>1. {1, 2 + U32Bytes, 3 + U32Bytes, 4 + U32Bytes} \subseteq 1 .. HeaderSize
    BY <1>1 DEF HeaderSize
  <2> QED  BY <1>2, <1>4, <2>1 DEF HasFields
<1>8. U32At(bytes, 1) = FormatVersion
  <2>1. U32(FormatVersion) \in Seq(Byte)
    BY <1>1, U32Written
  <2>2. Holds(bytes, 1, U32(FormatVersion))
    BY <1>2, <1>5, <2>1 DEF HasFields
  <2> QED  BY <1>1, <1>6, <2>2, U32Read
<1>9. U32At(bytes, 5 + U32Bytes) = rows
  <2>1. rows \in 0 .. U32Max /\ 5 + U32Bytes \in Nat
    BY <1>1 DEF Writable
  <2>2. U32(rows) \in Seq(Byte)
    BY <2>1, U32Written
  <2>3. Holds(bytes, 5 + U32Bytes, U32(rows))
    BY <1>2, <1>5, <2>1, <2>2 DEF HasFields
  <2> QED  BY <1>6, <2>1, <2>3, U32Read
<1>10. ty = "Int" =>
          /\ Signed(Slice(bytes, 5 + 3 * U32Bytes, I64Bytes)) = range[1]
          /\ Signed(Slice(bytes, 5 + 3 * U32Bytes + 2 * I64Bytes, I64Bytes)) = range[2]
  <2> DEFINE k == 5 + 3 * U32Bytes
  <2> DEFINE l == 5 + 3 * U32Bytes + 2 * I64Bytes
  <2> SUFFICES ASSUME ty = "Int"
               PROVE  /\ Signed(Slice(bytes, k, I64Bytes)) = range[1]
                      /\ Signed(Slice(bytes, l, I64Bytes)) = range[2]
    OBVIOUS
  <2>1. k \in Nat /\ l \in Nat
    BY <1>1
  <2>2. range[1] \in I64 /\ range[2] \in I64
    BY DEF Writable
  <2>3. I64LE(range[1]) \in Seq(Byte) /\ I64LE(range[2]) \in Seq(Byte)
    BY <2>2, I64Written
  <2>4. Holds(head, k, I64LE(range[1])) /\ Holds(head, l, I64LE(range[2]))
    BY <1>2 DEF HasFields
  <2> HIDE DEF k, l
  <2>5. Holds(bytes, k, I64LE(range[1])) /\ Holds(bytes, l, I64LE(range[2]))
    BY <1>5, <2>1, <2>3, <2>4
  <2> QED  BY <1>6, <2>1, <2>2, <2>5, I64Read
<1> DEFINE rest == 1 + U32Bytes
<1> DEFINE lo == Slice(bytes, rest + 4 + 2 * U32Bytes, I64Bytes)
<1> DEFINE hi == Slice(bytes, rest + 4 + 2 * U32Bytes + 2 * I64Bytes, I64Bytes)
<1> DEFINE h == [ty       |-> IF bytes[rest + 1] = 0 THEN "Int" ELSE "Text",
                 encoding |-> bytes[rest + 2],
                 nulls    |-> bytes[rest + 3] % 2 = 1,
                 rows     |-> U32At(bytes, rest + 4),
                 range    |-> << Signed(lo), Signed(hi) >>]
<1>11. /\ rest + 1 = 2 + U32Bytes /\ rest + 2 = 3 + U32Bytes /\ rest + 3 = 4 + U32Bytes
       /\ rest + 4 = 5 + U32Bytes /\ rest + 4 + 2 * U32Bytes = 5 + 3 * U32Bytes
       /\ rest + 4 + 2 * U32Bytes + 2 * I64Bytes = 5 + 3 * U32Bytes + 2 * I64Bytes
  BY <1>1
<1>12. bytes[rest + 1] = TypeTag(ty) /\ bytes[rest + 1] \in {0, 1}
  BY <1>7, <1>11 DEF TypeTag
<1>13. ParseHeader(bytes) = {h}
  <2>1. U32At(bytes, 1) <= FormatVersion
    BY <1>8 DEF FormatVersion
  <2> QED  BY <1>3, <1>7, <1>12, <2>1 DEF ParseHeader
<1>14. Says(h, ty, encoding, rows, nulls, range)
  <2>1. h.ty = ty
    BY <1>12 DEF TypeTag, Writable
  <2>2. h.encoding = encoding /\ h.rows = rows
    BY <1>7, <1>9, <1>11
  <2>3. h.nulls = (nulls > 0)
    <3>1. h.nulls = (bytes[rest + 3] % 2 = 1)
      OBVIOUS
    <3>2. CASE nulls > 0
      BY <1>7, <1>11, <3>1, <3>2
    <3>3. CASE ~ (nulls > 0)
      BY <1>7, <1>11, <3>1, <3>3
    <3> QED  BY <3>2, <3>3
  <2>4. ty = "Int" => h.range = << range[1], range[2] >>
    <3>1. h.range = << Signed(lo), Signed(hi) >>
      OBVIOUS
    <3> QED  BY <1>10, <1>11, <3>1
  <2> HIDE DEF h
  <2> QED  BY <2>1, <2>2, <2>3, <2>4 DEF Says
<1> HIDE DEF h
<1> QED  BY <1>13, <1>14

---------------------------------------------------------------------------
(* The presence bitmap *)

(* What a reader finds of it.                                              *)
PresenceOf(column) == IF Nulls(column) # {} THEN {PresentBitmap(column)} ELSE {}

(* The number of NULLs fits a u32, and is zero only when there are none.   *)
LEMMA NullsCounted ==
    ASSUME NEW X, NEW column \in Seq(X), Len(column) <= U32Max
    PROVE  /\ Cardinality(Nulls(column)) \in 0 .. U32Max
           /\ Cardinality(Nulls(column)) > 0 <=> Nulls(column) # {}
<1>1. Len(column) \in Nat /\ U32Max \in Nat
  BY WidthFacts
<1> DEFINE D == 0 .. Len(column) - 1
<1>2. IsFiniteSet(D) /\ Cardinality(D) = Len(column)
  <2> DEFINE m == Len(column) - 1
  <2>1. m \in Int /\ 0 \in Int /\ m + 1 = Len(column)
    BY <1>1
  <2> HIDE DEF m
  <2>2. IsFiniteSet(0 .. m) /\ Cardinality(0 .. m) = IF 0 > m THEN 0 ELSE m - 0 + 1
    BY <2>1, FS_Interval
  <2>3. Cardinality(0 .. m) = Len(column)
    BY <1>1, <2>1, <2>2
  <2> QED  BY <2>2, <2>3 DEF m
<1>3. Nulls(column) \subseteq D
  BY DEF Nulls
<1> HIDE DEF D
<1>4. /\ IsFiniteSet(Nulls(column)) /\ Cardinality(Nulls(column)) \in Nat
      /\ Cardinality(Nulls(column)) <= Len(column)
  BY <1>2, <1>3, FS_Subset, FS_CardinalityType
<1>5. Cardinality(Nulls(column)) = 0 <=> Nulls(column) = {}
  BY <1>4, FS_EmptySet
<1> QED  BY <1>1, <1>4, <1>5

(* It masks exactly the NULLs.                                             *)
LEMMA MaskedIs ==
    ASSUME NEW X, NEW column \in Seq(X), NEW i \in 1 .. Len(column), NEW x
    PROVE  Masked(PresenceOf(column), i, x) = IF column[i] = Null THEN Null ELSE x
<1>1. Len(column) \in Nat /\ i - 1 \in 0 .. Len(column) - 1 /\ (i - 1) + 1 = i
  OBVIOUS
<1>2. CASE Nulls(column) = {}
  <2>1. i - 1 \notin Nulls(column)
    BY <1>2
  <2>2. column[i] # Null
    BY <1>1, <2>1 DEF Nulls
  <2> QED  BY <1>2, <2>2 DEF PresenceOf, Masked
<1>3. CASE Nulls(column) # {}
  <2>1. BitSet(PresentBitmap(column), i - 1) <=> i - 1 \in Present(column)
    BY <1>1, BitmapBit DEF PresentBitmap
  <2>2. i - 1 \in Present(column) <=> column[i] # Null
    BY <1>1 DEF Present
  <2>3. PresenceOf(column) = {PresentBitmap(column)}
    BY <1>3 DEF PresenceOf
  <2> QED  BY <2>1, <2>2, <2>3 DEF Masked
<1> QED  BY <1>2, <1>3

---------------------------------------------------------------------------
(* The data areas *)

(* The values a column of the two types can have.                          *)
Storing(ty) == (IF ty = "Int" THEN Ints ELSE Strings) \cup {Null}

(* A sequence that lost its end.                                           *)
LEMMA CutType ==
    ASSUME NEW X, NEW s \in Seq(X), NEW n \in Nat, n <= Len(s)
    PROVE  SubSeq(s, 1, n) \in Seq(X) /\ Len(SubSeq(s, 1, n)) = n
  OBVIOUS

(* A sequence cut at its end is itself.                                    *)
LEMMA CutAtEnd ==
    ASSUME NEW X, NEW s \in Seq(X)
    PROVE  SubSeq(s, 1, Len(s)) = s
  OBVIOUS

(* A cut that spares the first part of a concatenation cuts the second.    *)
LEMMA CutSecond ==
    ASSUME NEW X, NEW a \in Seq(X), NEW b \in Seq(X), NEW n \in Nat,
           Len(a) <= n, n <= Len(a) + Len(b)
    PROVE  LET cut == SubSeq(a \o b, 1, n)
           IN  /\ cut \in Seq(X) /\ Len(cut) = n /\ Holds(cut, 0, a)
               /\ From(cut, Len(a)) = SubSeq(b, 1, n - Len(a))
<1> DEFINE c == a \o b
<1> DEFINE cut == SubSeq(c, 1, n)
<1> DEFINE m == n - Len(a)
<1>1. c \in Seq(X) /\ Len(c) = Len(a) + Len(b) /\ Holds(c, 0, a) /\ Holds(c, Len(a), b)
  BY HoldsConcat
<1> HIDE DEF c
<1>2. Len(a) \in Nat /\ Len(b) \in Nat /\ n \in 0 .. Len(c) /\ m \in 0 .. Len(b)
  BY <1>1
<1>3. cut \in Seq(X) /\ Len(cut) = n /\ Holds(cut, 0, a)
  BY <1>1, <1>2, HoldsCut
<1> DEFINE r == SubSeq(cut, Len(a) + 1, n)
<1> DEFINE q == SubSeq(b, 1, m)
<1>4. q \in Seq(X) /\ Len(q) = m /\ \A i \in 1 .. m : q[i] = b[i]
  BY <1>2
<1>5. \A i \in 1 .. n : cut[i] = c[i]
  BY <1>1, <1>2
<1> HIDE DEF cut
<1>6. r \in Seq(X) /\ Len(r) = m /\ \A i \in 1 .. m : r[i] = cut[Len(a) + i]
  BY <1>2, <1>3
<1> HIDE DEF r, q
<1>7. ASSUME NEW i \in 1 .. m PROVE r[i] = q[i]
  <2>1. Len(a) + i \in 1 .. n /\ i \in 1 .. Len(b)
    BY <1>2
  <2>2. c[Len(a) + i] = b[i]
    BY <1>1, <2>1 DEF Holds
  <2> QED  BY <1>4, <1>5, <1>6, <2>1, <2>2
<1>8. r = q
  BY <1>4, <1>6, <1>7
<1> QED  BY <1>3, <1>8 DEF From, r, q, cut, c

(* A row of u32s is read back.                                             *)
LEMMA U32Table ==
    ASSUME NEW nums \in Seq(0 .. U32Max)
    PROVE  LET table == FlattenSeq([i \in DOMAIN nums |-> U32(nums[i])])
           IN  /\ table \in Seq(Byte) /\ Len(table) = Len(nums) * U32Bytes
               /\ \A s \in Seq(Byte), from \in Nat :
                     Holds(s, from, table) => U32s(s, from, Len(nums)) = nums
<1> DEFINE fields == [i \in DOMAIN nums |-> U32(nums[i])]
<1> DEFINE table == FlattenSeq(fields)
<1>1. Len(nums) \in Nat /\ DOMAIN nums = 1 .. Len(nums) /\ U32Bytes \in Nat
  BY WidthFacts
<1>0. \A i \in 1 .. Len(nums) : nums[i] \in 0 .. U32Max
  <2> DEFINE D == 0 .. U32Max
  <2>1. nums \in Seq(D)
    OBVIOUS
  <2> HIDE DEF D
  <2>2. \A i \in 1 .. Len(nums) : nums[i] \in D
    BY <2>1
  <2> QED  BY <2>2 DEF D
<1>2. \A i \in 1 .. Len(nums) : U32(nums[i]) \in Seq(Byte) /\ Len(U32(nums[i])) = U32Bytes
  BY <1>0, U32Written
<1>3. fields \in Seq(Seq(Byte)) /\ Len(fields) = Len(nums)
  BY <1>1, <1>2
<1>4. \A i \in 1 .. Len(nums) : fields[i] = U32(nums[i]) /\ nums[i] \in 0 .. U32Max
  BY <1>0, <1>1
<1> HIDE DEF fields
<1>5. /\ table \in Seq(Byte) /\ Len(table) = Len(fields) * U32Bytes
      /\ \A i \in 1 .. Len(fields) : (i - 1) * U32Bytes \in Nat /\ Holds(table, (i - 1) * U32Bytes, fields[i])
  <2>1. \A i \in 1 .. Len(fields) : Len(fields[i]) = U32Bytes
    BY <1>2, <1>3, <1>4
  <2>2. U32Bytes \in Nat /\ fields \in Seq(Seq(Byte))
    BY <1>1, <1>3
  <2> QED  BY ONLY <2>1, <2>2, FlattenFields
<1> HIDE DEF table
<1>6. ASSUME NEW s \in Seq(Byte), NEW from \in Nat, Holds(s, from, table)
      PROVE  U32s(s, from, Len(nums)) = nums
  <2>1. ASSUME NEW i \in 1 .. Len(nums) PROVE U32At(s, from + (i - 1) * U32Bytes) = nums[i]
    <3> DEFINE k == (i - 1) * U32Bytes
    <3>1. k \in Nat /\ Holds(table, k, U32(nums[i])) /\ U32(nums[i]) \in Seq(Byte)
      BY <1>2, <1>3, <1>4, <1>5
    <3> HIDE DEF k
    <3>2. Holds(s, from + k, U32(nums[i])) /\ from + k \in Nat
      BY <1>5, <1>6, <3>1, HoldsPart
    <3>3. s \in Seq(Int)
      BY BytesAreInts
    <3>4. U32At(s, from + k) = nums[i]
      BY <1>4, <3>2, <3>3, U32Read
    <3> QED  BY <3>4 DEF k
  <2>2. U32s(s, from, Len(nums)) = [i \in 1 .. Len(nums) |-> nums[i]]
    BY <2>1 DEF U32s
  <2> QED  BY <1>1, <2>2
<1> QED  BY <1>3, <1>5, <1>6 DEF table, fields

(* What decode_int_raw makes of a column that encode_int_raw wrote, whole  *)
(* or cut off.                                                             *)
LEMMA IntDecodes ==
    ASSUME NEW column \in Seq(Storing("Int"))
    PROVE  LET data == EncodeIntRaw(column)
           IN  /\ data \in Seq(Byte) /\ Len(data) = Len(column) * I64Bytes
               /\ \A n \in 0 .. Len(data) :
                     DecodeIntRaw(SubSeq(data, 1, n), Len(column), PresenceOf(column))
                        = IF n = Len(data) THEN {column} ELSE {}
<1> DEFINE x(i) == IF column[i] = Null THEN 0 ELSE column[i]
<1> DEFINE fields == [i \in DOMAIN column |-> I64LE(x(i))]
<1> DEFINE data == FlattenSeq(fields)
<1> DEFINE N == Len(column)
<1>1. N \in Nat /\ DOMAIN column = 1 .. N /\ I64Bytes \in Nat
  BY WidthFacts
<1>2. \A i \in 1 .. N : x(i) \in I64
  <2>1. 0 \in I64
    BY WidthFacts DEF I64
  <2>2. \A i \in 1 .. N : column[i] \in Ints \cup {Null}
    BY DEF Storing
  <2> QED  BY <2>1, <2>2, FileAssumption
<1>3. EncodeIntRaw(column) = data
  BY DEF EncodeIntRaw
<1> HIDE DEF x
<1>4. \A i \in 1 .. N : I64LE(x(i)) \in Seq(Byte) /\ Len(I64LE(x(i))) = I64Bytes
  BY <1>2, I64Written
<1>5. fields \in Seq(Seq(Byte)) /\ Len(fields) = N
  BY <1>1, <1>4
<1>6. \A i \in 1 .. N : fields[i] = I64LE(x(i))
  BY <1>1
<1> HIDE DEF fields
<1>7. /\ data \in Seq(Byte) /\ Len(data) = N * I64Bytes
      /\ \A i \in 1 .. N : (i - 1) * I64Bytes \in Nat /\ Holds(data, (i - 1) * I64Bytes, fields[i])
  <2>1. \A i \in 1 .. Len(fields) : Len(fields[i]) = I64Bytes
    BY <1>4, <1>5, <1>6
  <2>2. /\ FlattenSeq(fields) \in Seq(Byte) /\ Len(FlattenSeq(fields)) = Len(fields) * I64Bytes
        /\ \A i \in 1 .. Len(fields) :
              (i - 1) * I64Bytes \in Nat /\ Holds(FlattenSeq(fields), (i - 1) * I64Bytes, fields[i])
    BY <1>1, <1>5, <2>1, FlattenFields
  <2> QED  BY <1>5, <2>2
<1> HIDE DEF data
<1>8. ASSUME NEW i \in 1 .. N PROVE Signed(Slice(data, (i - 1) * I64Bytes, I64Bytes)) = x(i)
  <2> DEFINE k == (i - 1) * I64Bytes
  <2>1. k \in Nat /\ Holds(data, k, I64LE(x(i))) /\ data \in Seq(Int)
    BY <1>6, <1>7, BytesAreInts
  <2> HIDE DEF k
  <2>2. Signed(Slice(data, k, I64Bytes)) = x(i)
    BY <1>2, <2>1, I64Read
  <2> QED  BY <2>2 DEF k
<1>9. ASSUME NEW i \in 1 .. N PROVE Masked(PresenceOf(column), i, x(i)) = column[i]
  <2>1. Masked(PresenceOf(column), i, x(i)) = IF column[i] = Null THEN Null ELSE x(i)
    BY MaskedIs
  <2> QED  BY <2>1 DEF x
<1>10. ASSUME NEW n \in 0 .. Len(data), n # Len(data)
       PROVE  DecodeIntRaw(SubSeq(data, 1, n), N, PresenceOf(column)) = {}
  <2>1. Len(SubSeq(data, 1, n)) = n /\ Len(data) \in Nat
    BY <1>7
  <2>2. Len(SubSeq(data, 1, n)) < N * I64Bytes
    BY <1>7, <1>10, <2>1
  <2> QED  BY <2>2 DEF DecodeIntRaw
<1>11. DecodeIntRaw(data, N, PresenceOf(column)) = {column}
  <2>1. ~ (Len(data) < N * I64Bytes)
    BY <1>7
  <2>2. [i \in 1 .. N |-> Masked(PresenceOf(column), i, Signed(Slice(data, (i - 1) * I64Bytes, I64Bytes)))]
           = [i \in 1 .. N |-> column[i]]
    BY <1>8, <1>9
  <2>3. column = [i \in 1 .. N |-> column[i]]
    OBVIOUS
  <2> QED  BY <2>1, <2>2, <2>3 DEF DecodeIntRaw
<1>12. SubSeq(data, 1, Len(data)) = data
  BY <1>7, CutAtEnd
<1> QED  BY <1>3, <1>7, <1>10, <1>11, <1>12

(* The ends of the parts of a blob find the parts again.                   *)
LEMMA PiecesAre ==
    ASSUME NEW X, NEW texts \in Seq(Seq(X))
    PROVE  LET blob == FlattenSeq(texts)
               ends == EndsOf(texts)
           IN  /\ blob \in Seq(X) /\ ends \in Seq(0 .. Len(blob)) /\ Len(ends) = Len(texts)
               /\ Len(texts) > 0 => ends[Len(texts)] = Len(blob)
               /\ Len(texts) = 0 => Len(blob) = 0
               /\ EndsFit(blob, ends)
               /\ \A i \in 1 .. Len(texts) : Pieces(blob, ends)[i] = texts[i]
<1> DEFINE N == Len(texts)
<1> DEFINE blob == FlattenSeq(texts)
<1> DEFINE ends == EndsOf(texts)
<1>1. blob \in Seq(X) /\ N \in Nat /\ Len(blob) \in Nat
  BY FlattenParts
<1>2. PICK e : Ends(e, texts, blob)
  BY FlattenParts
<1>3. \A i \in 1 .. N : texts[i] \in Seq(X) /\ Len(texts[i]) \in Nat
  OBVIOUS
<1> HIDE DEF blob
<1>4. /\ e \in [0 .. N -> Nat] /\ e[0] = 0
      /\ \A i \in 1 .. N : e[i] = e[i - 1] + Len(texts[i])
      /\ ends = [i \in 1 .. N |-> e[i]]
      /\ Len(blob) = e[N]
      /\ \A i \in 1 .. N : Holds(blob, e[i - 1], texts[i])
      /\ \A i \in 0 .. N : e[i] <= e[N]
  BY <1>2 DEF Ends
<1> HIDE DEF N, ends
<1>5. \A i \in 1 .. N : e[i] \in 0 .. Len(blob)
  BY <1>1, <1>4
<1>6. ends \in Seq(0 .. Len(blob)) /\ Len(ends) = N /\ DOMAIN ends = 1 .. N
  BY <1>1, <1>4, <1>5
<1>7. ASSUME NEW i \in 1 .. N PROVE ends[i] = e[i] /\ StartOf(ends, i) = e[i - 1]
  <2>1. ends[i] = e[i]
    BY <1>4
  <2>2. CASE i = 1
    BY <1>4, <2>1, <2>2 DEF StartOf
  <2>3. CASE i # 1
    <3>1. i - 1 \in 1 .. N
      BY <1>1, <2>3
    <3>2. ends[i - 1] = e[i - 1]
      BY <1>4, <3>1
    <3> QED  BY <2>1, <2>3, <3>2 DEF StartOf
  <2> QED  BY <2>2, <2>3
<1>8. ASSUME NEW i \in 1 .. N
      PROVE  /\ e[i - 1] \in Nat /\ e[i] \in Nat /\ e[i - 1] <= e[i] /\ e[i] <= Len(blob)
             /\ SubSeq(blob, e[i - 1] + 1, e[i]) = texts[i]
  <2>1. i - 1 \in 0 .. N /\ i \in 0 .. N
    BY <1>1
  <2>2. e[i - 1] \in Nat /\ e[i] = e[i - 1] + Len(texts[i]) /\ Len(texts[i]) \in Nat /\ e[i] <= Len(blob)
    BY <1>3, <1>4, <2>1
  <2>3. Slice(blob, e[i - 1], Len(texts[i])) = texts[i]
    <3>1. texts[i] \in Seq(X) /\ blob \in Seq(X) /\ e[i - 1] \in Nat /\ Holds(blob, e[i - 1], texts[i])
      BY <1>1, <1>3, <1>4, <2>2
    <3> QED  BY ONLY <3>1, HoldsSlice
  <2>4. SubSeq(blob, e[i - 1] + 1, e[i - 1] + Len(texts[i])) = texts[i]
    BY ONLY <2>3 DEF Slice
  <2>5. e[i] = e[i - 1] + Len(texts[i])
    BY <2>2
  <2>6. SubSeq(blob, e[i - 1] + 1, e[i]) = texts[i]
    BY ONLY <2>4, <2>5, Zenon
  <2>7. e[i - 1] \in Nat /\ e[i] \in Nat /\ e[i - 1] <= e[i] /\ e[i] <= Len(blob)
    BY <2>2
  <2> QED  BY <2>6, <2>7
<1>9. EndsFit(blob, ends)
  BY <1>6, <1>7, <1>8 DEF EndsFit
<1>10. \A i \in 1 .. N : Pieces(blob, ends)[i] = texts[i]
  BY <1>6, <1>7, <1>8 DEF Pieces
<1>11. /\ N > 0 => ends[N] = Len(blob)
       /\ N = 0 => Len(blob) = 0
  BY <1>1, <1>4
<1> QED  BY <1>1, <1>6, <1>9, <1>10, <1>11 DEF N, ends, blob

(* The offsets before a blob that is not too long, and their place.        *)
LEMMA OffsetsWritten ==
    ASSUME NEW texts \in Seq(Seq(Byte)), Size(texts) <= U32Max
    PROVE  LET table == FlattenSeq([i \in DOMAIN texts |-> U32(EndsOf(texts)[i])])
               blob == FlattenSeq(texts)
           IN  /\ OffsetsAndBlob(texts) = table \o blob
               /\ table \in Seq(Byte) /\ Len(table) = Len(texts) * U32Bytes
               /\ \A s \in Seq(Byte), from \in Nat :
                     Holds(s, from, table) => U32s(s, from, Len(texts)) = EndsOf(texts)
<1> DEFINE blob == FlattenSeq(texts)
<1> DEFINE ends == EndsOf(texts)
<1> DEFINE table == FlattenSeq([i \in DOMAIN texts |-> U32(ends[i])])
<1>1. blob \in Seq(Byte) /\ ends \in Seq(0 .. Len(blob)) /\ Len(ends) = Len(texts)
  BY PiecesAre
<1>2. ends \in Seq(0 .. U32Max)
  <2>1. Len(blob) \in Nat /\ Len(blob) <= U32Max /\ U32Max \in Nat
    BY <1>1, WidthFacts DEF Size
  <2> DEFINE D == 0 .. Len(blob)
  <2> DEFINE E == 0 .. U32Max
  <2>2. D \subseteq E
    BY <2>1
  <2>3. ends \in Seq(D)
    BY <1>1
  <2> HIDE DEF D, E, ends
  <2>4. ends \in Seq(E)
    BY <2>2, <2>3
  <2> QED  BY <2>4 DEF E
<1>3. DOMAIN texts = DOMAIN ends
  BY <1>1
<1>4. OffsetsAndBlob(texts) = table \o blob
  BY DEF OffsetsAndBlob
<1> DEFINE other == FlattenSeq([i \in DOMAIN ends |-> U32(ends[i])])
<1>5. table = other
  BY <1>3
<1> HIDE DEF ends
<1>6. /\ other \in Seq(Byte) /\ Len(other) = Len(ends) * U32Bytes
      /\ \A s \in Seq(Byte), from \in Nat :
            Holds(s, from, other) => U32s(s, from, Len(ends)) = ends
  BY <1>2, U32Table
<1> HIDE DEF table, other
<1>7. /\ table \in Seq(Byte) /\ Len(table) = Len(texts) * U32Bytes
      /\ \A s \in Seq(Byte), from \in Nat :
            Holds(s, from, table) => U32s(s, from, Len(texts)) = ends
  BY <1>1, <1>5, <1>6
<1> QED  BY <1>4, <1>7 DEF table, ends

(* A column of texts as texts.                                             *)
LEMMA TextsAre ==
    ASSUME NEW column \in Seq(Storing("Text"))
    PROVE  /\ Null \notin Strings
           /\ Texts(column) \in Seq(Seq(Byte)) /\ Len(Texts(column)) = Len(column)
           /\ \A i \in 1 .. Len(column) :
                 column[i] # Null => /\ Texts(column)[i] = column[i]
                                     /\ column[i] \in Strings /\ Utf8(column[i])
<1>1. Null \notin Strings /\ Strings \subseteq Seq(Byte) /\ \A t \in Strings : Utf8(t)
  BY FileAssumption
<1>2. Len(column) \in Nat /\ DOMAIN column = 1 .. Len(column)
  OBVIOUS
<1>3. \A i \in 1 .. Len(column) : column[i] \in Strings \cup {Null}
  BY DEF Storing
<1>4. \A i \in 1 .. Len(column) : (IF column[i] = Null THEN <<>> ELSE column[i]) \in Seq(Byte)
  BY <1>1, <1>3
<1>5. Texts(column) = [i \in 1 .. Len(column) |-> IF column[i] = Null THEN <<>> ELSE column[i]]
  BY <1>2 DEF Texts
<1>6. Texts(column) \in Seq(Seq(Byte)) /\ Len(Texts(column)) = Len(column)
  BY <1>2, <1>4, <1>5
<1> QED  BY <1>1, <1>3, <1>5, <1>6

(* What decode_text_raw makes of a raw area, whole or cut off.             *)
LEMMA RawDecodes ==
    ASSUME NEW column \in Seq(Storing("Text")), Size(Texts(column)) <= U32Max
    PROVE  LET data == OffsetsAndBlob(Texts(column))
           IN  /\ data \in Seq(Byte) /\ Len(data) = RawSize(column)
               /\ \A n \in 0 .. Len(data) :
                     DecodeTextRaw(SubSeq(data, 1, n), Len(column), PresenceOf(column))
                        = IF n = Len(data) THEN {column} ELSE {}
<1> DEFINE N == Len(column)
<1> DEFINE texts == Texts(column)
<1> DEFINE blob == FlattenSeq(texts)
<1> DEFINE ends == EndsOf(texts)
<1> DEFINE table == FlattenSeq([i \in DOMAIN texts |-> U32(EndsOf(texts)[i])])
<1> DEFINE data == OffsetsAndBlob(texts)
<1>1. N \in Nat /\ U32Bytes \in Nat /\ N * U32Bytes \in Nat
  BY WidthFacts
<1>2. /\ texts \in Seq(Seq(Byte)) /\ Len(texts) = N
      /\ \A i \in 1 .. N :
            column[i] # Null => texts[i] = column[i] /\ Utf8(column[i])
  BY TextsAre
<1>3. RawSize(column) = N * U32Bytes + Len(blob)
  BY DEF RawSize, Size
<1>4. Size(texts) <= U32Max
  OBVIOUS
<1> HIDE DEF texts
<1>5. /\ data = table \o blob
      /\ table \in Seq(Byte) /\ Len(table) = N * U32Bytes
      /\ \A s \in Seq(Byte), from \in Nat : Holds(s, from, table) => U32s(s, from, N) = ends
  BY <1>2, <1>4, OffsetsWritten
<1>6. /\ blob \in Seq(Byte) /\ ends \in Seq(0 .. Len(blob)) /\ Len(ends) = N
      /\ N > 0 => ends[N] = Len(blob)
      /\ N = 0 => Len(blob) = 0
      /\ EndsFit(blob, ends)
      /\ \A i \in 1 .. N : Pieces(blob, ends)[i] = texts[i]
  BY <1>2, PiecesAre
<1> HIDE DEF N, blob, ends, table, data
<1>7. data \in Seq(Byte) /\ Len(data) = N * U32Bytes + Len(blob) /\ Len(blob) \in Nat
  <2>1. table \o blob \in Seq(Byte) /\ Len(table \o blob) = Len(table) + Len(blob)
    BY <1>5, <1>6, HoldsConcat
  <2>2. Len(blob) \in Nat
    BY <1>6
  <2> QED  BY <1>5, <2>1, <2>2
<1>8. ASSUME NEW n \in 0 .. Len(data)
      PROVE  DecodeTextRaw(SubSeq(data, 1, n), N, PresenceOf(column))
                = IF n = Len(data) THEN {column} ELSE {}
  <2> DEFINE cut == SubSeq(data, 1, n)
  <2> DEFINE cutEnds == U32s(cut, 0, N)
  <2> DEFINE cutBlob == From(cut, N * U32Bytes)
  <2> DEFINE rows == [i \in 1 .. N |-> Masked(PresenceOf(column), i, Pieces(cutBlob, cutEnds)[i])]
  <2>1. cut \in Seq(Byte) /\ Len(cut) = n /\ n \in Nat
    BY <1>7
  <2>2. DecodeTextRaw(cut, N, PresenceOf(column))
           = IF /\ Len(cut) >= N * U32Bytes
                /\ EndsFit(cutBlob, cutEnds)
                /\ \A i \in 1 .. N : rows[i] # Null => Utf8(rows[i])
             THEN {rows} ELSE {}
    BY DEF DecodeTextRaw
  <2>3. CASE n < N * U32Bytes
    <3>1. ~ (Len(cut) >= N * U32Bytes) /\ n # Len(data)
      BY <1>1, <1>7, <2>1, <2>3
    <3> HIDE DEF cut, cutEnds, cutBlob, rows
    <3>2. DecodeTextRaw(cut, N, PresenceOf(column)) = {}
      BY <2>2, <3>1
    <3> QED  BY <3>1, <3>2 DEF cut
  <2>4. CASE n >= N * U32Bytes
    <3> DEFINE m == n - N * U32Bytes
    <3>1. Holds(cut, 0, table) /\ cutBlob = SubSeq(blob, 1, m)
      <4>1. Len(table) <= n /\ n <= Len(table) + Len(blob) /\ n \in Nat
        BY <1>1, <1>5, <1>7, <2>1, <2>4
      <4> DEFINE c == SubSeq(table \o blob, 1, n)
      <4>2. table \in Seq(Byte) /\ blob \in Seq(Byte)
        BY <1>5, <1>6
      <4>3. /\ c \in Seq(Byte) /\ Len(c) = n /\ Holds(c, 0, table)
            /\ From(c, Len(table)) = SubSeq(blob, 1, n - Len(table))
        BY ONLY <4>1, <4>2, CutSecond
      <4>4. c = cut
        BY <1>5
      <4> HIDE DEF c, cut
      <4> QED  BY <1>5, <4>3, <4>4
    <3>2. cutEnds = ends
      <4>1. 0 \in Nat
        OBVIOUS
      <4> HIDE DEF cut
      <4> QED  BY <1>5, <2>1, <3>1, <4>1
    <3>3. m \in 0 .. Len(blob) /\ Len(cut) >= N * U32Bytes
      BY <1>1, <1>7, <2>1, <2>4
    <3>4. CASE n = Len(data)
      <4>1. cutBlob = blob
        <5>1. m = Len(blob)
          BY <1>1, <1>7, <3>4
        <5>2. SubSeq(blob, 1, Len(blob)) = blob
          BY <1>6, CutAtEnd
        <5> QED  BY <3>1, <5>1, <5>2
      <4>2. rows = [i \in 1 .. N |-> Masked(PresenceOf(column), i, texts[i])]
        BY <1>6, <3>2, <4>1
      <4>3. ASSUME NEW i \in 1 .. N PROVE Masked(PresenceOf(column), i, texts[i]) = column[i]
        <5>1. Masked(PresenceOf(column), i, texts[i]) = IF column[i] = Null THEN Null ELSE texts[i]
          BY MaskedIs DEF N
        <5> QED  BY <1>2, <5>1
      <4>4. rows = [i \in 1 .. N |-> column[i]]
        BY <4>2, <4>3
      <4>5. column = [i \in 1 .. N |-> column[i]]
        BY DEF N
      <4>6. rows = column
        BY <4>4, <4>5
      <4> HIDE DEF rows, cut, cutEnds, cutBlob
      <4>7. DecodeTextRaw(cut, N, PresenceOf(column)) = {rows}
        BY <1>2, <1>6, <2>2, <3>2, <3>3, <4>1, <4>6
      <4> QED  BY <3>4, <4>6, <4>7 DEF cut
    <3>5. CASE n # Len(data)
      <4>1. m < Len(blob) /\ N > 0
        BY <1>1, <1>6, <1>7, <3>3, <3>5
      <4>2. Len(cutBlob) = m
        BY <1>6, <3>1, <3>3
      <4>3. N \in DOMAIN ends /\ ends[N] = Len(blob)
        BY <1>1, <1>6, <4>1
      <4> HIDE DEF rows, cut, cutEnds, cutBlob, m
      <4>4. ~ (ends[N] <= Len(cutBlob))
        BY <1>7, <3>3, <4>1, <4>2, <4>3
      <4>5. ~ EndsFit(cutBlob, cutEnds)
        BY <3>2, <4>3, <4>4 DEF EndsFit
      <4>6. DecodeTextRaw(cut, N, PresenceOf(column)) = {}
        BY <2>2, <4>5
      <4> QED  BY <3>5, <4>6 DEF cut
    <3> QED  BY <3>4, <3>5
  <2> QED  BY <1>1, <2>1, <2>3, <2>4
<1> QED  BY <1>3, <1>7, <1>8 DEF N, texts, data

---------------------------------------------------------------------------
(* The dictionary *)

(* The dictionary after one more row.                                      *)
Extended(dict, v) ==
    IF v = Null \/ v \in ToSet(dict) THEN dict ELSE Append(dict, v)

(* It stays one of distinct texts, and has the row's.                      *)
LEMMA DictExtends ==
    ASSUME NEW dict \in Seq(Strings), NEW v \in Storing("Text"),
           \A i, j \in DOMAIN dict : dict[i] = dict[j] => i = j
    PROVE  LET more == Extended(dict, v)
           IN  /\ more \in Seq(Strings) /\ Len(more) <= Len(dict) + 1
               /\ \A i, j \in DOMAIN more : more[i] = more[j] => i = j
               /\ ToSet(more) = ToSet(dict) \cup ({v} \ {Null})
<1> DEFINE more == Append(dict, v)
<1>1. Len(dict) \in Nat /\ DOMAIN dict = 1 .. Len(dict)
  OBVIOUS
<1>2. Null \notin Strings
  BY FileAssumption
<1>3. \A i \in DOMAIN dict : dict[i] \in Strings
  OBVIOUS
<1>4. CASE v = Null \/ v \in ToSet(dict)
  <2>1. Extended(dict, v) = dict
    BY <1>4 DEF Extended
  <2>2. ToSet(dict) = ToSet(dict) \cup ({v} \ {Null})
    BY <1>4
  <2> QED  BY <1>1, <2>1, <2>2
<1>5. CASE v # Null /\ v \notin ToSet(dict)
  <2>1. Extended(dict, v) = more /\ v \in Strings
    BY <1>5 DEF Extended, Storing
  <2>2. /\ more \in Seq(Strings) /\ Len(more) = Len(dict) + 1 /\ DOMAIN more = 1 .. Len(dict) + 1
        /\ more[Len(dict) + 1] = v /\ \A i \in 1 .. Len(dict) : more[i] = dict[i]
    BY <1>1, <2>1
  <2> HIDE DEF more
  <2>3. \A i \in DOMAIN dict : dict[i] # v
    BY <1>5 DEF ToSet
  <2>4. ASSUME NEW i \in DOMAIN more, NEW j \in DOMAIN more, more[i] = more[j] PROVE i = j
    <3>1. CASE i = Len(dict) + 1 /\ j = Len(dict) + 1
      BY <3>1
    <3>2. CASE i \in DOMAIN dict /\ j \in DOMAIN dict
      BY <1>1, <2>2, <2>4, <3>2
    <3>3. CASE i = Len(dict) + 1 /\ j \in DOMAIN dict
      BY <1>1, <2>2, <2>3, <2>4, <3>3
    <3>4. CASE j = Len(dict) + 1 /\ i \in DOMAIN dict
      BY <1>1, <2>2, <2>3, <2>4, <3>4
    <3> QED  BY <1>1, <2>2, <3>1, <3>2, <3>3, <3>4
  <2>5. ToSet(more) = ToSet(dict) \cup {v}
    <3>1. DOMAIN more = DOMAIN dict \cup {Len(dict) + 1}
      BY <1>1, <2>2
    <3> QED  BY <1>1, <2>2, <3>1 DEF ToSet
  <2>6. {v} \ {Null} = {v}
    BY <1>5
  <2> QED  BY <1>1, <2>1, <2>2, <2>4, <2>5, <2>6
<1> QED  BY <1>4, <1>5

(* The dictionary of a column: its distinct texts.                         *)
IsDictOf(dict, column) ==
    /\ dict \in Seq(Strings) /\ Len(dict) <= Len(column)
    /\ \A i, j \in DOMAIN dict : dict[i] = dict[j] => i = j
    /\ ToSet(dict) = ToSet(column) \ {Null}

(* The loop over the rows ends with the dictionary of the column.          *)
LEMMA DictIs ==
    ASSUME NEW column \in Seq(Storing("Text"))
    PROVE  IsDictOf(DictTexts(column), column)
<1> DEFINE n == Len(column)
<1> DEFINE S == Seq(Strings)
<1> DEFINE v(i) == column[i]
<1> DEFINE step == [a \in (1 .. n) \X S |-> Extended(a[2], v(a[1]))]
<1> DEFINE IsDict(f) == f = [i \in 0 .. n |->
        IF i = 0 THEN <<>>
        ELSE IF column[i] = Null \/ column[i] \in ToSet(f[i - 1]) THEN f[i - 1]
        ELSE Append(f[i - 1], column[i])]
<1>1. n \in Nat /\ DOMAIN column = 1 .. n /\ (\A i \in 1 .. n : v(i) \in Storing("Text")) /\ <<>> \in S
  OBVIOUS
<1>2. DictTexts(column) = (CHOOSE f : IsDict(f))[n]
  BY DEF DictTexts
<1>3. \A f : IsDict(f) <=> f = [i \in 0 .. n |-> IF i = 0 THEN <<>> ELSE Extended(f[i - 1], v(i))]
  BY DEF Extended
<1>4. ToSet(column) = {v(i) : i \in 1 .. n}
  BY <1>1 DEF ToSet
<1> HIDE DEF n, v, IsDict
<1>5. step \in [(1 .. n) \X S -> S]
  <2>1. ASSUME NEW x \in S, NEW u \in Storing("Text") PROVE Extended(x, u) \in S
    <3>1. CASE u = Null
      BY <3>1 DEF Extended
    <3>2. CASE u # Null
      <4>1. u \in Strings
        BY <3>2 DEF Storing
      <4>2. Append(x, u) \in S
        BY <4>1
      <4> QED  BY <4>2 DEF Extended
    <3> QED  BY <3>1, <3>2
  <2> HIDE DEF S
  <2> QED  BY <1>1, <2>1
<1>6. \A i \in 1 .. n : \A x \in S : step[<<i, x>>] = Extended(x, v(i))
  OBVIOUS
<1> HIDE DEF step, S
<1>7. \E q : IsRun(q, n, S, <<>>, step)
  BY <1>1, <1>5, LoopRuns
<1>8. PICK q : /\ q \in [0 .. n -> S] /\ q[0] = <<>>
               /\ \A i \in 1 .. n : q[i] = step[<<i, q[i - 1]>>]
  BY <1>7 DEF IsRun
<1>9. \A i \in 1 .. n : i - 1 \in 0 .. n /\ q[i] = Extended(q[i - 1], v(i))
  <2> SUFFICES ASSUME NEW i \in 1 .. n PROVE i - 1 \in 0 .. n /\ q[i] = Extended(q[i - 1], v(i))
    OBVIOUS
  <2>1. i - 1 \in 0 .. n /\ q[i] = step[<<i, q[i - 1]>>]
    BY <1>1, <1>8
  <2>2. q[i - 1] \in S
    BY <1>8, <2>1
  <2> QED  BY <2>1, <2>2, <1>6
<1>10. \E g : IsDict(g)
  <2>1. \A i \in 0 .. n : q[i] = IF i = 0 THEN <<>> ELSE Extended(q[i - 1], v(i))
    BY <1>1, <1>8, <1>9
  <2>2. q = [i \in 0 .. n |-> q[i]]
    BY <1>8
  <2>3. IsDict(q)
    BY <1>3, <2>1, <2>2
  <2> QED  BY <2>3
<1> DEFINE f == CHOOSE f : IsDict(f)
<1>11. IsDict(f)
  BY <1>10
<1>12. f = [i \in 0 .. n |-> IF i = 0 THEN <<>> ELSE Extended(f[i - 1], v(i))]
  BY <1>3, <1>11
<1>13. DictTexts(column) = f[n]
  BY <1>2
<1> HIDE DEF f
<1>14. f[0] = <<>> /\ \A i \in 1 .. n : f[i] = Extended(f[i - 1], v(i))
  <2>1. \A i \in 0 .. n : f[i] = IF i = 0 THEN <<>> ELSE Extended(f[i - 1], v(i))
    BY <1>12
  <2> QED  BY ONLY <2>1, <1>1
<1> DEFINE Good(k) ==
        /\ f[k] \in Seq(Strings) /\ Len(f[k]) <= k
        /\ \A i, j \in DOMAIN f[k] : f[k][i] = f[k][j] => i = j
        /\ ToSet(f[k]) = {v(i) : i \in 1 .. k} \ {Null}
<1> DEFINE T == {k \in 0 .. n : Good(k)}
<1>15. 0 \in T
  <2>1. Good(0)
    BY <1>14 DEF ToSet
  <2> HIDE DEF Good
  <2> QED  BY <1>1, <2>1
<1>16. ASSUME NEW k \in 1 .. n, k - 1 \in T PROVE k \in T
  <2>0. Good(k - 1)
    BY <1>16
  <2>1. k \in 0 .. n /\ k \in Int /\ 1 .. k = (1 .. k - 1) \cup {k}
    BY <1>1
  <2> DEFINE d == f[k - 1]
  <2> DEFINE more == Extended(d, v(k))
  <2>2. /\ d \in Seq(Strings) /\ Len(d) <= k - 1
        /\ \A i, j \in DOMAIN d : d[i] = d[j] => i = j
        /\ ToSet(d) = {v(i) : i \in 1 .. k - 1} \ {Null}
    BY <2>0
  <2>3. f[k] = more /\ v(k) \in Storing("Text")
    BY <1>1, <1>14
  <2> HIDE DEF d
  <2>4. /\ more \in Seq(Strings) /\ Len(more) <= Len(d) + 1
        /\ \A i, j \in DOMAIN more : more[i] = more[j] => i = j
        /\ ToSet(more) = ToSet(d) \cup ({v(k)} \ {Null})
    BY <2>2, <2>3, DictExtends
  <2> HIDE DEF more
  <2>5. {v(i) : i \in 1 .. k} = {v(i) : i \in 1 .. k - 1} \cup {v(k)}
    BY ONLY <2>1
  <2>6. ToSet(more) = {v(i) : i \in 1 .. k} \ {Null}
    BY <2>2, <2>4, <2>5
  <2>7. Len(more) <= k
    BY <2>1, <2>2, <2>4
  <2>8. Good(k)
    BY <2>3, <2>4, <2>6, <2>7
  <2> HIDE DEF Good
  <2> QED  BY <2>1, <2>8
<1>17. Good(n)
  <2> HIDE DEF Good
  <2>1. 0 \in T /\ \A k \in 1 .. n : k - 1 \in T => k \in T
    BY <1>15, <1>16
  <2> HIDE DEF T
  <2>2. \A i \in 0 .. n : i \in T
    BY <1>1, <2>1, Rounds
  <2> QED  BY <1>1, <2>2 DEF T
<1> QED  BY <1>4, <1>13, <1>17 DEF IsDictOf, n

(* The code of a row leads to its text.                                    *)
LEMMA CodeLeads ==
    ASSUME NEW column \in Seq(Storing("Text")), NEW dict, IsDictOf(dict, column),
           Len(column) <= U32Max, NEW i \in 1 .. Len(column)
    PROVE  /\ Code(dict, column[i]) \in 0 .. U32Max
           /\ column[i] # Null => /\ Code(dict, column[i]) \in 0 .. Len(dict) - 1
                                  /\ dict[Code(dict, column[i]) + 1] = column[i]
<1>1. /\ dict \in Seq(Strings) /\ Len(dict) <= Len(column) /\ ToSet(dict) = ToSet(column) \ {Null}
      /\ Len(column) \in Nat /\ U32Max \in Nat /\ Len(dict) \in Nat /\ DOMAIN dict = 1 .. Len(dict)
  BY WidthFacts DEF IsDictOf
<1>2. CASE column[i] = Null
  BY <1>1, <1>2 DEF Code
<1>3. CASE column[i] # Null
  <2>1. column[i] \in ToSet(column)
    BY DEF ToSet
  <2>2. \E k \in DOMAIN dict : dict[k] = column[i]
    BY <1>1, <1>3, <2>1 DEF ToSet
  <2> DEFINE k == CHOOSE k \in DOMAIN dict : dict[k] = column[i]
  <2>3. k \in DOMAIN dict /\ dict[k] = column[i]
    BY <2>2
  <2>4. Code(dict, column[i]) = k - 1
    BY <1>3 DEF Code
  <2> HIDE DEF k
  <2>5. k \in 1 .. Len(dict) /\ (k - 1) + 1 = k
    BY <1>1, <2>3
  <2> QED  BY <1>1, <2>3, <2>4, <2>5
<1> QED  BY <1>2, <1>3

(* The four parts of a dictionary area, and where they are in what is left *)
(* of one.                                                                 *)
LEMMA DictParts ==
    ASSUME NEW A \in Seq(Byte), NEW T \in Seq(Byte), NEW B \in Seq(Byte), NEW C \in Seq(Byte)
    PROVE  LET data == A \o (T \o B) \o C
           IN  /\ data \in Seq(Byte) /\ Len(data) = Len(A) + Len(T) + Len(B) + Len(C)
               /\ Holds(data, 0, A) /\ Holds(data, Len(A), T)
               /\ Holds(data, Len(A) + Len(T), B)
               /\ Holds(data, Len(A) + Len(T) + Len(B), C)
<1> DEFINE tb == T \o B
<1> DEFINE atb == A \o tb
<1> DEFINE data == atb \o C
<1>1. Len(A) \in Nat /\ Len(T) \in Nat /\ Len(B) \in Nat /\ Len(C) \in Nat
  OBVIOUS
<1>2. tb \in Seq(Byte) /\ Len(tb) = Len(T) + Len(B) /\ Holds(tb, 0, T) /\ Holds(tb, Len(T), B)
  BY HoldsConcat
<1> HIDE DEF tb
<1>3. /\ atb \in Seq(Byte) /\ Len(atb) = Len(A) + Len(tb) /\ Holds(atb, 0, A) /\ Holds(atb, Len(A), tb)
  BY <1>2, HoldsConcat
<1> HIDE DEF atb
<1>4. data \in Seq(Byte) /\ Len(data) = Len(atb) + Len(C) /\ Holds(data, 0, atb) /\ Holds(data, Len(atb), C)
  BY <1>3, HoldsConcat
<1> HIDE DEF data
<1>5. Holds(atb, Len(A) + 0, T) /\ Holds(atb, Len(A) + Len(T), B)
  BY <1>1, <1>2, <1>3, HoldsPart
<1>6. Holds(data, 0 + 0, A)
  BY <1>3, <1>4, HoldsPart
<1>7. Holds(data, 0 + (Len(A) + 0), T)
  BY <1>1, <1>3, <1>4, <1>5, HoldsPart
<1>8. Holds(data, 0 + (Len(A) + Len(T)), B)
  BY <1>1, <1>3, <1>4, <1>5, HoldsPart
<1>9. /\ 0 + 0 = 0 /\ 0 + (Len(A) + 0) = Len(A) /\ 0 + (Len(A) + Len(T)) = Len(A) + Len(T)
      /\ Len(atb) = Len(A) + Len(T) + Len(B)
      /\ Len(atb) + Len(C) = Len(A) + Len(T) + Len(B) + Len(C)
  BY <1>1, <1>2, <1>3
<1> QED  BY <1>4, <1>6, <1>7, <1>8, <1>9 DEF data, atb, tb

(* The area encode_text writes for a dictionary.                           *)
DictArea(column) ==
    LET dict == DictTexts(column)
        codes == [i \in DOMAIN column |-> U32(Code(dict, column[i]))]
    IN  U32(Len(dict)) \o OffsetsAndBlob(dict) \o FlattenSeq(codes)

(* What decode_text_dict makes of one, whole or cut off.                   *)
LEMMA DictDecodes ==
    ASSUME NEW column \in Seq(Storing("Text")), column # <<>>, Len(column) <= U32Max,
           Size(DictTexts(column)) <= U32Max
    PROVE  LET data == DictArea(column)
           IN  /\ data \in Seq(Byte) /\ Len(data) = DictSize(column)
               /\ \A n \in 0 .. Len(data) :
                     DecodeTextDict(SubSeq(data, 1, n), Len(column), PresenceOf(column))
                        = IF n = Len(data) THEN {column} ELSE {}
<1> DEFINE N == Len(column)
<1> DEFINE dict == DictTexts(column)
<1> DEFINE D == Len(dict)
<1> DEFINE w == U32Bytes
<1> DEFINE nums == [i \in DOMAIN column |-> Code(dict, column[i])]
<1> DEFINE A == U32(D)
<1> DEFINE T == FlattenSeq([i \in DOMAIN dict |-> U32(EndsOf(dict)[i])])
<1> DEFINE B == FlattenSeq(dict)
<1> DEFINE C == FlattenSeq([i \in DOMAIN column |-> U32(Code(dict, column[i]))])
<1> DEFINE data == A \o (T \o B) \o C
<1> DEFINE ends == EndsOf(dict)
<1>1. N \in Nat /\ N # 0 /\ w \in Nat /\ U32Max \in Nat /\ N <= U32Max /\ DOMAIN column = 1 .. N
  BY WidthFacts
<1>2. IsDictOf(dict, column)
  BY DictIs
<1>3. Size(dict) <= U32Max
  OBVIOUS
<1> HIDE DEF dict
<1>4. dict \in Seq(Strings) /\ D <= N /\ D \in Nat /\ DOMAIN dict = 1 .. D
  BY <1>2 DEF IsDictOf
<1>5. dict \in Seq(Seq(Byte)) /\ \A k \in 1 .. D : Utf8(dict[k])
  <2>1. \A k \in 1 .. D : dict[k] \in Strings
    BY <1>4
  <2>2. \A k \in 1 .. D : dict[k] \in Seq(Byte) /\ Utf8(dict[k])
    BY <2>1, FileAssumption
  <2> QED  BY <1>4, <2>2
<1>6. \A i \in 1 .. N :
         /\ nums[i] \in 0 .. U32Max
         /\ column[i] # Null => nums[i] \in 0 .. D - 1 /\ dict[nums[i] + 1] = column[i]
  BY <1>1, <1>2, CodeLeads
<1>7. DOMAIN nums = 1 .. N /\ nums = [i \in 1 .. N |-> nums[i]]
  BY <1>1
<1>8. C = FlattenSeq([i \in DOMAIN nums |-> U32(nums[i])])
  BY <1>1
<1> HIDE DEF nums
<1>9. nums \in Seq(0 .. U32Max) /\ Len(nums) = N
  BY <1>1, <1>6, <1>7
<1>10. /\ C \in Seq(Byte) /\ Len(C) = N * w /\ N * w \in Nat
       /\ \A s \in Seq(Byte), from \in Nat : Holds(s, from, C) => U32s(s, from, N) = nums
  <2>1. N * w \in Nat
    BY <1>1
  <2> QED  BY <1>8, <1>9, <2>1, U32Table
<1>11. A \in Seq(Byte) /\ Len(A) = w /\ D \in 0 .. U32Max
  BY <1>1, <1>4, U32Written
<1>12. /\ OffsetsAndBlob(dict) = T \o B
       /\ T \in Seq(Byte) /\ Len(T) = D * w /\ D * w \in Nat
       /\ \A s \in Seq(Byte), from \in Nat : Holds(s, from, T) => U32s(s, from, D) = ends
  <2>1. D * w \in Nat
    BY <1>1, <1>4
  <2> QED  BY <1>3, <1>5, <2>1, OffsetsWritten
<1>13. /\ B \in Seq(Byte) /\ ends \in Seq(0 .. Len(B)) /\ Len(ends) = D
       /\ D > 0 => ends[D] = Len(B)
       /\ D = 0 => Len(B) = 0
       /\ EndsFit(B, ends)
       /\ \A i \in 1 .. D : Pieces(B, ends)[i] = dict[i]
  BY <1>5, PiecesAre
<1>14. DictArea(column) = data
  BY <1>12 DEF DictArea, dict
<1>15. DictSize(column) = w + D * w + Len(B) + N * w
  BY DEF DictSize, Size, dict
<1> HIDE DEF N, D, A, T, B, C, ends, data, w
<1>16. /\ data \in Seq(Byte) /\ Len(data) = Len(A) + Len(T) + Len(B) + Len(C)
       /\ Holds(data, 0, A) /\ Holds(data, Len(A), T)
       /\ Holds(data, Len(A) + Len(T), B)
       /\ Holds(data, Len(A) + Len(T) + Len(B), C)
  BY <1>10, <1>11, <1>12, <1>13, DictParts DEF data
<1> DEFINE bs == w + D * w
<1>17. /\ Len(A) = w /\ Len(A) + Len(T) = bs /\ Len(A) + Len(T) + Len(B) = bs + Len(B)
       /\ bs \in Nat /\ Len(B) \in Nat /\ bs + Len(B) \in Nat /\ w <= bs
       /\ Len(data) = bs + Len(B) + N * w /\ Len(data) \in Nat
  BY <1>1, <1>10, <1>11, <1>12, <1>13, <1>16
<1>18. Holds(data, 0, A) /\ Holds(data, w, T) /\ Holds(data, bs, B) /\ Holds(data, bs + Len(B), C)
  BY <1>16, <1>17
<1>19. ASSUME NEW n \in 0 .. Len(data)
       PROVE  DecodeTextDict(SubSeq(data, 1, n), N, PresenceOf(column))
                 = IF n = Len(data) THEN {column} ELSE {}
  <2> DEFINE cut == SubSeq(data, 1, n)
  <2> DEFINE count == U32At(cut, 0)
  <2> DEFINE cutEnds == U32s(cut, w, count)
  <2> DEFINE blobStart == w + count * w
  <2> DEFINE blobLen == IF count = 0 THEN 0 ELSE cutEnds[count]
  <2> DEFINE blob == Slice(cut, blobStart, blobLen)
  <2> DEFINE codes == U32s(cut, blobStart + blobLen, N)
  <2> DEFINE rows == [i \in 1 .. N |-> Masked(PresenceOf(column), i, codes[i])]
  <2> DEFINE texts == [i \in 1 .. N |-> IF rows[i] = Null THEN Null ELSE Pieces(blob, cutEnds)[codes[i] + 1]]
  <2> DEFINE fits == /\ Len(cut) >= w
                     /\ Len(cut) >= blobStart
                     /\ Len(cut) >= blobStart + blobLen + N * w
                     /\ EndsFit(blob, cutEnds)
                     /\ \A i \in 1 .. count : Utf8(Pieces(blob, cutEnds)[i])
                     /\ \A i \in 1 .. N : rows[i] # Null => codes[i] < count
  <2>1. cut \in Seq(Byte) /\ Len(cut) = n /\ n \in Nat /\ cut \in Seq(Int)
    <3>1. data \in Seq(Byte) /\ n \in Nat /\ n <= Len(data)
      BY <1>16, <1>17
    <3>2. cut \in Seq(Byte) /\ Len(cut) = n
      BY ONLY <3>1, CutType
    <3> QED  BY <3>1, <3>2, BytesAreInts
  <2>2. DecodeTextDict(cut, N, PresenceOf(column)) = IF fits THEN {texts} ELSE {}
    BY <1>1 DEF DecodeTextDict, w
  <2>3. n >= w => count = D
    <3> SUFFICES ASSUME n >= w PROVE count = D
      OBVIOUS
    <3>1. 0 + Len(A) <= n /\ 0 \in Nat
      BY <1>11, <1>17, <2>1
    <3>2. Holds(cut, 0, A)
      BY <1>11, <1>16, <3>1, HoldsCut
    <3> QED  BY <1>11, <2>1, <3>2, U32Read DEF A
  <2>4. n >= bs => cutEnds = ends /\ blobStart = bs /\ blobLen = Len(B)
    <3> SUFFICES ASSUME n >= bs PROVE cutEnds = ends /\ blobStart = bs /\ blobLen = Len(B)
      OBVIOUS
    <3>1. count = D
      BY <1>1, <1>17, <2>1, <2>3
    <3>2. w + Len(T) <= n
      BY <1>11, <1>12, <1>17, <2>1
    <3>3. Holds(cut, w, T)
      BY <1>1, <1>12, <1>16, <1>18, <3>2, HoldsCut
    <3>4. cutEnds = ends
      <4> HIDE DEF cut, count
      <4> QED  BY <1>1, <1>12, <2>1, <3>1, <3>3
    <3>5. blobLen = Len(B)
      <4>1. blobLen = IF D = 0 THEN 0 ELSE ends[D]
        BY <3>1, <3>4
      <4> HIDE DEF blobLen
      <4> QED  BY <1>4, <1>13, <4>1 DEF D
    <3> QED  BY <3>1, <3>4, <3>5
  <2>5. CASE n < w
    <3>1. ~ fits /\ n # Len(data)
      <4>1. ~ (Len(cut) >= w) /\ n # Len(data)
        BY <1>1, <1>10, <1>17, <2>1, <2>5
      <4> HIDE DEF cut, count, cutEnds, blob, codes, rows, texts, blobStart, blobLen
      <4> QED  BY <4>1
    <3> HIDE DEF fits, texts
    <3> QED  BY <2>2, <3>1
  <2>6. CASE n >= w /\ n < bs
    <3>1. ~ fits /\ n # Len(data)
      <4>1. blobStart = bs
        BY <2>3, <2>6
      <4>2. ~ (Len(cut) >= blobStart) /\ n # Len(data)
        <5> HIDE DEF cut, blobStart, bs
        <5> QED  BY <1>1, <1>10, <1>17, <2>1, <2>6, <4>1
      <4> HIDE DEF cut, count, cutEnds, blob, codes, rows, texts, blobStart, blobLen
      <4> QED  BY <4>2
    <3> HIDE DEF fits, texts
    <3> QED  BY <2>2, <3>1
  <2>7. CASE n >= bs /\ n # Len(data)
    <3>1. ~ fits
      <4>1. blobStart = bs /\ blobLen = Len(B)
        BY <2>4, <2>7
      <4>2. ~ (Len(cut) >= blobStart + blobLen + N * w)
        <5> DEFINE size == N * w
        <5>0. n < Len(data)
          BY <1>17, <2>7
        <5>1. size \in Nat /\ Len(data) = bs + Len(B) + size /\ n < Len(data)
          BY <1>10, <1>17, <5>0
        <5> HIDE DEF cut, blobStart, blobLen, bs, size
        <5>2. ~ (Len(cut) >= blobStart + blobLen + size)
          BY <1>17, <2>1, <4>1, <5>1
        <5> QED  BY <5>2 DEF size
      <4> HIDE DEF cut, count, cutEnds, blob, codes, rows, texts, blobStart, blobLen
      <4> QED  BY <4>2
    <3> HIDE DEF fits, texts
    <3> QED  BY <2>2, <2>7, <3>1
  <2>8. CASE n = Len(data)
    <3>1. cut = data
      BY <1>16, <2>8, CutAtEnd
    <3>2. n >= w /\ n >= bs
      BY <1>1, <1>10, <1>17, <2>8
    <3>3. count = D /\ cutEnds = ends /\ blobStart = bs /\ blobLen = Len(B)
      BY <2>3, <2>4, <3>2
    <3>4. blob = B
      <4>1. Slice(data, bs, Len(B)) = B
        <5> HIDE DEF bs
        <5> QED  BY ONLY <1>13, <1>16, <1>17, <1>18, HoldsSlice
      <4>2. blob = Slice(cut, bs, Len(B))
        BY <3>3
      <4> QED  BY <3>1, <4>1, <4>2
    <3>5. codes = nums
      <4> HIDE DEF cut, blobStart, blobLen, bs
      <4> QED  BY <1>10, <1>16, <1>17, <1>18, <3>1, <3>3
    <3> HIDE DEF cut, count, cutEnds, blob, codes, blobStart, blobLen
    <3>6. \A i \in 1 .. N : rows[i] = IF column[i] = Null THEN Null ELSE nums[i]
      <4>1. \A i \in 1 .. N : Masked(PresenceOf(column), i, nums[i]) = IF column[i] = Null THEN Null ELSE nums[i]
        BY MaskedIs DEF N
      <4> QED  BY <3>5, <4>1
    <3>7. \A i \in 1 .. N : rows[i] = Null => column[i] = Null
      <4>1. Null \notin 0 .. D - 1
        BY I64Assumption
      <4> QED  BY <1>6, <3>6, <4>1
    <3>8. texts = column
      <4>1. \A i \in 1 .. N : texts[i] = column[i]
        <5> SUFFICES ASSUME NEW i \in 1 .. N PROVE texts[i] = column[i]
          OBVIOUS
        <5>1. CASE column[i] = Null
          BY <3>6, <5>1
        <5>2. CASE column[i] # Null
          <6>1. nums[i] \in 0 .. D - 1 /\ dict[nums[i] + 1] = column[i] /\ nums[i] + 1 \in 1 .. D
            BY <1>4, <1>6, <5>2 DEF D
          <6>2. texts[i] = Pieces(B, ends)[nums[i] + 1]
            BY <3>3, <3>4, <3>5, <3>7, <5>2
          <6> QED  BY <1>13, <6>1, <6>2
        <5> QED  BY <5>1, <5>2
      <4>2. column = [i \in 1 .. N |-> column[i]]
        BY DEF N
      <4>3. texts = [i \in 1 .. N |-> texts[i]]
        OBVIOUS
      <4> HIDE DEF texts
      <4> QED  BY <4>1, <4>2, <4>3
    <3>9. fits
      <4>1. \A i \in 1 .. N : rows[i] # Null => codes[i] < count
        BY <1>4, <1>6, <3>3, <3>5, <3>6 DEF D
      <4>2. \A i \in 1 .. count : Utf8(Pieces(blob, cutEnds)[i])
        BY <1>5, <1>13, <3>3, <3>4
      <4>3. Len(cut) >= w /\ Len(cut) >= blobStart /\ Len(cut) >= blobStart + blobLen + N * w
        <5> HIDE DEF bs
        <5> QED  BY <1>1, <1>10, <1>17, <2>1, <2>8, <3>2, <3>3
      <4>4. EndsFit(blob, cutEnds)
        BY <1>13, <3>3, <3>4
      <4> HIDE DEF rows
      <4> QED  BY <4>1, <4>2, <4>3, <4>4
    <3> HIDE DEF fits, texts
    <3> QED  BY <2>2, <2>8, <3>8, <3>9 DEF cut
  <2> HIDE DEF cut
  <2>9. n < w \/ (n >= w /\ n < bs) \/ (n >= bs /\ n # Len(data)) \/ n = Len(data)
    BY <1>1, <1>17, <2>1
  <2> QED  BY <2>5, <2>6, <2>7, <2>8, <2>9 DEF cut
<1> QED  BY <1>14, <1>15, <1>16, <1>17, <1>19 DEF N

---------------------------------------------------------------------------
(* A whole column file *)

(* A set of i64 values has a least and a greatest element.                 *)
LEMMA LeastExists ==
    ASSUME NEW S \in SUBSET I64, S # {}
    PROVE  \E x \in S : \A y \in S : x <= y
<1> SUFFICES ASSUME ~ \E x \in S : \A y \in S : x <= y PROVE FALSE
  OBVIOUS
<1>1. I64Min \in Int /\ \A y \in S : y \in Int /\ y >= I64Min
  BY I64Assumption DEF I64
<1> DEFINE D == {k \in Nat : \A y \in S : y >= I64Min + k}
<1>2. 0 \in D
  BY <1>1
<1>3. ASSUME NEW k \in Nat, k \in D PROVE k + 1 \in D
  <2>1. \A y \in S : y >= I64Min + k
    BY <1>3
  <2>2. I64Min + k \notin S
    BY <2>1
  <2>3. \A y \in S : y >= I64Min + (k + 1)
    BY <1>1, <2>1, <2>2
  <2> QED  BY <2>3
<1> HIDE DEF D
<1>4. Nat \subseteq D
  BY <1>2, <1>3, NatSetInduction
<1>5. PICK y \in S : TRUE
  OBVIOUS
<1>6. y - I64Min + 1 \in Nat
  BY <1>1
<1>7. y >= I64Min + (y - I64Min + 1)
  BY <1>4, <1>6 DEF D
<1> QED  BY <1>1, <1>7

(* And the greatest.                                                       *)
LEMMA GreatestExists ==
    ASSUME NEW S \in SUBSET I64, S # {}
    PROVE  \E x \in S : \A y \in S : y <= x
<1> DEFINE M == {I64Min + I64Max - x : x \in S}
<1>0. \A x \in S : x \in I64 /\ x \in Int
  BY I64Assumption DEF I64
<1>1. M \in SUBSET I64 /\ M # {}
  <2>1. \A x \in S : I64Min + I64Max - x \in I64
    BY <1>0, I64Assumption DEF I64
  <2> QED  BY <2>1
<1>2. PICK m \in M : \A y \in M : m <= y
  <2> HIDE DEF M
  <2> QED  BY <1>1, LeastExists
<1>3. PICK x \in S : m = I64Min + I64Max - x
  OBVIOUS
<1>4. ASSUME NEW y \in S PROVE y <= x
  <2>1. m <= I64Min + I64Max - y
    BY <1>2
  <2> QED  BY <2>1, <1>0, <1>3, I64Assumption
<1> QED  BY <1>4

(* A range that compute_int_range finds can be written.                    *)
LEMMA RangeType ==
    ASSUME NEW column \in Seq(Storing("Int")), NEW d
    PROVE  IntRange(column, d)[1] \in I64 /\ IntRange(column, d)[2] \in I64
<1> DEFINE L == LiveInts(column, d)
<1>1. L \in SUBSET I64
  <2>1. \A i \in DOMAIN column : column[i] \in Ints \cup {Null}
    BY DEF Storing
  <2> QED  BY <2>1, FileAssumption DEF LiveInts
<1> HIDE DEF L
<1>2. I64Min \in I64 /\ I64Max \in I64
  BY I64Assumption DEF I64
<1>3. Least(L \cup {I64Max}) \in I64
  <2> DEFINE S == L \cup {I64Max}
  <2>1. S \in SUBSET I64 /\ S # {}
    BY <1>1, <1>2
  <2> HIDE DEF S
  <2>2. Least(S) \in S
    BY <2>1, LeastExists DEF Least
  <2> QED  BY <2>1, <2>2 DEF S
<1>4. Greatest(L \cup {I64Min}) \in I64
  <2> DEFINE S == L \cup {I64Min}
  <2>1. S \in SUBSET I64 /\ S # {}
    BY <1>1, <1>2
  <2> HIDE DEF S
  <2>2. Greatest(S) \in S
    BY <2>1, GreatestExists DEF Greatest
  <2> QED  BY <2>1, <2>2 DEF S
<1> QED  BY <1>3, <1>4 DEF IntRange, L

(* The area that decodes to the column when it is whole, and not at all    *)
(* when its end is missing.                                                *)
Decoded(ty, encoding, data, n, present) ==
    IF ty = "Int" THEN DecodeIntRaw(data, n, present)
    ELSE IF encoding = Raw THEN DecodeTextRaw(data, n, present)
    ELSE DecodeTextDict(data, n, present)

(* A data area of the column: of the size of the smaller layout, read back *)
(* as the rows, and not read at all when any of it is missing.             *)
IsArea(ty, encoding, data, column) ==
    /\ data \in Seq(Byte)
    /\ encoding \in {Raw, Dict} /\ (ty = "Int" => encoding = Raw)
    /\ ty = "Text" => /\ Len(data) = IF DictSize(column) < RawSize(column)
                                     THEN DictSize(column) ELSE RawSize(column)
                      /\ encoding = Dict <=> DictSize(column) < RawSize(column)
    /\ \A n \in 0 .. Len(data) :
          Decoded(ty, encoding, SubSeq(data, 1, n), Len(column), PresenceOf(column))
             = IF n = Len(data) THEN {column} ELSE {}

(* An empty column has nothing to save.                                    *)
LEMMA EmptyIsRaw ==
    /\ FlattenSeq(<<>>) = <<>>
    /\ RawSize(<<>>) = 0 /\ ~ (DictSize(<<>>) < RawSize(<<>>))
    /\ Texts(<<>>) = <<>> /\ Size(<<>>) = 0 /\ OffsetsAndBlob(<<>>) = <<>>
<1>0. <<>> \in Seq(Seq(Byte)) /\ Len(<<>>) = 0 /\ DOMAIN <<>> = {} /\ <<>> \in Seq(Storing("Text"))
  OBVIOUS
<1>1. FlattenSeq(<<>>) = <<>>
  <2>1. FlattenSeq(<<>>) \in Seq(Byte) /\ Len(FlattenSeq(<<>>)) = 0
    BY <1>0, PiecesAre
  <2> QED  BY <2>1
<1>2. Texts(<<>>) = <<>> /\ [i \in DOMAIN <<>> |-> U32(EndsOf(<<>>)[i])] = <<>>
  BY DEF Texts
<1>3. Size(<<>>) = 0 /\ RawSize(<<>>) = 0
  BY <1>0, <1>1, <1>2, WidthFacts DEF RawSize, Size
<1>4. OffsetsAndBlob(<<>>) = <<>>
  BY <1>1, <1>2 DEF OffsetsAndBlob
<1>5. ~ (DictSize(<<>>) < RawSize(<<>>))
  <2> DEFINE dict == DictTexts(<<>>)
  <2>1. dict \in Seq(Strings)
    BY <1>0, DictIs DEF IsDictOf
  <2>2. dict \in Seq(Seq(Byte))
    <3>1. \A k \in 1 .. Len(dict) : dict[k] \in Seq(Byte)
      BY <2>1, FileAssumption
    <3> QED  BY <2>1, <3>1
  <2> HIDE DEF dict
  <2>3. FlattenSeq(dict) \in Seq(Byte)
    BY <2>2, FlattenParts
  <2>4. Size(dict) \in Nat /\ Len(dict) * U32Bytes \in Nat /\ U32Bytes \in Nat
    BY <2>2, <2>3, WidthFacts DEF Size
  <2>5. DictSize(<<>>) = U32Bytes + Len(dict) * U32Bytes + Size(dict) + 0 * U32Bytes
    BY <1>0 DEF DictSize, dict
  <2>6. DictSize(<<>>) \in Nat
    <3> DEFINE a == Len(dict) * U32Bytes
    <3>1. a \in Nat /\ DictSize(<<>>) = U32Bytes + a + Size(dict) + 0
      BY <2>4, <2>5
    <3> HIDE DEF a
    <3> QED  BY <2>4, <3>1
  <2> QED  BY <1>3, <2>6
<1> QED  BY <1>1, <1>2, <1>3, <1>4, <1>5

(* The three areas are such areas.                                         *)
LEMMA AreaOfInts ==
    ASSUME NEW column \in Seq(Storing("Int"))
    PROVE  IsArea("Int", Raw, EncodeIntRaw(column), column)
  BY IntDecodes DEF IsArea, Decoded, Raw, Dict

(* And so the area of a TEXT column, in the layout chosen.                 *)
LEMMA AreaOfTexts ==
    ASSUME NEW column \in Seq(Storing("Text")), Len(column) <= U32Max,
           NEW a \in EncodeText(column)
    PROVE  IsArea("Text", a.encoding, a.data, column)
<1>1. CASE DictSize(column) < RawSize(column)
  <2>1. /\ Size(DictTexts(column)) <= U32Max
        /\ a = [encoding |-> Dict, data |-> DictArea(column)]
    BY <1>1 DEF EncodeText, DictArea
  <2>2. column # <<>>
    BY <1>1, EmptyIsRaw
  <2> DEFINE data == DictArea(column)
  <2>3. /\ data \in Seq(Byte) /\ Len(data) = DictSize(column)
        /\ \A n \in 0 .. Len(data) :
              DecodeTextDict(SubSeq(data, 1, n), Len(column), PresenceOf(column))
                 = IF n = Len(data) THEN {column} ELSE {}
    BY <2>1, <2>2, DictDecodes
  <2> HIDE DEF data
  <2>4. IsArea("Text", Dict, data, column)
    <3>1. \A n : Decoded("Text", Dict, SubSeq(data, 1, n), Len(column), PresenceOf(column))
                    = DecodeTextDict(SubSeq(data, 1, n), Len(column), PresenceOf(column))
      BY DEF Decoded, Raw, Dict
    <3>2. Raw # Dict
      BY DEF Raw, Dict
    <3> QED  BY <1>1, <2>3, <3>1, <3>2 DEF IsArea
  <2>5. a.encoding = Dict /\ a.data = data
    BY <2>1 DEF data
  <2> QED  BY <2>4, <2>5
<1>2. CASE ~ (DictSize(column) < RawSize(column))
  <2> DEFINE data == OffsetsAndBlob(Texts(column))
  <2>1. /\ Size(Texts(column)) <= U32Max
        /\ a = [encoding |-> Raw, data |-> data]
    BY <1>2 DEF EncodeText
  <2>3. /\ data \in Seq(Byte) /\ Len(data) = RawSize(column)
        /\ \A n \in 0 .. Len(data) :
              DecodeTextRaw(SubSeq(data, 1, n), Len(column), PresenceOf(column))
                 = IF n = Len(data) THEN {column} ELSE {}
    BY <2>1, RawDecodes
  <2> HIDE DEF data
  <2>4. IsArea("Text", Raw, data, column)
    <3>1. \A n : Decoded("Text", Raw, SubSeq(data, 1, n), Len(column), PresenceOf(column))
                    = DecodeTextRaw(SubSeq(data, 1, n), Len(column), PresenceOf(column))
      BY DEF Decoded, Raw, Dict
    <3>2. Raw # Dict
      BY DEF Raw, Dict
    <3> QED  BY <1>2, <2>3, <3>1, <3>2 DEF IsArea
  <2>5. a.encoding = Raw /\ a.data = data
    BY <2>1
  <2> QED  BY <2>4, <2>5
<1> QED  BY <1>1, <1>2

(* What follows what follows.                                              *)
LEMMA FromFrom ==
    ASSUME NEW X, NEW s \in Seq(X), NEW j \in Nat, NEW k \in Nat, j + k <= Len(s)
    PROVE  From(From(s, j), k) = From(s, j + k)
<1> DEFINE t == SubSeq(s, j + 1, Len(s))
<1> DEFINE u == SubSeq(t, k + 1, Len(t))
<1> DEFINE v == SubSeq(s, j + k + 1, Len(s))
<1>1. Len(s) \in Nat
  OBVIOUS
<1>2. t \in Seq(X) /\ Len(t) = Len(s) - j /\ \A i \in 1 .. Len(t) : t[i] = s[j + i]
  BY <1>1
<1>3. v \in Seq(X) /\ Len(v) = Len(s) - (j + k) /\ \A i \in 1 .. Len(v) : v[i] = s[j + k + i]
  BY <1>1
<1> HIDE DEF t
<1>4. u \in Seq(X) /\ Len(u) = Len(t) - k /\ \A i \in 1 .. Len(u) : u[i] = t[k + i]
  BY <1>1, <1>2
<1> HIDE DEF u, v
<1>5. Len(u) = Len(v)
  BY <1>1, <1>2, <1>3, <1>4
<1>6. ASSUME NEW i \in 1 .. Len(u) PROVE u[i] = v[i]
  <2>1. k + i \in 1 .. Len(t) /\ j + (k + i) = j + k + i
    BY <1>1, <1>2, <1>4
  <2> QED  BY <1>2, <1>3, <1>4, <1>5, <2>1
<1>7. u = v
  <2>1. u \in Seq(X) /\ v \in Seq(X)
    BY <1>3, <1>4
  <2> QED  BY ONLY <2>1, <1>5, <1>6
<1> QED  BY <1>7 DEF u, v, t, From

(* What encode_column writes between the header and the data.              *)
PresenceBytes(column) == IF Nulls(column) # {} THEN PresentBitmap(column) ELSE <<>>

(* The reader takes those bytes for the bitmap.                            *)
LEMMA PresenceWritten ==
    ASSUME NEW X, NEW column \in Seq(X)
    PROVE  LET p == PresenceBytes(column)
           IN  /\ p \in Seq(Byte)
               /\ Len(p) = IF Nulls(column) # {} THEN CeilDiv(Len(column)) ELSE 0
               /\ PresenceOf(column) = IF Nulls(column) # {} THEN {p} ELSE {}
<1>1. Len(column) \in Nat
  OBVIOUS
<1>2. PresentBitmap(column) \in Seq(Byte) /\ Len(PresentBitmap(column)) = CeilDiv(Len(column))
  BY <1>1, BitmapBytes DEF PresentBitmap
<1>3. <<>> \in Seq(Byte) /\ Len(<<>>) = 0
  OBVIOUS
<1>4. CASE Nulls(column) # {}
  <2>1. PresenceBytes(column) = PresentBitmap(column) /\ PresenceOf(column) = {PresentBitmap(column)}
    BY <1>4 DEF PresenceBytes, PresenceOf
  <2> QED  BY <1>2, <1>4, <2>1
<1>5. CASE Nulls(column) = {}
  <2>1. PresenceBytes(column) = <<>> /\ PresenceOf(column) = {}
    BY <1>5 DEF PresenceBytes, PresenceOf
  <2> QED  BY <1>3, <1>5, <2>1
<1> QED  BY <1>4, <1>5

(* The parts of an image.                                                  *)
IsImage(img, ty, column, d, encoding, data) ==
    LET nulls == Cardinality(Nulls(column))
        range == IF ty = "Int" THEN IntRange(column, d) ELSE NoRange
    IN  /\ img = Header(ty, encoding, Len(column), nulls, range) \o PresenceBytes(column) \o data
        /\ Writable(ty, encoding, Len(column), nulls, range)
        /\ nulls > 0 <=> Nulls(column) # {}
        /\ IsArea(ty, encoding, data, column)

(* What encode_column writes has these parts.                              *)
LEMMA Encoded ==
    ASSUME NEW ty \in {"Int", "Text"}, NEW column \in Seq(Storing(ty)), NEW d,
           NEW img \in EncodeColumn(ty, column, d)
    PROVE  \E encoding, data : IsImage(img, ty, column, d, encoding, data)
<1> DEFINE areas == IF ty = "Int" THEN {[encoding |-> Raw, data |-> EncodeIntRaw(column)]}
                                  ELSE EncodeText(column)
<1> DEFINE nulls == Cardinality(Nulls(column))
<1> DEFINE range == IF ty = "Int" THEN IntRange(column, d) ELSE NoRange
<1>1. PICK a \in areas :
          /\ Len(column) <= U32Max
          /\ img = Header(ty, a.encoding, Len(column), nulls, range)
                      \o (IF nulls > 0 THEN PresentBitmap(column) ELSE <<>>) \o a.data
  BY DEF EncodeColumn
<1>2. nulls \in 0 .. U32Max /\ (nulls > 0 <=> Nulls(column) # {})
  BY <1>1, NullsCounted
<1>3. IsArea(ty, a.encoding, a.data, column)
  <2>1. CASE ty = "Int"
    <3>1. a.encoding = Raw /\ a.data = EncodeIntRaw(column)
      BY <1>1, <2>1
    <3> QED  BY <2>1, <3>1, AreaOfInts
  <2>2. CASE ty = "Text"
    <3>1. a \in EncodeText(column)
      BY <1>1, <2>2
    <3> QED  BY <1>1, <2>2, <3>1, AreaOfTexts
  <2> QED  BY <2>1, <2>2
<1>4. Writable(ty, a.encoding, Len(column), nulls, range)
  <2>1. Len(column) \in 0 .. U32Max
    BY <1>1, WidthFacts
  <2>2. a.encoding \in {Raw, Dict}
    BY <1>3 DEF IsArea
  <2>3. ty = "Int" => range[1] \in I64 /\ range[2] \in I64
    <3>1. CASE ty = "Int"
      BY <3>1, RangeType
    <3> QED  BY <3>1
  <2> HIDE DEF nulls, range
  <2> QED  BY <1>2, <2>1, <2>2, <2>3 DEF Writable
<1>5. (IF nulls > 0 THEN PresentBitmap(column) ELSE <<>>) = PresenceBytes(column)
  BY <1>2 DEF PresenceBytes
<1>6. IsImage(img, ty, column, d, a.encoding, a.data)
  <2> HIDE DEF areas
  <2> QED  BY <1>1, <1>2, <1>3, <1>4, <1>5 DEF IsImage
<1> QED  BY <1>6

(* read_column of a whole image and of one that lost its end.              *)
LEMMA ReadBack ==
    ASSUME NEW ty \in {"Int", "Text"}, NEW column \in Seq(Storing(ty)), NEW d,
           NEW img, NEW encoding, NEW data, IsImage(img, ty, column, d, encoding, data)
    PROVE  /\ img \in Seq(Byte)
           /\ Len(img) = HeaderSize + Len(PresenceBytes(column)) + Len(data)
           /\ \E h : /\ ParseHeader(img) = {h}
                     /\ ReadColumn(img) = {[header |-> h, rows |-> column]}
                     /\ Says(h, ty, encoding, Len(column), Cardinality(Nulls(column)),
                             IF ty = "Int" THEN IntRange(column, d) ELSE NoRange)
           /\ \A n \in 0 .. Len(img) - 1 : ReadColumn(SubSeq(img, 1, n)) = {}
<1> DEFINE N == Len(column)
<1> DEFINE nulls == Cardinality(Nulls(column))
<1> DEFINE range == IF ty = "Int" THEN IntRange(column, d) ELSE NoRange
<1> DEFINE head == Header(ty, encoding, N, nulls, range)
<1> DEFINE p == PresenceBytes(column)
<1> DEFINE hp == head \o p
<1>1. img = hp \o data /\ Writable(ty, encoding, N, nulls, range)
  BY DEF IsImage
<1>2. /\ nulls > 0 <=> Nulls(column) # {}
      /\ IsArea(ty, encoding, data, column)
  BY DEF IsImage
<1>3. head \in Seq(Byte) /\ Len(head) = HeaderSize
  BY <1>1, HeaderFields
<1>4. /\ p \in Seq(Byte)
      /\ Len(p) = IF Nulls(column) # {} THEN CeilDiv(N) ELSE 0
      /\ PresenceOf(column) = IF Nulls(column) # {} THEN {p} ELSE {}
  BY PresenceWritten
<1>5. HeaderSize \in Nat /\ N \in Nat /\ CeilDiv(N) \in Nat /\ U32Bytes \in Nat /\ I64Bytes \in Nat
  BY WidthFacts, CeilDivFacts DEF HeaderSize
<1>6. data \in Seq(Byte) /\ Len(data) \in Nat
  BY <1>2 DEF IsArea
<1> HIDE DEF p, head
<1> DEFINE H == HeaderSize
<1> DEFINE b == Len(p)
<1>7. hp \in Seq(Byte) /\ Len(hp) = H + b /\ Holds(hp, 0, head) /\ Holds(hp, H, p) /\ b \in Nat
  <2>1. hp \in Seq(Byte) /\ Len(hp) = Len(head) + Len(p) /\ Holds(hp, 0, head) /\ Holds(hp, Len(head), p)
    BY <1>3, <1>4, HoldsConcat
  <2> QED  BY <1>3, <1>4, <2>1
<1> HIDE DEF hp
<1>8. img \in Seq(Byte) /\ Len(img) = H + b + Len(data) /\ Holds(img, 0, hp) /\ Holds(img, 0, head) /\ Holds(img, H, p)
  <2> DEFINE i == hp \o data
  <2>1. i \in Seq(Byte) /\ Len(i) = Len(hp) + Len(data) /\ Holds(i, 0, hp)
    BY <1>6, <1>7, HoldsConcat
  <2> HIDE DEF i
  <2>2. Holds(i, 0 + 0, head) /\ Holds(i, 0 + H, p)
    BY <1>3, <1>4, <1>5, <1>7, <2>1, HoldsPart
  <2>3. i = img
    BY <1>1 DEF i
  <2> QED  BY <1>5, <1>7, <2>1, <2>2, <2>3
<1>9. ASSUME NEW n \in 0 .. Len(img)
      PROVE  LET cut == SubSeq(img, 1, n)
             IN  IF n < Len(img) THEN ReadColumn(cut) = {}
                 ELSE \E h : /\ ParseHeader(cut) = {h}
                             /\ ReadColumn(cut) = {[header |-> h, rows |-> column]}
                             /\ Says(h, ty, encoding, N, nulls, range)
  <2> DEFINE cut == SubSeq(img, 1, n)
  <2> DEFINE area == From(cut, H)
  <2>1. cut \in Seq(Byte) /\ Len(cut) = n /\ n \in Nat
    BY <1>5, <1>7, <1>8
  <2>2. CASE n < H
    <3>1. ParseHeader(cut) = {}
      <4>1. ~ (Len(cut) >= HeaderSize)
        BY <1>5, <2>1, <2>2
      <4> QED  BY <4>1 DEF ParseHeader
    <3>2. ReadColumn(cut) = {}
      BY <3>1 DEF ReadColumn
    <3>3. n < Len(img)
      BY <1>5, <1>6, <1>7, <1>8, <2>1, <2>2
    <3> QED  BY <3>2, <3>3
  <2>3. CASE n >= H
    <3>1. Holds(cut, 0, head)
      <4>1. 0 + Len(head) <= n /\ 0 \in Nat
        BY <1>3, <1>5, <2>1, <2>3
      <4> QED  BY <1>3, <1>8, <4>1, HoldsCut
    <3>2. PICK h : ParseHeader(cut) = {h} /\ Says(h, ty, encoding, N, nulls, range)
      BY <1>1, <2>1, <3>1, HeaderRead DEF head
    <3> HIDE DEF cut, area
    <3>3. ReadColumn(cut) = {[header |-> h, rows |-> r] : r \in ReadRows(h, area)}
      BY <3>2 DEF ReadColumn, area
    <3> DEFINE bm == IF h.nulls THEN CeilDiv(h.rows) ELSE 0
    <3>4. /\ h.ty = ty /\ h.encoding = encoding /\ h.rows = N
          /\ h.nulls = (nulls > 0)
      BY <3>2 DEF Says
    <3>5. h.nulls <=> Nulls(column) # {}
      BY <1>2, <3>4
    <3>6. bm = b
      BY <1>4, <3>4, <3>5
    <3> HIDE DEF b, bm
    <3>7. area \in Seq(Byte) /\ Len(area) = n - H
      <4> DEFINE a == SubSeq(cut, H + 1, Len(cut))
      <4>1. a \in Seq(Byte) /\ Len(a) = Len(cut) - H
        BY <1>5, <2>1, <2>3
      <4> QED  BY <2>1, <4>1 DEF area, From
    <3>8. CASE n < H + b
      <4>1. Len(area) < bm
        BY <1>5, <1>7, <2>1, <3>6, <3>7, <3>8
      <4>2. ReadRows(h, area) = {}
        BY <4>1 DEF ReadRows, bm
      <4>3. n < Len(img)
        BY <1>5, <1>6, <1>7, <1>8, <2>1, <3>8
      <4>4. ReadColumn(cut) = {}
        BY <3>3, <4>2
      <4> QED  BY <4>3, <4>4 DEF cut
    <3>9. CASE n >= H + b
      <4> DEFINE m == n - (H + b)
      <4> DEFINE rest == From(area, bm)
      <4> DEFINE present == IF h.nulls THEN {Slice(area, 0, bm)} ELSE {}
      <4>1. /\ m \in 0 .. Len(data) /\ (n < Len(img) <=> m # Len(data))
            /\ ~ (Len(area) < bm) /\ H + b <= n
        <5>1. H \in Nat /\ Len(img) = H + b + Len(data) /\ n \in 0 .. Len(img) /\ Len(area) = n - H /\ bm = b
          BY <1>5, <1>8, <3>6, <3>7
        <5> HIDE DEF H
        <5> QED  BY ONLY <5>1, <1>6, <1>7, <3>9
      <4>2. rest = SubSeq(data, 1, m)
        <5> DEFINE c == SubSeq(hp \o data, 1, n)
        <5>1. Len(hp) <= n /\ n <= Len(hp) + Len(data) /\ n \in Nat
          BY <1>5, <1>6, <1>7, <1>8, <2>1, <3>9
        <5>2. /\ c \in Seq(Byte) /\ Len(c) = n /\ Holds(c, 0, hp)
              /\ From(c, Len(hp)) = SubSeq(data, 1, n - Len(hp))
          <6>1. hp \in Seq(Byte) /\ data \in Seq(Byte)
            BY <1>6, <1>7
          <6> QED  BY ONLY <5>1, <6>1, CutSecond
        <5>3. c = cut
          BY <1>1 DEF cut
        <5> HIDE DEF c
        <5>4. From(cut, H + b) = SubSeq(data, 1, m)
          BY <1>7, <5>2, <5>3
        <5>5. From(From(cut, H), b) = From(cut, H + b)
          BY <1>5, <1>7, <2>1, <4>1, FromFrom
        <5> QED  BY <3>6, <5>4, <5>5 DEF area
      <4>3. present = PresenceOf(column)
        <5>1. CASE ~ h.nulls
          BY <1>4, <3>5, <5>1
        <5>2. CASE h.nulls
          <6>1. Holds(cut, H, p)
            <7>1. H + Len(p) <= n
              BY <4>1 DEF b
            <7> QED  BY <1>4, <1>5, <1>8, <7>1, HoldsCut DEF cut
          <6>2. Holds(cut, H + 0, p)
            BY <1>5, <6>1
          <6>3. Holds(area, 0, p)
            <7>1. 0 \in Nat
              OBVIOUS
            <7> QED  BY <1>4, <1>5, <2>1, <6>2, <7>1, HoldsFrom DEF area
          <6>4. Slice(area, 0, Len(p)) = p
            <7>1. 0 \in Nat
              OBVIOUS
            <7> QED  BY <1>4, <3>7, <6>3, <7>1, HoldsSlice
          <6> QED  BY <1>4, <3>5, <3>6, <5>2, <6>4 DEF b
        <5> QED  BY <5>1, <5>2
      <4> HIDE DEF m
      <4>4. Decoded(ty, encoding, rest, N, present) = IF m = Len(data) THEN {column} ELSE {}
        BY <1>2, <4>1, <4>2, <4>3 DEF IsArea
      <4>5. ReadRows(h, area) = Decoded(ty, encoding, rest, N, present)
        <5>1. encoding \in {Raw, Dict} /\ (ty = "Int" => encoding = Raw) /\ Raw # Dict
          BY <1>2 DEF IsArea, Raw, Dict
        <5>2. ReadRows(h, area) =
                 CASE h.ty = "Int" /\ h.encoding = Raw -> DecodeIntRaw(rest, h.rows, present)
                   [] h.ty = "Text" /\ h.encoding = Raw -> DecodeTextRaw(rest, h.rows, present)
                   [] h.ty = "Text" /\ h.encoding = Dict -> DecodeTextDict(rest, h.rows, present)
                   [] OTHER -> {}
          BY <4>1 DEF ReadRows, bm
        <5> HIDE DEF rest, present
        <5>3. CASE ty = "Int"
          BY <3>4, <5>1, <5>2, <5>3 DEF Decoded
        <5>4. CASE ty = "Text" /\ encoding = Raw
          BY <3>4, <5>1, <5>2, <5>4 DEF Decoded
        <5>5. CASE ty = "Text" /\ encoding = Dict
          BY <3>4, <5>1, <5>2, <5>5 DEF Decoded
        <5> QED  BY <5>1, <5>3, <5>4, <5>5
      <4>6. CASE n < Len(img)
        <5>1. ReadRows(h, area) = {}
          BY <4>1, <4>4, <4>5, <4>6
        <5>2. ReadColumn(cut) = {}
          BY <3>3, <5>1
        <5> QED  BY <4>6, <5>2 DEF cut
      <4>7. CASE ~ (n < Len(img))
        <5>1. ReadRows(h, area) = {column}
          BY <4>1, <4>4, <4>5, <4>7
        <5>2. ReadColumn(cut) = {[header |-> h, rows |-> column]}
          BY <3>3, <5>1
        <5> HIDE DEF N, nulls, range
        <5> QED  BY <3>2, <4>7, <5>2 DEF cut
      <4> QED  BY <4>6, <4>7
    <3> QED  BY <1>5, <1>7, <2>1, <3>8, <3>9
  <2> HIDE DEF cut
  <2> QED  BY <1>5, <2>1, <2>2, <2>3 DEF cut
<1>10. SubSeq(img, 1, Len(img)) = img
  BY <1>8, CutAtEnd
<1>11. Len(img) \in 0 .. Len(img) /\ ~ (Len(img) < Len(img))
  BY <1>8
<1>12. \E h : /\ ParseHeader(img) = {h}
              /\ ReadColumn(img) = {[header |-> h, rows |-> column]}
              /\ Says(h, ty, encoding, N, nulls, range)
  <2> HIDE DEF N, nulls, range
  <2> QED  BY <1>9, <1>10, <1>11
<1>13. \A n \in 0 .. Len(img) - 1 : ReadColumn(SubSeq(img, 1, n)) = {}
  <2> SUFFICES ASSUME NEW n \in 0 .. Len(img) - 1 PROVE ReadColumn(SubSeq(img, 1, n)) = {}
    OBVIOUS
  <2>1. n \in 0 .. Len(img) /\ n < Len(img)
    BY <1>8
  <2> QED  BY <1>9, <2>1
<1> QED  BY <1>8, <1>12, <1>13 DEF p
============================================================================
