---------------------------- MODULE FormatProofs ----------------------------
(* Facts about the encoding of frames: what a concatenation of encodings    *)
(* is, how many bytes it has, how many digits a number has.                 *)
EXTENDS OobFormat, FiniteSetTheorems, WellFoundedInduction, SequenceTheorems, TLAPS

(* Induction on the natural numbers, for a set of numbers. *)
LEMMA NatSetInduction ==
    ASSUME NEW S, 0 \in S, \A n \in Nat : n \in S => n + 1 \in S
    PROVE  Nat \subseteq S
<1> SUFFICES ASSUME Nat \ S # {} PROVE FALSE
  OBVIOUS
<1> DEFINE R == {ss \in Nat \X Nat : ss[1] < ss[2]}
           T == Nat \ S
<1>1. IsWellFoundedOn(R, Nat)
  BY NatLessThanWellFounded DEF OpToRel
<1>2. PICK n \in T : \A m \in T : ~(<<m, n>> \in R)
  <2>1. T \subseteq Nat /\ T # {}
    OBVIOUS
  <2> HIDE DEF R, T
  <2> QED BY <1>1, <2>1, WFMin
<1>3. n # 0 /\ n - 1 \in Nat /\ (n - 1) + 1 = n
  BY <1>2
<1>4. <<n - 1, n>> \in R
  BY <1>3
<1>5. n - 1 \in S
  BY <1>2, <1>3, <1>4
<1> QED BY <1>2, <1>3, <1>5

(* The concatenations of the first 1, 2, ..., n members of seqs. *)
Flattens(f, seqs, n) ==
    f = [i \in 1..n |-> IF i = 1 THEN seqs[i] ELSE f[i - 1] \o seqs[i]]

(* There always is such a function. *)
LEMMA FlattenExists == ASSUME NEW seqs PROVE \A n \in Nat : \E f : Flattens(f, seqs, n)
<1> DEFINE S == {n \in Nat : \E f : Flattens(f, seqs, n)}
<1>1. 0 \in S
  <2>1. Flattens(<<>>, seqs, 0)
    BY DEF Flattens
  <2> QED BY <2>1
<1>2. ASSUME NEW n \in Nat, n \in S PROVE n + 1 \in S
  <2>1. PICK f : Flattens(f, seqs, n)
    BY <1>2
  <2>a. PICK last : last = f[n] \o seqs[n + 1]
    OBVIOUS
  <2> DEFINE g == [i \in 1..(n + 1) |-> IF i = 1 THEN seqs[i] ELSE IF i = n + 1 THEN last ELSE f[i]]
  <2>2. \A i \in 1..n : f[i] = IF i = 1 THEN seqs[i] ELSE f[i - 1] \o seqs[i]
    BY <2>1 DEF Flattens
  <2>3. \A i \in 1..n : g[i] = f[i]
    BY <2>2
  <2>4. \A i \in 1..(n + 1) : g[i] = IF i = 1 THEN seqs[i] ELSE g[i - 1] \o seqs[i]
    <3> SUFFICES ASSUME NEW i \in 1..(n + 1), i # 1 PROVE g[i] = g[i - 1] \o seqs[i]
      OBVIOUS
    <3>1. i - 1 \in 1..n
      OBVIOUS
    <3>2. g[i - 1] = f[i - 1]
      BY <2>3, <3>1
    <3>3. CASE i = n + 1
      <4>1. i - 1 = n /\ g[i] = last
        BY <3>3
      <4>2. g[i - 1] = f[n]
        BY <3>2, <4>1
      <4> HIDE DEF g
      <4> QED BY <2>a, <3>3, <4>1, <4>2, Zenon
    <3>4. CASE i # n + 1
      <4>1. i \in 1..n
        BY <3>4
      <4>2. g[i] = f[i] /\ f[i] = f[i - 1] \o seqs[i]
        BY <2>2, <2>3, <4>1
      <4> HIDE DEF g
      <4> QED BY <3>2, <4>2, Zenon
    <3> QED BY <3>3, <3>4
  <2>5. Flattens(g, seqs, n + 1)
    BY <2>4 DEF Flattens
  <2> HIDE DEF g
  <2> QED BY <2>5
<1> HIDE DEF S
<1>3. Nat \subseteq S
  BY <1>1, <1>2, NatSetInduction
<1> QED BY <1>3 DEF S

(* What FlattenSeq computes: the last of these concatenations. *)
LEMMA FlattenValue ==
    ASSUME NEW seqs, Len(seqs) \in Nat \ {0}
    PROVE  \E f : Flattens(f, seqs, Len(seqs)) /\ FlattenSeq(seqs) = f[Len(seqs)]
<1> DEFINE g == CHOOSE f : Flattens(f, seqs, Len(seqs))
<1>1. \E f : Flattens(f, seqs, Len(seqs))
  BY FlattenExists
<1>2. Flattens(g, seqs, Len(seqs))
  BY <1>1
<1>3. FlattenSeq(seqs) = g[Len(seqs)]
  BY Zenon DEF FlattenSeq, Flattens
<1> QED BY <1>2, <1>3

(* Flattens determines its function. *)
LEMMA FlattenUnique ==
    ASSUME NEW f, NEW g, NEW seqs, NEW n \in Nat, NEW m \in Nat, n <= m,
           NEW seqs2, \A i \in 1..n : seqs[i] = seqs2[i],
           Flattens(f, seqs, n), Flattens(g, seqs2, m)
    PROVE  \A i \in 1..n : f[i] = g[i]
<1> DEFINE S == {i \in Nat : i \in 1..n => f[i] = g[i]}
<1>1. 0 \in S
  OBVIOUS
<1>2. ASSUME NEW i \in Nat, i \in S PROVE i + 1 \in S
  <2> SUFFICES ASSUME i + 1 \in 1..n PROVE f[i + 1] = g[i + 1]
    OBVIOUS
  <2>1. i + 1 \in 1..m /\ (i + 1) - 1 = i
    OBVIOUS
  <2>2. /\ f[i + 1] = IF i + 1 = 1 THEN seqs[i + 1] ELSE f[(i + 1) - 1] \o seqs[i + 1]
        /\ g[i + 1] = IF i + 1 = 1 THEN seqs2[i + 1] ELSE g[(i + 1) - 1] \o seqs2[i + 1]
    BY <2>1 DEF Flattens
  <2>3. seqs[i + 1] = seqs2[i + 1]
    OBVIOUS
  <2>4. i + 1 # 1 => f[i] = g[i]
    BY <1>2
  <2> QED BY <2>1, <2>2, <2>3, <2>4, Zenon
<1> HIDE DEF S
<1>3. Nat \subseteq S
  BY <1>1, <1>2, NatSetInduction
<1> QED BY <1>3 DEF S

(* FlattenSeq of nothing, and of one more sequence. *)
LEMMA FlattenEmpty == FlattenSeq(<<>>) = <<>>
  BY DEF FlattenSeq

(* FlattenSeq concatenates sequences over a set to one over that set. *)
LEMMA FlattenType ==
    ASSUME NEW A, NEW seqs \in Seq(Seq(A)) PROVE FlattenSeq(seqs) \in Seq(A)
<1> DEFINE n == Len(seqs)
<1>0. n \in Nat /\ \A i \in 1..n : seqs[i] \in Seq(A)
  OBVIOUS
<1>1. CASE n = 0
  <2>1. seqs = <<>> /\ <<>> \in Seq(A)
    BY <1>1
  <2>2. FlattenSeq(seqs) = <<>>
    BY <2>1, FlattenEmpty, Zenon
  <2> QED BY <2>1, <2>2
<1>2. CASE n # 0
  <2>1. PICK f : Flattens(f, seqs, n) /\ FlattenSeq(seqs) = f[n]
    BY <1>0, <1>2, FlattenValue
  <2>2. \A i \in 1..n : f[i] = IF i = 1 THEN seqs[i] ELSE f[i - 1] \o seqs[i]
    BY <2>1 DEF Flattens
  <2> DEFINE S == {i \in Nat : i \in 1..n => f[i] \in Seq(A)}
  <2> HIDE DEF n
  <2>3. 0 \in S
    OBVIOUS
  <2>4. ASSUME NEW i \in Nat, i \in S PROVE i + 1 \in S
    <3> SUFFICES ASSUME i + 1 \in 1..n PROVE f[i + 1] \in Seq(A)
      OBVIOUS
    <3>1. seqs[i + 1] \in Seq(A) /\ (i + 1) - 1 = i
      BY <1>0
    <3>2. CASE i = 0
      BY <2>2, <3>1, <3>2
    <3>3. CASE i # 0
      <4>1. f[i] \in Seq(A)
        BY <1>0, <2>4, <3>3
      <4>2. f[i + 1] = f[i] \o seqs[i + 1]
        <5>1. f[i + 1] = IF i + 1 = 1 THEN seqs[i + 1] ELSE f[(i + 1) - 1] \o seqs[i + 1]
          BY <2>2
        <5>2. i + 1 # 1
          BY <3>3
        <5> QED BY <3>1, <5>1, <5>2, Zenon
      <4> QED BY <3>1, <4>1, <4>2
    <3> QED BY <3>2, <3>3
  <2> HIDE DEF S
  <2>5. Nat \subseteq S
    BY <2>3, <2>4, NatSetInduction
  <2>6. n \in S /\ n \in 1..n
    BY <1>0, <1>2, <2>5
  <2>7. f[n] \in Seq(A)
    BY <2>6 DEF S
  <2> QED BY <2>1, <2>7
<1> QED BY <1>1, <1>2

(* One more sequence at the end is appended to the concatenation. *)
LEMMA FlattenAppend ==
    ASSUME NEW A, NEW seqs \in Seq(Seq(A)), NEW s \in Seq(A)
    PROVE  FlattenSeq(Append(seqs, s)) = FlattenSeq(seqs) \o s
<1> DEFINE n == Len(seqs)
           t == Append(seqs, s)
<1>0. /\ n \in Nat /\ Len(t) = n + 1 /\ t[n + 1] = s
      /\ \A i \in 1..n : seqs[i] = t[i]
  OBVIOUS
<1>1. PICK g : Flattens(g, t, n + 1) /\ FlattenSeq(t) = g[n + 1]
  <2> HIDE DEF n, t
  <2>1. n + 1 \in Nat \ {0}
    BY <1>0
  <2> QED BY <1>0, <2>1, FlattenValue
<1>2. g[n + 1] = IF n + 1 = 1 THEN t[n + 1] ELSE g[(n + 1) - 1] \o t[n + 1]
  <2> HIDE DEF n, t
  <2>1. \A i \in 1..(n + 1) : g[i] = IF i = 1 THEN t[i] ELSE g[i - 1] \o t[i]
    BY <1>1 DEF Flattens
  <2>2. n + 1 \in 1..(n + 1)
    BY <1>0
  <2> QED BY <2>1, <2>2, Zenon
<1>3. CASE n = 0
  <2>1. seqs = <<>>
    BY <1>3
  <2>2. g[n + 1] = s
    BY <1>0, <1>2, <1>3
  <2> QED BY <1>1, <2>1, <2>2, FlattenEmpty
<1>4. CASE n # 0
  <2> HIDE DEF n, t
  <2>1. PICK f : Flattens(f, seqs, n) /\ FlattenSeq(seqs) = f[n]
    <3>1. n \in Nat \ {0}
      BY <1>0, <1>4
    <3> QED BY <3>1, FlattenValue DEF n
  <2>2. \A i \in 1..n : f[i] = g[i]
    BY <1>0, <1>1, <2>1, FlattenUnique
  <2>3. f[n] = g[n] /\ n + 1 # 1 /\ (n + 1) - 1 = n
    BY <1>0, <1>4, <2>2
  <2>4. g[n + 1] = f[n] \o s
    BY <1>0, <1>2, <2>3, Zenon
  <2> QED BY <1>1, <2>1, <2>4 DEF t
<1> QED BY <1>3, <1>4

-----------------------------------------------------------------------------
(* The powers of ten up to the n-th. *)
Tens(f, n) == f = [d \in 0..n |-> IF d = 0 THEN 1 ELSE 10 * f[d - 1]]

(* There always is such a function. *)
LEMMA TensExist ==
    \A n \in Nat : \E f \in [0..n -> Nat \ {0}] : Tens(f, n)
<1> DEFINE S == {n \in Nat : \E f \in [0..n -> Nat \ {0}] : Tens(f, n)}
<1>1. 0 \in S
  <2> DEFINE f == [d \in 0..0 |-> 1]
  <2>1. f \in [0..0 -> Nat \ {0}] /\ Tens(f, 0)
    BY DEF Tens
  <2> HIDE DEF f
  <2> QED BY <2>1
<1>2. ASSUME NEW n \in Nat, n \in S PROVE n + 1 \in S
  <2>1. PICK f \in [0..n -> Nat \ {0}] : Tens(f, n)
    BY <1>2
  <2> DEFINE g == [d \in 0..(n + 1) |-> IF d = n + 1 THEN 10 * f[n] ELSE f[d]]
  <2>2. \A d \in 0..n : f[d] = IF d = 0 THEN 1 ELSE 10 * f[d - 1]
    BY <2>1 DEF Tens
  <2>3. g \in [0..(n + 1) -> Nat \ {0}]
    OBVIOUS
  <2>4. \A d \in 0..(n + 1) : g[d] = IF d = 0 THEN 1 ELSE 10 * g[d - 1]
    BY <2>2
  <2>5. Tens(g, n + 1)
    BY <2>4 DEF Tens
  <2> HIDE DEF g
  <2> QED BY <2>3, <2>5
<1> HIDE DEF S
<1>3. Nat \subseteq S
  BY <1>1, <1>2, NatSetInduction
<1> QED BY <1>3 DEF S

(* Tens determines its function. *)
LEMMA TensUnique ==
    ASSUME NEW n \in Nat, NEW f, NEW g, Tens(f, n), Tens(g, n + 1) PROVE f[n] = g[n]
<1> DEFINE S == {i \in Nat : i \in 0..n => f[i] = g[i]}
<1>0. /\ \A d \in 0..n : f[d] = IF d = 0 THEN 1 ELSE 10 * f[d - 1]
      /\ \A d \in 0..(n + 1) : g[d] = IF d = 0 THEN 1 ELSE 10 * g[d - 1]
  BY DEF Tens
<1>1. 0 \in S
  BY <1>0
<1>2. ASSUME NEW i \in Nat, i \in S PROVE i + 1 \in S
  <2> SUFFICES ASSUME i + 1 \in 0..n PROVE f[i + 1] = g[i + 1]
    OBVIOUS
  <2>1. i + 1 \in 0..(n + 1) /\ (i + 1) - 1 = i /\ i + 1 # 0 /\ i \in 0..n
    OBVIOUS
  <2>2. f[i + 1] = 10 * f[(i + 1) - 1] /\ g[i + 1] = 10 * g[(i + 1) - 1]
    BY <1>0, <2>1
  <2> QED BY <1>2, <2>1, <2>2
<1> HIDE DEF S
<1>3. Nat \subseteq S
  BY <1>1, <1>2, NatSetInduction
<1>4. n \in S /\ n \in 0..n
  BY <1>3
<1> QED BY <1>4 DEF S

(* TenTo is what its recursion says. *)
LEMMA TenToValues ==
    /\ TenTo[0] = 1
    /\ \A n \in Nat : TenTo[n] \in Nat \ {0} /\ TenTo[n + 1] = 10 * TenTo[n]
<1> DEFINE upto(n) == CHOOSE f : f \in [0..n -> Nat \ {0}] /\ Tens(f, n)
           F == [d \in Nat |-> upto(d)[d]]
<1>1. \A n \in Nat : upto(n) \in [0..n -> Nat \ {0}] /\ Tens(upto(n), n)
  BY TensExist
<1> HIDE DEF upto
<1>2. \A n \in Nat : F[n] \in Nat \ {0}
  BY <1>1
<1>3. \A n \in Nat : F[n] = IF n = 0 THEN 1 ELSE 10 * F[n - 1]
  <2> SUFFICES ASSUME NEW n \in Nat PROVE F[n] = IF n = 0 THEN 1 ELSE 10 * F[n - 1]
    OBVIOUS
  <2>1. upto(n)[n] = IF n = 0 THEN 1 ELSE 10 * upto(n)[n - 1]
    <3>1. \A d \in 0..n : upto(n)[d] = IF d = 0 THEN 1 ELSE 10 * upto(n)[d - 1]
      BY <1>1 DEF Tens
    <3> QED BY <3>1
  <2>2. ASSUME n # 0 PROVE upto(n)[n - 1] = upto(n - 1)[n - 1]
    <3>1. n - 1 \in Nat /\ (n - 1) + 1 = n
      BY <2>2
    <3>2. Tens(upto(n - 1), n - 1) /\ Tens(upto(n), (n - 1) + 1)
      BY <1>1, <3>1
    <3> QED BY <3>1, <3>2, TensUnique
  <2> QED BY <2>1, <2>2
<1>4. F = [d \in Nat |-> IF d = 0 THEN 1 ELSE 10 * F[d - 1]]
  BY <1>3
<1> HIDE DEF F
<1>5. \E f : f = [d \in Nat |-> IF d = 0 THEN 1 ELSE 10 * f[d - 1]]
  BY <1>4
<1>6. TenTo = [d \in Nat |-> IF d = 0 THEN 1 ELSE 10 * TenTo[d - 1]]
  BY <1>5, Zenon DEF TenTo
<1>7. \A n \in Nat : TenTo[n] = IF n = 0 THEN 1 ELSE 10 * TenTo[n - 1]
  BY <1>6
<1>8. TenTo[0] = 1 /\ \A n \in Nat : TenTo[n + 1] = 10 * TenTo[n]
  <2>1. \A n \in Nat : n + 1 \in Nat /\ n + 1 # 0 /\ (n + 1) - 1 = n
    OBVIOUS
  <2> QED BY <1>7, <2>1
<1> DEFINE S == {n \in Nat : TenTo[n] \in Nat \ {0}}
<1>9. 0 \in S /\ \A n \in Nat : n \in S => n + 1 \in S
  BY <1>8
<1> HIDE DEF S
<1>10. Nat \subseteq S
  BY <1>9, NatSetInduction
<1> QED BY <1>8, <1>10 DEF S

(* Powers of ten grow. *)
LEMMA TenToGrows ==
    /\ \A n \in Nat : n + 1 <= TenTo[n]
    /\ \A m, n \in Nat : m <= n => TenTo[m] <= TenTo[n]
<1>1. \A n \in Nat : n + 1 <= TenTo[n]
  <2> DEFINE S == {n \in Nat : n + 1 <= TenTo[n]}
  <2>1. 0 \in S /\ \A n \in Nat : n \in S => n + 1 \in S
    BY TenToValues
  <2> HIDE DEF S
  <2>2. Nat \subseteq S
    BY <2>1, NatSetInduction
  <2> QED BY <2>2 DEF S
<1>2. ASSUME NEW m \in Nat, NEW n \in Nat, m <= n PROVE TenTo[m] <= TenTo[n]
  <2> DEFINE S == {k \in Nat : TenTo[m] <= TenTo[m + k]}
  <2>1. 0 \in S
    BY TenToValues
  <2>2. ASSUME NEW k \in Nat, k \in S PROVE k + 1 \in S
    <3>1. TenTo[(m + k) + 1] = 10 * TenTo[m + k] /\ TenTo[m + k] \in Nat /\ TenTo[m] \in Nat
      BY TenToValues
    <3>2. (m + k) + 1 = m + (k + 1)
      OBVIOUS
    <3> QED BY <2>2, <3>1, <3>2
  <2> HIDE DEF S
  <2>3. Nat \subseteq S
    BY <2>1, <2>2, NatSetInduction
  <2>4. n - m \in S /\ m + (n - m) = n
    BY <1>2, <2>3
  <2> QED BY <2>4 DEF S
<1> QED BY <1>1, <1>2

(* d is the number of decimal digits of n. *)
HasDigits(n, d) == (d = 1 \/ TenTo[d - 1] <= n) /\ n < TenTo[d]

(* Every number has a number of digits, and only one. *)
LEMMA DigitsExist == \A n \in Nat : \E d \in 1..(n + 1) : HasDigits(n, d)
<1> SUFFICES ASSUME NEW n \in Nat PROVE \E d \in 1..(n + 1) : HasDigits(n, d)
  OBVIOUS
<1> DEFINE S == {k \in Nat : n < TenTo[k + 1] => \E d \in 1..(k + 1) : HasDigits(n, d)}
<1>1. 0 \in S
  BY DEF HasDigits
<1>2. ASSUME NEW k \in Nat, k \in S PROVE k + 1 \in S
  <2>1. TenTo[k + 1] \in Nat /\ (k + 1) + 1 \in 1..((k + 1) + 1) /\ ((k + 1) + 1) - 1 = k + 1
    BY TenToValues
  <2>2. CASE n < TenTo[k + 1]
    <3>1. PICK d \in 1..(k + 1) : HasDigits(n, d)
      BY <1>2, <2>2
    <3>2. d \in 1..((k + 1) + 1)
      OBVIOUS
    <3> QED BY <3>1, <3>2
  <2>3. CASE ~(n < TenTo[k + 1])
    <3>1. n < TenTo[(k + 1) + 1] => HasDigits(n, (k + 1) + 1)
      BY <2>1, <2>3 DEF HasDigits
    <3> QED BY <2>1, <3>1
  <2> QED BY <2>2, <2>3
<1> HIDE DEF S
<1>3. Nat \subseteq S
  BY <1>1, <1>2, NatSetInduction
<1>4. n \in S /\ n < TenTo[n + 1]
  <2>1. n + 1 \in Nat /\ (n + 1) + 1 <= TenTo[n + 1] /\ TenTo[n + 1] \in Nat
    BY TenToGrows, TenToValues
  <2> QED BY <1>3, <2>1
<1> QED BY <1>4 DEF S

(* No number has two numbers of digits. *)
LEMMA DigitsUnique ==
    ASSUME NEW n \in Nat, NEW d \in Nat \ {0}, NEW e \in Nat \ {0},
           HasDigits(n, d), HasDigits(n, e)
    PROVE  d = e
<1>1. ASSUME NEW a \in Nat \ {0}, NEW b \in Nat \ {0}, HasDigits(n, a), HasDigits(n, b), a < b
      PROVE  FALSE
  <2>1. b - 1 \in Nat /\ a <= b - 1 /\ b # 1
    BY <1>1
  <2>2. TenTo[a] <= TenTo[b - 1] /\ TenTo[a] \in Nat /\ TenTo[b - 1] \in Nat
    BY <2>1, TenToGrows, TenToValues
  <2> QED BY <1>1, <2>1, <2>2 DEF HasDigits
<1>2. d < e \/ e < d \/ d = e
  OBVIOUS
<1> QED BY <1>1, <1>2

(* What Digits chooses. *)
LEMMA DigitsValue ==
    ASSUME NEW n \in Nat
    PROVE  Digits(n) \in Nat \ {0} /\ Digits(n) <= n + 1 /\ HasDigits(n, Digits(n))
<1>1. \E d \in 1..(n + 1) : (d = 1 \/ TenTo[d - 1] <= n) /\ n < TenTo[d]
  BY DigitsExist DEF HasDigits
<1>2. /\ Digits(n) \in 1..(n + 1)
      /\ (Digits(n) = 1 \/ TenTo[Digits(n) - 1] <= n) /\ n < TenTo[Digits(n)]
  BY <1>1, Zenon DEF Digits
<1> QED BY <1>2 DEF HasDigits

(* Dividing by ten removes a digit. *)
LEMMA DigitsStep ==
    ASSUME NEW n \in Nat
    PROVE  Digits(n) = IF n >= 10 THEN 1 + Digits(n \div 10) ELSE 1
<1>1. CASE n >= 10
  <2> DEFINE q == n \div 10
  <2>1. q \in Nat /\ 10 * q <= n /\ n < 10 * (q + 1)
    OBVIOUS
  <2> HIDE DEF q
  <2>2. PICK d \in Nat \ {0} : d = Digits(q) /\ HasDigits(q, d)
    BY <2>1, DigitsValue
  <2>3. /\ TenTo[d] \in Nat /\ TenTo[d + 1] = 10 * TenTo[d] /\ TenTo[d - 1] \in Nat
        /\ TenTo[d] = 10 * TenTo[d - 1] /\ TenTo[0] = 1
    <3>1. d - 1 \in Nat /\ (d - 1) + 1 = d
      OBVIOUS
    <3> QED BY <3>1, TenToValues
  <2>4. n < TenTo[d + 1]
    BY <2>1, <2>2, <2>3 DEF HasDigits
  <2>5. TenTo[d] <= n
    <3>1. CASE d = 1
      BY <1>1, <2>3, <3>1
    <3>2. CASE d # 1
      BY <2>1, <2>2, <2>3, <3>2 DEF HasDigits
    <3> QED BY <3>1, <3>2
  <2>6. HasDigits(n, d + 1)
    BY <2>4, <2>5 DEF HasDigits
  <2>7. Digits(n) = d + 1
    <3>1. Digits(n) \in Nat \ {0} /\ HasDigits(n, Digits(n)) /\ d + 1 \in Nat \ {0}
      BY DigitsValue
    <3> QED BY <2>6, <3>1, DigitsUnique
  <2> QED BY <1>1, <2>2, <2>7 DEF q
<1>2. CASE n < 10
  <2>1. TenTo[1] = 10
    BY TenToValues
  <2>2. HasDigits(n, 1)
    BY <1>2, <2>1 DEF HasDigits
  <2>3. Digits(n) \in Nat \ {0} /\ HasDigits(n, Digits(n)) /\ 1 \in Nat \ {0}
    BY DigitsValue
  <2>4. Digits(n) = 1
    BY <2>2, <2>3, DigitsUnique
  <2> QED BY <1>2, <2>4
<1> QED BY <1>1, <1>2

-----------------------------------------------------------------------------
Tags == {"kv", "po", "ro", "end"}
Tagged(s) == {i \in DOMAIN s : s[i].t \in Tags}

(* Bytes of a sequence, in terms of the positions of its tags. *)
LEMMA BytesDef ==
    ASSUME NEW A, NEW s \in Seq(A)
    PROVE  /\ Bytes(s) = Len(s) + 2 * Cardinality(Tagged(s))
           /\ IsFiniteSet(Tagged(s)) /\ Cardinality(Tagged(s)) \in Nat /\ Bytes(s) \in Nat
<1>1. IsFiniteSet(1..Len(s))
  BY FS_Interval
<1>2. Tagged(s) \subseteq 1..Len(s)
  BY DEF Tagged
<1>3. IsFiniteSet(Tagged(s))
  BY <1>1, <1>2, FS_Subset
<1>4. Cardinality(Tagged(s)) \in Nat
  BY <1>3, FS_CardinalityType
<1>5. Bytes(s) = Len(s) + 2 * Cardinality(Tagged(s))
  BY DEF Bytes, Tagged, Tags
<1>6. Len(s) \in Nat
  OBVIOUS
<1> QED BY <1>3, <1>4, <1>5, <1>6

(* Bytes add up. *)
LEMMA BytesConcat ==
    ASSUME NEW A, NEW s \in Seq(A), NEW u \in Seq(A)
    PROVE  Bytes(s \o u) = Bytes(s) + Bytes(u)
<1> DEFINE shift == [i \in Tagged(u) |-> Len(s) + i]
           T == {Len(s) + i : i \in Tagged(u)}
<1>0. /\ s \o u \in Seq(A) /\ Len(s \o u) = Len(s) + Len(u) /\ Len(s) \in Nat /\ Len(u) \in Nat
      /\ \A i \in 1..Len(s) : (s \o u)[i] = s[i]
      /\ \A i \in 1..Len(u) : (s \o u)[Len(s) + i] = u[i]
      /\ DOMAIN s = 1..Len(s) /\ DOMAIN u = 1..Len(u) /\ DOMAIN (s \o u) = 1..(Len(s) + Len(u))
  OBVIOUS
<1>1. /\ IsFiniteSet(Tagged(s)) /\ IsFiniteSet(Tagged(u))
      /\ Cardinality(Tagged(s)) \in Nat /\ Cardinality(Tagged(u)) \in Nat
  BY BytesDef
<1>2. Tagged(s \o u) = Tagged(s) \cup T
  <2>1. \A i \in 1..(Len(s) + Len(u)) :
           i \in 1..Len(s) \/ (i - Len(s) \in 1..Len(u) /\ i = Len(s) + (i - Len(s)))
    BY <1>0
  <2>2. \A i \in 1..Len(u) : Len(s) + i \in 1..(Len(s) + Len(u))
    BY <1>0
  <2>3. \A i \in 1..Len(s) : i \in 1..(Len(s) + Len(u))
    BY <1>0
  <2>4. ASSUME NEW i \in Tagged(s \o u) PROVE i \in Tagged(s) \cup T
    <3>1. i \in 1..(Len(s) + Len(u)) /\ (s \o u)[i].t \in Tags
      BY <1>0 DEF Tagged
    <3>2. CASE i \in 1..Len(s)
      BY <1>0, <3>1, <3>2 DEF Tagged
    <3>3. CASE i - Len(s) \in 1..Len(u) /\ i = Len(s) + (i - Len(s))
      <4>1. PICK j \in 1..Len(u) : i = Len(s) + j
        BY <3>3
      <4>2. j \in Tagged(u)
        BY <1>0, <3>1, <4>1 DEF Tagged
      <4> QED BY <4>1, <4>2
    <3> QED BY <2>1, <3>1, <3>2, <3>3
  <2>5. Tagged(s) \subseteq Tagged(s \o u)
    BY <1>0, <2>3 DEF Tagged
  <2>6. T \subseteq Tagged(s \o u)
    BY <1>0, <2>2 DEF Tagged
  <2> QED BY <2>4, <2>5, <2>6
<1>3. shift \in Bijection(Tagged(u), T)
  <2>1. Tagged(u) \subseteq Nat
    BY <1>0 DEF Tagged
  <2>2. shift \in [Tagged(u) -> T]
    OBVIOUS
  <2>3. \A i, j \in Tagged(u) : shift[i] = shift[j] => i = j
    BY <1>0, <2>1
  <2>4. \A k \in T : \E i \in Tagged(u) : shift[i] = k
    OBVIOUS
  <2> HIDE DEF shift, T
  <2> QED BY <2>2, <2>3, <2>4 DEF Bijection, Injection, Surjection, IsInjective
<1>4. IsFiniteSet(T) /\ Cardinality(T) = Cardinality(Tagged(u))
  <2> HIDE DEF shift, T
  <2>1. ExistsBijection(Tagged(u), T)
    BY <1>3 DEF ExistsBijection
  <2> QED BY <1>1, <2>1, FS_Bijection
<1>5. Tagged(s) \cap T = {}
  BY <1>0 DEF Tagged
<1>6. Cardinality(Tagged(s) \cup T) = Cardinality(Tagged(s)) + Cardinality(Tagged(u))
  <2> HIDE DEF T
  <2>1. /\ Cardinality(Tagged(s) \cup T)
             = Cardinality(Tagged(s)) + Cardinality(T) - Cardinality(Tagged(s) \cap T)
        /\ Cardinality(Tagged(s) \cap T) = 0
    BY <1>1, <1>4, <1>5, FS_Union, FS_EmptySet
  <2> QED BY <1>1, <1>4, <2>1
<1>7. /\ Bytes(s) = Len(s) + 2 * Cardinality(Tagged(s))
      /\ Bytes(u) = Len(u) + 2 * Cardinality(Tagged(u))
      /\ Bytes(s \o u) = Len(s \o u) + 2 * Cardinality(Tagged(s \o u))
  BY <1>0, BytesDef
<1> HIDE DEF T, shift
<1>8. /\ Cardinality(Tagged(s \o u)) = Cardinality(Tagged(s)) + Cardinality(Tagged(u))
      /\ Len(s \o u) = Len(s) + Len(u)
  BY <1>0, <1>2, <1>6
<1> QED BY <1>0, <1>1, <1>7, <1>8

(* A symbol that is not a tag is a byte, a tag is three. *)
LEMMA BytesSymbols ==
    ASSUME NEW A, NEW s \in Seq(A)
    PROVE  /\ (\A i \in 1..Len(s) : s[i].t \notin Tags) => Bytes(s) = Len(s)
           /\ \A x \in A : x.t \in Tags => Bytes(<<x>>) = 3
<1>1. ASSUME \A i \in 1..Len(s) : s[i].t \notin Tags PROVE Bytes(s) = Len(s)
  <2>1. Tagged(s) = {}
    BY <1>1 DEF Tagged
  <2>2. Cardinality(Tagged(s)) = 0
    BY <2>1, FS_EmptySet
  <2> QED BY <2>2, BytesDef
<1>2. ASSUME NEW x \in A, x.t \in Tags PROVE Bytes(<<x>>) = 3
  <2>1. <<x>> \in Seq(A) /\ Len(<<x>>) = 1
    OBVIOUS
  <2>2. Tagged(<<x>>) = {1}
    BY <1>2 DEF Tagged
  <2>3. Cardinality({1}) = 1
    BY FS_Singleton
  <2>4. Bytes(<<x>>) = Len(<<x>>) + 2 * Cardinality(Tagged(<<x>>))
    BY <2>1, BytesDef
  <2>5. Bytes(<<x>>) = 1 + 2 * 1
    BY <2>1, <2>2, <2>3, <2>4, Zenon
  <2> QED BY <2>5
<1> QED BY <1>1, <1>2

(* The symbols of a set of objects *)
SymbolTypes == Tags \cup {"hdr", "ch", "sp", "nl", "by"}
Symbols(objects) == [t : SymbolTypes, o : objects]

(* An object that can be encoded *)
Encodable(o) == /\ o.kind \in {"kv", "po", "ro"} /\ o.idlen \in Nat /\ o.len \in Nat

(* The encoding of an object, symbol by symbol and in bytes *)
LEMMA ObjectEncoding ==
    ASSUME NEW OO, Nothing \in OO, NEW o \in OO, Encodable(o)
    PROVE  /\ LocalHeader(o) \in Seq(Symbols(OO)) /\ Value(o) \in Seq(Symbols(OO))
           /\ EncodeObject(o) \in Seq(Symbols(OO))
           /\ Bytes(EncodeObject(o)) = 3 + o.idlen + 1 + Digits(o.len) + 1 + o.len + 1
<1> DEFINE A == Symbols(OO)
<1>1. \A t \in SymbolTypes : Sym(t) \in A /\ Sym(t).t = t
  BY DEF Sym, Symbols
<1>2. ASSUME NEW n \in Nat, NEW t \in {"ch", "by"}
      PROVE  Run(n, t, o) \in Seq(A) /\ Bytes(Run(n, t, o)) = n
  <2>1. Run(n, t, o) \in Seq(A) /\ Len(Run(n, t, o)) = n
    <3>1. Run(n, t, o) \in [1..n -> A]
      BY DEF Run, Symbols, SymbolTypes
    <3> HIDE DEF A
    <3> QED BY <3>1
  <2>2. \A i \in 1..n : Run(n, t, o)[i].t = t
    BY DEF Run
  <2>3. t \notin Tags
    BY DEF Tags
  <2> QED BY <2>1, <2>2, <2>3, BytesSymbols
<1>3. Digits(o.len) \in Nat /\ o.kind \in SymbolTypes /\ o.idlen \in Nat /\ o.len \in Nat
  <2>1. o.idlen \in Nat /\ o.len \in Nat
    BY DEF Encodable
  <2>2. o.kind \in SymbolTypes
    BY DEF Encodable, SymbolTypes, Tags
  <2> QED BY <2>1, <2>2, DigitsValue
<1>4. /\ <<Sym(o.kind)>> \in Seq(A) /\ <<Sym("sp")>> \in Seq(A) /\ <<Sym("nl")>> \in Seq(A)
  <2>1. Sym(o.kind) \in A /\ Sym("sp") \in A /\ Sym("nl") \in A
    BY <1>1, <1>3 DEF SymbolTypes
  <2> HIDE DEF A
  <2> QED BY <2>1
<1>5. Bytes(<<Sym(o.kind)>>) = 3 /\ Bytes(<<Sym("sp")>>) = 1 /\ Bytes(<<Sym("nl")>>) = 1
  <2>1. Sym(o.kind).t \in Tags /\ Sym("sp").t \notin Tags /\ Sym("nl").t \notin Tags
    BY DEF Sym, Tags, Encodable
  <2>2. Bytes(<<Sym(o.kind)>>) = 3
    BY <1>1, <1>3, <1>4, <2>1, BytesSymbols
  <2>3. \A x \in A : x.t \notin Tags => Bytes(<<x>>) = 1
    <3> SUFFICES ASSUME NEW x \in A, x.t \notin Tags PROVE Bytes(<<x>>) = 1
      OBVIOUS
    <3>1. <<x>> \in Seq(A) /\ Len(<<x>>) = 1 /\ \A i \in 1..1 : <<x>>[i] = x
      OBVIOUS
    <3> HIDE DEF A
    <3>2. \A i \in 1..Len(<<x>>) : <<x>>[i].t \notin Tags
      BY <3>1
    <3> QED BY <3>1, <3>2, BytesSymbols
  <2>4. Sym("sp") \in A /\ Sym("nl") \in A
    BY <1>1 DEF SymbolTypes
  <2> HIDE DEF A
  <2> QED BY <2>1, <2>2, <2>3, <2>4
<1> HIDE DEF A
<1>6. PICK a \in Seq(A), b \in Seq(A), u \in Seq(A), d \in Seq(A), e \in Seq(A), v \in Seq(A) :
         /\ a = <<Sym(o.kind)>> /\ b = Run(o.idlen, "ch", o) /\ u = <<Sym("sp")>>
         /\ d = Run(Digits(o.len), "ch", o) /\ e = <<Sym("nl")>> /\ v = Run(o.len, "by", o)
  BY <1>2, <1>3, <1>4
<1>7. /\ Bytes(a) = 3 /\ Bytes(b) = o.idlen /\ Bytes(u) = 1
      /\ Bytes(d) = Digits(o.len) /\ Bytes(e) = 1 /\ Bytes(v) = o.len
  BY <1>2, <1>3, <1>5, <1>6
<1>8. LocalHeader(o) = a \o b \o u \o d \o e /\ Value(o) = v /\ EncodeObject(o) = LocalHeader(o) \o v \o e
  BY <1>6, Zenon DEF LocalHeader, Value, EncodeObject
<1>9. /\ a \o b \in Seq(A) /\ a \o b \o u \in Seq(A) /\ a \o b \o u \o d \in Seq(A)
      /\ a \o b \o u \o d \o e \in Seq(A) /\ a \o b \o u \o d \o e \o v \in Seq(A)
      /\ a \o b \o u \o d \o e \o v \o e \in Seq(A)
  OBVIOUS
<1>10. /\ Bytes(a \o b) = Bytes(a) + Bytes(b)
       /\ Bytes(a \o b \o u) = Bytes(a \o b) + Bytes(u)
       /\ Bytes(a \o b \o u \o d) = Bytes(a \o b \o u) + Bytes(d)
       /\ Bytes(a \o b \o u \o d \o e) = Bytes(a \o b \o u \o d) + Bytes(e)
       /\ Bytes(a \o b \o u \o d \o e \o v) = Bytes(a \o b \o u \o d \o e) + Bytes(v)
       /\ Bytes(a \o b \o u \o d \o e \o v \o e) = Bytes(a \o b \o u \o d \o e \o v) + Bytes(e)
  BY <1>9, BytesConcat
<1>11. Bytes(EncodeObject(o)) = 3 + o.idlen + 1 + Digits(o.len) + 1 + o.len + 1
  BY <1>3, <1>7, <1>8, <1>10
<1> QED BY <1>8, <1>9, <1>11 DEF A

-----------------------------------------------------------------------------
(* A sequence is a prefix of what it is continued to. *)
LEMMA PrefixOfConcat ==
    ASSUME NEW A, NEW s \in Seq(A), NEW u \in Seq(A)
    PROVE  IsPrefix(s, s \o u)
<1>1. s \o u \in Seq(A) /\ Len(s \o u) = Len(s) + Len(u) /\ Len(s) \in Nat /\ Len(u) \in Nat
  OBVIOUS
<1>2. \A i \in 1..Len(s) : (s \o u)[i] = s[i]
  OBVIOUS
<1>3. SubSeq(s, 1, Len(s)) = SubSeq(s \o u, 1, Len(s))
  BY <1>1, <1>2
<1> QED BY <1>1, <1>3 DEF IsPrefix

(* A prefix of a sequence is a prefix of its continuations. *)
LEMMA PrefixOfMore ==
    ASSUME NEW A, NEW s \in Seq(A), NEW w \in Seq(A), NEW u \in Seq(A), IsPrefix(s, w)
    PROVE  IsPrefix(s, w \o u)
<1>1. /\ Len(w \o u) = Len(w) + Len(u) /\ Len(s) <= Len(w)
      /\ Len(s) \in Nat /\ Len(w) \in Nat /\ Len(u) \in Nat
  BY DEF IsPrefix
<1>2. SubSeq(w, 1, Len(s)) = SubSeq(w \o u, 1, Len(s))
  BY <1>1
<1> QED BY <1>1, <1>2 DEF IsPrefix

(* The first n members of g, concatenated *)
Take(g, n) == [i \in 1..n |-> g[i]]

(* The concatenation of the first n + 1 continues that of the first n. *)
LEMMA FlattenTake ==
    ASSUME NEW A, NEW m \in Nat, NEW g \in [1..m -> Seq(A)]
    PROVE  /\ FlattenSeq(Take(g, 0)) = <<>>
           /\ \A n \in 0..m : FlattenSeq(Take(g, n)) \in Seq(A)
           /\ \A n \in 0..m : n < m =>
                 FlattenSeq(Take(g, n + 1)) = FlattenSeq(Take(g, n)) \o g[n + 1]
<1>0. \A n \in 0..m : Take(g, n) \in Seq(Seq(A)) /\ Len(Take(g, n)) = n
  BY DEF Take
<1>1. Take(g, 0) = <<>>
  BY DEF Take
<1>2. FlattenSeq(Take(g, 0)) = <<>>
  BY <1>1, FlattenEmpty, Zenon
<1>3. \A n \in 0..m : FlattenSeq(Take(g, n)) \in Seq(A)
  BY <1>0, FlattenType
<1>4. ASSUME NEW n \in 0..m, n < m
      PROVE FlattenSeq(Take(g, n + 1)) = FlattenSeq(Take(g, n)) \o g[n + 1]
  <2>1. g[n + 1] \in Seq(A) /\ Take(g, n) \in Seq(Seq(A))
    BY <1>0, <1>4
  <2>2. Take(g, n + 1) = Append(Take(g, n), g[n + 1])
    BY <1>4 DEF Take
  <2>3. FlattenSeq(Append(Take(g, n), g[n + 1])) = FlattenSeq(Take(g, n)) \o g[n + 1]
    BY <2>1, FlattenAppend
  <2> QED BY <2>2, <2>3, Zenon
<1> QED BY <1>2, <1>3, <1>4

(* w is s, followed by symbols of A. *)
Continues(s, w, A) == \E x \in Seq(A) : w = s \o x

(* Shorter concatenations are prefixes of longer ones. *)
LEMMA FlattenTakeMore ==
    ASSUME NEW A, NEW m \in Nat, NEW g \in [1..m -> Seq(A)]
    PROVE  \A p, q \in 0..m :
             p <= q => Continues(FlattenSeq(Take(g, p)), FlattenSeq(Take(g, q)), A)
<1> SUFFICES ASSUME NEW p \in 0..m, NEW q \in 0..m, p <= q
             PROVE  \E x \in Seq(A) : FlattenSeq(Take(g, q)) = FlattenSeq(Take(g, p)) \o x
  BY Zenon DEF Continues
<1> DEFINE F(n) == FlattenSeq(Take(g, n))
           S == {k \in Nat : p + k <= m => \E x \in Seq(A) : F(p + k) = F(p) \o x}
<1>0. /\ \A n \in 0..m : F(n) \in Seq(A)
      /\ \A n \in 0..m : n < m => F(n + 1) = F(n) \o g[n + 1]
  BY FlattenTake
<1> HIDE DEF F
<1>1. 0 \in S
  <2>1. <<>> \in Seq(A) /\ F(p) \in Seq(A) /\ p + 0 = p
    BY <1>0
  <2>2. F(p) = F(p) \o <<>>
    BY <2>1
  <2> QED BY <2>1, <2>2
<1>2. ASSUME NEW k \in Nat, k \in S PROVE k + 1 \in S
  <2> SUFFICES ASSUME p + (k + 1) <= m PROVE \E x \in Seq(A) : F(p + (k + 1)) = F(p) \o x
    <3>1. k + 1 \in Nat
      OBVIOUS
    <3> QED BY <3>1, Zenon
  <2>1. p + k \in 0..m /\ p + k < m /\ p + (k + 1) = (p + k) + 1
    OBVIOUS
  <2>2. PICK x \in Seq(A) : F(p + k) = F(p) \o x
    BY <1>2, <2>1
  <2>3. g[(p + k) + 1] \in Seq(A)
    BY <2>1
  <2>4. F((p + k) + 1) = (F(p) \o x) \o g[(p + k) + 1]
    BY <1>0, <2>1, <2>2, Zenon
  <2>5. x \o g[(p + k) + 1] \in Seq(A) /\ F(p) \in Seq(A)
    BY <1>0, <2>3
  <2>6. (F(p) \o x) \o g[(p + k) + 1] = F(p) \o (x \o g[(p + k) + 1])
    <3>1. \A y, z \in Seq(A) : (z \o x) \o y = z \o (x \o y)
      BY ConcatAssociative
    <3> QED BY <2>3, <2>5, <3>1, Zenon
  <2> QED BY <2>1, <2>4, <2>5, <2>6
<1> HIDE DEF S
<1>3. Nat \subseteq S
  BY <1>1, <1>2, NatSetInduction
<1>4. q - p \in S /\ p + (q - p) = q
  BY <1>3
<1>5. \E x \in Seq(A) : F(q) = F(p) \o x
  BY <1>4 DEF S
<1> QED BY <1>5 DEF F

-----------------------------------------------------------------------------
(* The encoding of the first n objects *)
Encodings(objs) == [i \in 1..Len(objs) |-> EncodeObject(objs[i])]
Encoded(objs, n) == FlattenSeq(Take(Encodings(objs), n))
EndSyms == <<Sym("end"), Sym("nl")>>

(* A body is encoded object by object, and ends with four bytes. *)
LEMMA BodyEncoding ==
    ASSUME NEW OO, Nothing \in OO, NEW objs \in Seq(OO),
           \A i \in 1..Len(objs) : Encodable(objs[i])
    PROVE  LET A == Symbols(OO) IN
           /\ Encoded(objs, 0) = <<>> /\ EndSyms \in Seq(A)
           /\ \A n \in 0..Len(objs) : Encoded(objs, n) \in Seq(A) /\ Bytes(Encoded(objs, n)) \in Nat
           /\ \A n \in 0..Len(objs) : n < Len(objs) =>
                 /\ Encoded(objs, n + 1) = Encoded(objs, n) \o EncodeObject(objs[n + 1])
                 /\ Bytes(Encoded(objs, n + 1)) = Bytes(Encoded(objs, n)) + Bytes(EncodeObject(objs[n + 1]))
           /\ EncodeBody(objs) = Encoded(objs, Len(objs)) \o EndSyms
           /\ EncodeBody(objs) \in Seq(A)
           /\ Bytes(EncodeBody(objs)) = Bytes(Encoded(objs, Len(objs))) + 4
           /\ Bytes(Encoded(objs, 0)) = 0
<1> DEFINE A == Symbols(OO)
           m == Len(objs)
           g == Encodings(objs)
<1>0. m \in Nat /\ \A i \in 1..m : objs[i] \in OO
  OBVIOUS
<1>1. \A i \in 1..m : EncodeObject(objs[i]) \in Seq(A)
  BY <1>0, ObjectEncoding
<1>2. g \in [1..m -> Seq(A)] /\ \A i \in 1..m : g[i] = EncodeObject(objs[i])
  BY <1>1 DEF Encodings
<1>3. /\ Sym("end") \in A /\ Sym("nl") \in A
      /\ Sym("end").t \in Tags /\ Sym("nl").t \notin Tags
  BY DEF Sym, Symbols, SymbolTypes, Tags
<1> HIDE DEF A, m, g
<1>4. /\ FlattenSeq(Take(g, 0)) = <<>>
      /\ \A n \in 0..m : FlattenSeq(Take(g, n)) \in Seq(A)
      /\ \A n \in 0..m : n < m =>
                 FlattenSeq(Take(g, n + 1)) = FlattenSeq(Take(g, n)) \o g[n + 1]
  BY <1>0, <1>2, FlattenTake
<1>5. \A n : Encoded(objs, n) = FlattenSeq(Take(g, n))
  BY Zenon DEF Encoded, g
<1>6. Encoded(objs, 0) = <<>>
  BY <1>4, <1>5, Zenon
<1>7. \A n \in 0..m : Encoded(objs, n) \in Seq(A)
  BY <1>4, <1>5
<1>8. ASSUME NEW n \in 0..m, n < m
      PROVE  Encoded(objs, n + 1) = Encoded(objs, n) \o EncodeObject(objs[n + 1])
  <2>1. g[n + 1] = EncodeObject(objs[n + 1])
    BY <1>0, <1>2, <1>8
  <2> QED BY <1>4, <1>5, <1>8, <2>1, Zenon
<1>9. EndSyms \in Seq(A) /\ Bytes(EndSyms) = 4
  <2>1. <<Sym("end")>> \in Seq(A) /\ <<Sym("nl")>> \in Seq(A)
    BY <1>3
  <2>2. EndSyms = <<Sym("end")>> \o <<Sym("nl")>> /\ EndSyms \in Seq(A)
    BY <1>3 DEF EndSyms
  <2>3. Bytes(<<Sym("end")>>) = 3
    BY <1>3, <2>1, BytesSymbols
  <2>4. \A i \in 1..1 : <<Sym("nl")>>[i].t \notin Tags
    BY <1>3
  <2>5. Len(<<Sym("nl")>>) = 1
    OBVIOUS
  <2>6. Bytes(<<Sym("nl")>>) = 1
    BY <2>1, <2>4, <2>5, BytesSymbols
  <2>7. Bytes(EndSyms) = Bytes(<<Sym("end")>>) + Bytes(<<Sym("nl")>>)
    BY <2>1, <2>2, BytesConcat
  <2> QED BY <2>2, <2>3, <2>6, <2>7
<1>10. EncodeBody(objs) = Encoded(objs, m) \o EndSyms
  <2>1. Take(g, m) = [i \in DOMAIN objs |-> EncodeObject(objs[i])]
    BY <1>0, <1>2 DEF Take, m
  <2>2. Encoded(objs, m) = FlattenSeq([i \in DOMAIN objs |-> EncodeObject(objs[i])])
    BY <1>5, <2>1, Zenon
  <2> QED BY <2>2, Zenon DEF EncodeBody, EndSyms
<1>11. m \in 0..m /\ 0 \in 0..m
  BY <1>0
<1>12. EncodeBody(objs) \in Seq(A)
  BY <1>7, <1>9, <1>10, <1>11
<1>13. Bytes(EncodeBody(objs)) = Bytes(Encoded(objs, m)) + 4
  <2>1. Bytes(Encoded(objs, m) \o EndSyms) = Bytes(Encoded(objs, m)) + Bytes(EndSyms)
    BY <1>7, <1>9, <1>11, BytesConcat
  <2> QED BY <1>9, <1>10, <2>1, Zenon
<1>14. \A n \in 0..m : Bytes(Encoded(objs, n)) \in Nat
  BY <1>7, BytesDef
<1>15. ASSUME NEW n \in 0..m, n < m
       PROVE  Bytes(Encoded(objs, n + 1)) = Bytes(Encoded(objs, n)) + Bytes(EncodeObject(objs[n + 1]))
  <2>1. Encoded(objs, n) \in Seq(A) /\ EncodeObject(objs[n + 1]) \in Seq(A)
    BY <1>0, <1>1, <1>7, <1>15 DEF m
  <2>2. Bytes(Encoded(objs, n) \o EncodeObject(objs[n + 1]))
          = Bytes(Encoded(objs, n)) + Bytes(EncodeObject(objs[n + 1]))
    BY <2>1, BytesConcat
  <2> QED BY <1>8, <1>15, <2>2, Zenon
<1>16. Bytes(Encoded(objs, 0)) = 0
  <2>1. <<>> \in Seq(A) /\ Len(<<>>) = 0 /\ \A i \in 1..0 : <<>>[i].t \notin Tags
    OBVIOUS
  <2>2. Bytes(<<>>) = 0
    BY <2>1, BytesSymbols
  <2> QED BY <1>6, <2>2, Zenon
<1> QED BY <1>6, <1>7, <1>8, <1>9, <1>10, <1>12, <1>13, <1>14, <1>15, <1>16 DEF A, m

(* Fewer encoded objects are the beginning of more. *)
LEMMA EncodedMore ==
    ASSUME NEW OO, Nothing \in OO, NEW objs \in Seq(OO),
           \A i \in 1..Len(objs) : Encodable(objs[i]),
           NEW p \in 0..Len(objs), NEW q \in 0..Len(objs), p <= q
    PROVE  Continues(Encoded(objs, p), Encoded(objs, q), Symbols(OO))
<1> DEFINE A == Symbols(OO)
           m == Len(objs)
           g == Encodings(objs)
<1>0. m \in Nat /\ \A i \in 1..m : objs[i] \in OO
  OBVIOUS
<1>1. g \in [1..m -> Seq(A)]
  BY <1>0, ObjectEncoding DEF Encodings
<1> HIDE DEF A, m, g
<1>2. p \in 0..m /\ q \in 0..m
  BY DEF m
<1>3. Continues(FlattenSeq(Take(g, p)), FlattenSeq(Take(g, q)), A)
  BY <1>0, <1>1, <1>2, FlattenTakeMore
<1> QED BY <1>3, Zenon DEF Encoded, A, g

-----------------------------------------------------------------------------
(* Concatenation, bracketed in the ways the frames need *)
Assoc3(x, y, z) == (x \o y) \o z = x \o (y \o z)
Assoc5(x, y, z, w, v) == x \o (y \o ((z \o w) \o v)) = (((x \o y) \o z) \o w) \o v

(* Brackets do not matter in a concatenation of three... *)
LEMMA Bracket3 ==
    ASSUME NEW A, NEW x \in Seq(A), NEW y \in Seq(A), NEW z \in Seq(A)
    PROVE  x \o y \in Seq(A) /\ Assoc3(x, y, z)
  BY ConcatAssociative DEF Assoc3

(* ...or of five sequences. *)
LEMMA Bracket5 ==
    ASSUME NEW A, NEW x \in Seq(A), NEW y \in Seq(A), NEW z \in Seq(A), NEW w \in Seq(A),
           NEW v \in Seq(A)
    PROVE  Assoc5(x, y, z, w, v)
<1>1. x \o y \in Seq(A) /\ z \o w \in Seq(A)
  BY Bracket3
<1>2. (z \o w) \o v \in Seq(A)
  BY <1>1, Bracket3
<1>3. Assoc3(x, y, (z \o w) \o v) /\ Assoc3(x \o y, z \o w, v) /\ Assoc3(x \o y, z, w)
  BY <1>1, <1>2, Bracket3, Zenon
<1> QED BY <1>3, Zenon DEF Assoc3, Assoc5

(* Extending a sequence of symbols *)
LEMMA ContinuesFacts ==
    ASSUME NEW A, NEW s \in Seq(A), NEW u \in Seq(A), NEW v \in Seq(A)
    PROVE  /\ Continues(s, s, A) /\ Continues(s, s \o u, A)
           /\ Continues(s, u, A) /\ Continues(u, v, A) => Continues(s, v, A)
           /\ Continues(s, u, A) => Continues(v \o s, v \o u, A)
           /\ Continues(s, u, A) => IsPrefix(s, u) /\ Len(s) <= Len(u)
<1>0. \A x, y, z \in Seq(A) : (x \o y) \o z = x \o (y \o z)
  BY ConcatAssociative
<1>1. Continues(s, s \o u, A)
  BY Zenon DEF Continues
<1>2. Continues(s, s, A)
  <2>1. <<>> \in Seq(A) /\ s = s \o <<>>
    OBVIOUS
  <2> QED BY <2>1, Zenon DEF Continues
<1>3. ASSUME Continues(s, u, A), Continues(u, v, A) PROVE Continues(s, v, A)
  <2>1. PICK x \in Seq(A) : u = s \o x
    BY <1>3, Zenon DEF Continues
  <2>2. PICK y \in Seq(A) : v = u \o y
    BY <1>3, Zenon DEF Continues
  <2>3. x \o y \in Seq(A)
    OBVIOUS
  <2>4. v = s \o (x \o y)
    <3>1. (s \o x) \o y = s \o (x \o y)
      BY <1>0, Zenon
    <3>2. v = (s \o x) \o y
      BY <2>1, <2>2, Zenon
    <3> QED BY <3>1, <3>2, Zenon
  <2> QED BY <2>3, <2>4, Zenon DEF Continues
<1>4. ASSUME Continues(s, u, A) PROVE Continues(v \o s, v \o u, A)
  <2>1. PICK x \in Seq(A) : u = s \o x
    BY <1>4, Zenon DEF Continues
  <2>2. v \o u = (v \o s) \o x
    BY <1>0, <2>1, Zenon
  <2> QED BY <2>1, <2>2, Zenon DEF Continues
<1>5. ASSUME Continues(s, u, A) PROVE IsPrefix(s, u) /\ Len(s) <= Len(u)
  <2>1. PICK x \in Seq(A) : u = s \o x
    BY <1>5, Zenon DEF Continues
  <2>2. IsPrefix(s, s \o x) /\ Len(s \o x) = Len(s) + Len(x) /\ Len(x) \in Nat /\ Len(s) \in Nat
    BY PrefixOfConcat
  <2>3. IsPrefix(s, u) /\ Len(u) = Len(s) + Len(x)
    BY <2>1, <2>2, Zenon
  <2> QED BY <2>2, <2>3
<1> QED BY <1>1, <1>2, <1>3, <1>4, <1>5, Zenon

-----------------------------------------------------------------------------
(* Where things are in an encoding: s is in w, behind p others. *)
Sits(s, w, p) == p + Len(s) <= Len(w) /\ \A i \in 1..Len(s) : w[p + i] = s[i]

(* The parts of a concatenation *)
LEMMA ConcatSits ==
    ASSUME NEW A, NEW s \in Seq(A), NEW u \in Seq(A)
    PROVE  /\ Sits(s, s \o u, 0) /\ Sits(u, s \o u, Len(s))
           /\ Len(s \o u) = Len(s) + Len(u) /\ Len(s) \in Nat /\ Len(u) \in Nat
<1>1. /\ Len(s \o u) = Len(s) + Len(u) /\ Len(s) \in Nat /\ Len(u) \in Nat
      /\ \A i \in 1..Len(s) : (s \o u)[i] = s[i]
      /\ \A i \in 1..Len(u) : (s \o u)[Len(s) + i] = u[i]
  OBVIOUS
<1> QED BY <1>1 DEF Sits

(* A part of a part is a part. *)
LEMMA SitsWithin ==
    ASSUME NEW A, NEW s \in Seq(A), NEW v \in Seq(A), NEW w \in Seq(A),
           NEW p \in Nat, NEW q \in Nat, Sits(v, w, p), Sits(s, v, q)
    PROVE  Sits(s, w, p + q)
<1>1. Len(s) \in Nat /\ Len(v) \in Nat /\ Len(w) \in Nat
  OBVIOUS
<1>2. p + Len(v) <= Len(w) /\ q + Len(s) <= Len(v)
  BY DEF Sits
<1>3. ASSUME NEW i \in 1..Len(s) PROVE w[(p + q) + i] = s[i]
  <2>1. q + i \in 1..Len(v) /\ p + (q + i) = (p + q) + i
    BY <1>1, <1>2
  <2>2. w[p + (q + i)] = v[q + i] /\ v[q + i] = s[i]
    BY <2>1 DEF Sits
  <2> QED BY <2>1, <2>2
<1> QED BY <1>1, <1>2, <1>3 DEF Sits

(* Each of the sequences that FlattenSeq concatenates *)
LEMMA FlattenSits ==
    ASSUME NEW A, NEW m \in Nat, NEW g \in [1..m -> Seq(A)], NEW n \in 0..m, n < m
    PROVE  /\ Sits(g[n + 1], FlattenSeq(Take(g, m)), Len(FlattenSeq(Take(g, n))))
           /\ Len(FlattenSeq(Take(g, n + 1))) = Len(FlattenSeq(Take(g, n))) + Len(g[n + 1])
<1> DEFINE F(k) == FlattenSeq(Take(g, k))
<1>0. n + 1 \in 0..m /\ m \in 0..m /\ n + 1 <= m /\ g[n + 1] \in Seq(A)
  OBVIOUS
<1>1. F(n) \in Seq(A) /\ F(n + 1) \in Seq(A) /\ F(m) \in Seq(A) /\ F(n + 1) = F(n) \o g[n + 1]
  BY <1>0, FlattenTake
<1>2. Continues(F(n + 1), F(m), A)
  BY <1>0, FlattenTakeMore
<1> HIDE DEF F
<1>3. PICK x \in Seq(A) : F(m) = F(n + 1) \o x
  BY <1>2, Zenon DEF Continues
<1>4. Sits(F(n + 1), F(n + 1) \o x, 0)
  BY <1>1, ConcatSits
<1>5. /\ Sits(g[n + 1], F(n) \o g[n + 1], Len(F(n)))
      /\ Len(F(n) \o g[n + 1]) = Len(F(n)) + Len(g[n + 1]) /\ Len(F(n)) \in Nat
  BY <1>0, <1>1, ConcatSits
<1>6. Sits(F(n + 1), F(m), 0)
  BY <1>3, <1>4, Zenon
<1>7. /\ Sits(g[n + 1], F(n + 1), Len(F(n)))
      /\ Len(F(n + 1)) = Len(F(n)) + Len(g[n + 1])
  BY <1>1, <1>5, Zenon
<1>8. Sits(g[n + 1], F(m), 0 + Len(F(n)))
  BY <1>0, <1>1, <1>5, <1>6, <1>7, SitsWithin
<1>9. 0 + Len(F(n)) = Len(F(n))
  BY <1>5
<1>10. Sits(g[n + 1], F(m), Len(F(n)))
  BY <1>8, <1>9, Zenon
<1> QED BY <1>7, <1>10 DEF F

(* What is appended leaves the parts where they are. *)
LEMMA SitsMore ==
    ASSUME NEW A, NEW s \in Seq(A), NEW w \in Seq(A), NEW u \in Seq(A), NEW p \in Nat,
           Sits(s, w, p)
    PROVE  Sits(s, w \o u, p)
<1>1. /\ Len(s) \in Nat /\ Len(w) \in Nat /\ Len(u) \in Nat /\ Len(w \o u) = Len(w) + Len(u)
      /\ \A i \in 1..Len(w) : (w \o u)[i] = w[i]
  OBVIOUS
<1>2. p + Len(s) <= Len(w)
  BY DEF Sits
<1>3. ASSUME NEW i \in 1..Len(s) PROVE (w \o u)[p + i] = s[i]
  <2>1. p + i \in 1..Len(w)
    BY <1>1, <1>2
  <2> QED BY <1>1, <2>1 DEF Sits
<1> QED BY <1>1, <1>2, <1>3 DEF Sits

(* The encoding of an object: tag, key or number, length, value *)
LEMMA ObjectLayout ==
    ASSUME NEW OO, Nothing \in OO, NEW o \in OO, Encodable(o)
    PROVE  LET E == EncodeObject(o)
               D == Digits(o.len)
           IN /\ E \in Seq(Symbols(OO)) /\ D \in Nat \ {0}
              /\ Len(E) = o.idlen + D + o.len + 4
              /\ Sits(<<Sym(o.kind)>>, E, 0)
              /\ Sits(Run(o.idlen, "ch", o), E, 1)
              /\ Sits(<<Sym("sp")>>, E, o.idlen + 1)
              /\ Sits(Run(D, "ch", o), E, o.idlen + 2)
              /\ Sits(<<Sym("nl")>>, E, o.idlen + D + 2)
              /\ Sits(Run(o.len, "by", o), E, o.idlen + D + 3)
              /\ Sits(<<Sym("nl")>>, E, o.idlen + D + o.len + 3)
<1> DEFINE A == Symbols(OO)
           D == Digits(o.len)
<1>0. D \in Nat \ {0} /\ o.kind \in SymbolTypes /\ o.idlen \in Nat /\ o.len \in Nat
  <2>1. o.idlen \in Nat /\ o.len \in Nat
    BY DEF Encodable
  <2>2. o.kind \in SymbolTypes
    BY DEF Encodable, SymbolTypes, Tags
  <2> QED BY <2>1, <2>2, DigitsValue
<1>1. ASSUME NEW n \in Nat, NEW t \in {"ch", "by"}
      PROVE  Run(n, t, o) \in Seq(A) /\ Len(Run(n, t, o)) = n
  <2>1. Run(n, t, o) \in [1..n -> A]
    BY DEF Run, Symbols, SymbolTypes
  <2> HIDE DEF A
  <2> QED BY <2>1
<1>2. \A t \in SymbolTypes : <<Sym(t)>> \in Seq(A) /\ Len(<<Sym(t)>>) = 1
  <2>1. \A t \in SymbolTypes : Sym(t) \in A
    BY DEF Sym, Symbols
  <2> HIDE DEF A
  <2> QED BY <2>1
<1> HIDE DEF A
<1>3. PICK a \in Seq(A), b \in Seq(A), u \in Seq(A), d \in Seq(A), e \in Seq(A), v \in Seq(A) :
         /\ a = <<Sym(o.kind)>> /\ b = Run(o.idlen, "ch", o) /\ u = <<Sym("sp")>>
         /\ d = Run(D, "ch", o) /\ e = <<Sym("nl")>> /\ v = Run(o.len, "by", o)
  BY <1>0, <1>1, <1>2 DEF SymbolTypes
<1>4. Len(a) = 1 /\ Len(b) = o.idlen /\ Len(u) = 1 /\ Len(d) = D /\ Len(e) = 1 /\ Len(v) = o.len
  BY <1>0, <1>1, <1>2, <1>3 DEF SymbolTypes
<1>5. EncodeObject(o) = ((((((a \o b) \o u) \o d) \o e) \o v) \o e)
  BY <1>3, Zenon DEF LocalHeader, Value, EncodeObject
<1> DEFINE x == a \o b
           y == x \o u
           z == y \o d
           w == z \o e
           s == w \o v
           E == s \o e
<1> HIDE DEF D
<1>n. /\ o.idlen + 1 \in Nat /\ o.idlen + 2 \in Nat /\ o.idlen + D + 2 \in Nat
      /\ o.idlen + D + 3 \in Nat
  <2>1. \A i, j \in Nat : i + 1 \in Nat /\ i + 2 \in Nat /\ i + j + 2 \in Nat /\ i + j + 3 \in Nat
    OBVIOUS
  <2>2. o.idlen \in Nat /\ D \in Nat
    BY <1>0
  <2> QED BY <2>1, <2>2, Zenon
<1>6. /\ x \in Seq(A) /\ Len(x) = 1 + o.idlen /\ Sits(a, x, 0) /\ Sits(b, x, 1)
  <2>1. x \in Seq(A)
    BY Bracket3
  <2> QED BY <1>0, <1>4, <2>1, ConcatSits
<1> HIDE DEF x
<1>7. /\ y \in Seq(A) /\ Len(y) = 2 + o.idlen /\ Sits(a, y, 0) /\ Sits(b, y, 1)
      /\ Sits(u, y, o.idlen + 1)
  <2>1. y \in Seq(A)
    BY <1>6, Bracket3
  <2>2. Sits(u, y, Len(x)) /\ Len(y) = Len(x) + Len(u)
    BY <1>6, ConcatSits
  <2>3. Sits(a, y, 0) /\ Sits(b, y, 1)
    BY <1>6, SitsMore
  <2> QED BY <1>0, <1>4, <1>6, <2>1, <2>2, <2>3
<1> HIDE DEF y
<1>8. /\ z \in Seq(A) /\ Len(z) = 2 + o.idlen + D /\ Sits(a, z, 0) /\ Sits(b, z, 1)
      /\ Sits(u, z, o.idlen + 1) /\ Sits(d, z, o.idlen + 2)
  <2>1. z \in Seq(A)
    BY <1>7, Bracket3
  <2>2. Sits(d, z, Len(y)) /\ Len(z) = Len(y) + Len(d)
    BY <1>7, ConcatSits
  <2>3. Sits(a, z, 0) /\ Sits(b, z, 1) /\ Sits(u, z, o.idlen + 1)
    BY <1>0, <1>7, SitsMore
  <2> QED BY <1>0, <1>4, <1>7, <2>1, <2>2, <2>3
<1> HIDE DEF z
<1>9. /\ w \in Seq(A) /\ Len(w) = 3 + o.idlen + D /\ Sits(a, w, 0) /\ Sits(b, w, 1)
      /\ Sits(u, w, o.idlen + 1) /\ Sits(d, w, o.idlen + 2) /\ Sits(e, w, o.idlen + D + 2)
  <2>1. w \in Seq(A)
    BY <1>8, Bracket3
  <2>2. Sits(e, w, Len(z)) /\ Len(w) = Len(z) + Len(e)
    BY <1>8, ConcatSits
  <2>3. Sits(a, w, 0) /\ Sits(b, w, 1) /\ Sits(u, w, o.idlen + 1) /\ Sits(d, w, o.idlen + 2)
    BY <1>0, <1>8, SitsMore
  <2> QED BY <1>0, <1>4, <1>8, <2>1, <2>2, <2>3
<1> HIDE DEF w
<1>10. /\ s \in Seq(A) /\ Len(s) = o.idlen + D + o.len + 3 /\ Sits(a, s, 0) /\ Sits(b, s, 1)
       /\ Sits(u, s, o.idlen + 1) /\ Sits(d, s, o.idlen + 2) /\ Sits(e, s, o.idlen + D + 2)
       /\ Sits(v, s, o.idlen + D + 3)
  <2>1. s \in Seq(A)
    BY <1>9, Bracket3
  <2>2. Sits(v, s, Len(w)) /\ Len(s) = Len(w) + Len(v)
    BY <1>9, ConcatSits
  <2>3. /\ Sits(a, s, 0) /\ Sits(b, s, 1) /\ Sits(u, s, o.idlen + 1) /\ Sits(d, s, o.idlen + 2)
        /\ Sits(e, s, o.idlen + D + 2)
    BY <1>n, <1>9, SitsMore
  <2>4. Len(w) = o.idlen + D + 3
    BY <1>0, <1>9
  <2>5. Sits(v, s, o.idlen + D + 3)
    BY <2>2, <2>4, Zenon
  <2>6. Len(s) = o.idlen + D + o.len + 3
    BY <1>0, <1>4, <2>2, <2>4
  <2> QED BY <2>1, <2>3, <2>5, <2>6
<1> HIDE DEF s
<1>11. /\ E \in Seq(A) /\ Len(E) = o.idlen + D + o.len + 4 /\ Sits(a, E, 0) /\ Sits(b, E, 1)
       /\ Sits(u, E, o.idlen + 1) /\ Sits(d, E, o.idlen + 2) /\ Sits(e, E, o.idlen + D + 2)
       /\ Sits(v, E, o.idlen + D + 3) /\ Sits(e, E, o.idlen + D + o.len + 3)
  <2>1. E \in Seq(A)
    BY <1>10, Bracket3
  <2>2. Sits(e, E, Len(s)) /\ Len(E) = Len(s) + Len(e)
    BY <1>10, ConcatSits
  <2>3. /\ Sits(a, E, 0) /\ Sits(b, E, 1) /\ Sits(u, E, o.idlen + 1) /\ Sits(d, E, o.idlen + 2)
        /\ Sits(e, E, o.idlen + D + 2) /\ Sits(v, E, o.idlen + D + 3)
    BY <1>n, <1>10, SitsMore
  <2>4. Sits(e, E, o.idlen + D + o.len + 3)
    BY <1>10, <2>2, Zenon
  <2>5. Len(E) = o.idlen + D + o.len + 4
    BY <1>0, <1>4, <1>10, <2>2
  <2> QED BY <2>1, <2>3, <2>4, <2>5
<1>12. EncodeObject(o) = E
  BY <1>5, Zenon DEF x, y, z, w, s
<1> HIDE DEF E
<1> QED BY <1>0, <1>3, <1>11, <1>12, Zenon DEF A, D

(* How many symbols precede an object in its frame, and a frame in a stream *)
ObjectAt(f, n) == 1 + Len(Encoded(f.objs, n))
FrameEncodings(fs) == [i \in 1..Len(fs) |-> EncodeFrame(fs[i])]
FrameAt(fs, k) == Len(FlattenSeq(Take(FrameEncodings(fs), k)))

(* The encoding of a frame: its header, its objects, the end *)
LEMMA FrameLayout ==
    ASSUME NEW OO, Nothing \in OO, NEW f \in [cmd : OO, objs : Seq(OO)],
           \A i \in 1..Len(f.objs) : Encodable(f.objs[i])
    PROVE  LET E == EncodeFrame(f)
               m == Len(f.objs)
           IN /\ E \in Seq(Symbols(OO)) /\ m \in Nat
              /\ \A n \in 0..m : ObjectAt(f, n) \in Nat
              /\ ObjectAt(f, 0) = 1
              /\ Len(E) = ObjectAt(f, m) + 2
              /\ Sits(<<[t |-> "hdr", o |-> f.cmd]>>, E, 0)
              /\ \A n \in 0..m : n < m =>
                    /\ ObjectAt(f, n + 1) = ObjectAt(f, n) + Len(EncodeObject(f.objs[n + 1]))
                    /\ Sits(EncodeObject(f.objs[n + 1]), E, ObjectAt(f, n))
              /\ Sits(EndSyms, E, ObjectAt(f, m))
<1> DEFINE A == Symbols(OO)
           objs == f.objs
           m == Len(f.objs)
           h == <<[t |-> "hdr", o |-> f.cmd]>>
           g == Encodings(f.objs)
           B == EncodeBody(f.objs)
           E == EncodeFrame(f)
<1>0. /\ f.objs \in Seq(OO) /\ f.cmd \in OO
      /\ m \in Nat /\ m \in 0..m /\ 0 \in 0..m /\ \A i \in 1..m : f.objs[i] \in OO
  OBVIOUS
<1>1. h \in Seq(A) /\ Len(h) = 1
  <2>1. [t |-> "hdr", o |-> f.cmd] \in A
    BY <1>0 DEF Symbols, SymbolTypes
  <2> HIDE DEF A
  <2> QED BY <2>1
<1>2. \A i \in 1..m : EncodeObject(f.objs[i]) \in Seq(A)
  BY <1>0, ObjectEncoding
<1>3. g \in [1..m -> Seq(A)] /\ \A i \in 1..m : g[i] = EncodeObject(f.objs[i])
  BY <1>2 DEF Encodings
<1>4. /\ Encoded(f.objs, 0) = <<>> /\ EndSyms \in Seq(A)
      /\ \A n \in 0..m : Encoded(f.objs, n) \in Seq(A)
      /\ B = Encoded(f.objs, m) \o EndSyms /\ B \in Seq(A)
  BY <1>0, BodyEncoding
<1>5. E = h \o B
  BY Zenon DEF EncodeFrame
<1> HIDE DEF A, m, h, g, B, E
<1>6. \A n : Encoded(f.objs, n) = FlattenSeq(Take(g, n))
  BY Zenon DEF Encoded, g
<1>7. /\ Sits(h, E, 0) /\ Sits(B, E, 1) /\ Len(E) = 1 + Len(B) /\ E \in Seq(A)
  <2>1. h \o B \in Seq(A)
    BY <1>1, <1>4, Bracket3
  <2>2. /\ Sits(h, h \o B, 0) /\ Sits(B, h \o B, Len(h)) /\ Len(h \o B) = Len(h) + Len(B)
    BY <1>1, <1>4, ConcatSits
  <2> QED BY <1>1, <1>5, <2>1, <2>2
<1>8. \A n \in 0..m : Len(Encoded(f.objs, n)) \in Nat
  BY <1>4
<1>9. /\ Sits(Encoded(f.objs, m), B, 0) /\ Sits(EndSyms, B, Len(Encoded(f.objs, m)))
      /\ Len(B) = Len(Encoded(f.objs, m)) + Len(EndSyms)
  BY <1>0, <1>4, ConcatSits
<1>10. Len(EndSyms) = 2
  BY DEF EndSyms
<1>11. Len(E) = ObjectAt(f, m) + 2
  BY <1>0, <1>7, <1>8, <1>9, <1>10 DEF ObjectAt
<1>12. Sits(EndSyms, E, ObjectAt(f, m))
  BY <1>0, <1>4, <1>7, <1>8, <1>9, SitsWithin DEF ObjectAt
<1>13. \A n \in 0..m : ObjectAt(f, n) \in Nat
  BY <1>8 DEF ObjectAt
<1>14. ObjectAt(f, 0) = 1
  <2>1. Len(<<>>) = 0
    OBVIOUS
  <2> QED BY <1>4, <2>1 DEF ObjectAt
<1>15. ASSUME NEW n \in 0..m, n < m
       PROVE  /\ ObjectAt(f, n + 1) = ObjectAt(f, n) + Len(EncodeObject(f.objs[n + 1]))
              /\ Sits(EncodeObject(f.objs[n + 1]), E, ObjectAt(f, n))
  <2>0. n \in 0..m /\ n + 1 \in 1..m /\ n + 1 \in 0..m
    BY <1>0, <1>15
  <2>1. PICK x \in Seq(A) : x = EncodeObject(f.objs[n + 1]) /\ x = g[n + 1]
    BY <1>2, <1>3, <2>0
  <2>2. /\ Sits(g[n + 1], FlattenSeq(Take(g, m)), Len(FlattenSeq(Take(g, n))))
        /\ Len(FlattenSeq(Take(g, n + 1))) = Len(FlattenSeq(Take(g, n))) + Len(g[n + 1])
    BY <1>0, <1>3, <1>15, FlattenSits
  <2>3. /\ Sits(x, Encoded(f.objs, m), Len(Encoded(f.objs, n)))
        /\ Len(Encoded(f.objs, n + 1)) = Len(Encoded(f.objs, n)) + Len(x)
    <3>1. /\ Encoded(f.objs, m) = FlattenSeq(Take(g, m))
          /\ Encoded(f.objs, n) = FlattenSeq(Take(g, n))
          /\ Encoded(f.objs, n + 1) = FlattenSeq(Take(g, n + 1))
      BY <1>6
    <3> QED BY <2>1, <2>2, <3>1, Zenon
  <2>4. Sits(x, B, 0 + Len(Encoded(f.objs, n)))
    BY <1>0, <1>4, <1>8, <1>9, <2>0, <2>1, <2>3, SitsWithin
  <2>5. PICK l \in Nat : l = Len(Encoded(f.objs, n))
    BY <1>8, <2>0
  <2>6. Sits(x, B, l)
    BY <2>4, <2>5
  <2>7. Sits(x, E, 1 + l)
    BY <1>4, <1>7, <2>1, <2>5, <2>6, SitsWithin
  <2>8. 1 + Len(Encoded(f.objs, n + 1)) = (1 + Len(Encoded(f.objs, n))) + Len(x)
    BY <1>8, <2>0, <2>3
  <2> QED BY <2>1, <2>5, <2>7, <2>8, Zenon DEF ObjectAt
<1> QED BY <1>0, <1>7, <1>11, <1>12, <1>13, <1>14, <1>15, Zenon DEF A, m, h, E

(* The symbols of a stream that precede object n + 1 of frame k + 1 *)
Place(fs, k, n) == FrameAt(fs, k) + ObjectAt(fs[k + 1], n)

(* The encoding of a sequence of frames *)
LEMMA StreamLayout ==
    ASSUME NEW OO, Nothing \in OO, NEW fs \in Seq([cmd : OO, objs : Seq(OO)]),
           \A k \in 1..Len(fs) : \A i \in 1..Len(fs[k].objs) : Encodable(fs[k].objs[i])
    PROVE  LET E == EncodeFrames(fs)
               m == Len(fs)
           IN /\ E \in Seq(Symbols(OO)) /\ m \in Nat
              /\ \A k \in 0..m : FrameAt(fs, k) \in Nat
              /\ FrameAt(fs, 0) = 0 /\ FrameAt(fs, m) = Len(E)
              /\ \A k \in 0..m : k < m =>
                    LET l == Len(fs[k + 1].objs) IN
                    /\ l \in Nat /\ Sits(<<[t |-> "hdr", o |-> fs[k + 1].cmd]>>, E, FrameAt(fs, k))
                    /\ Place(fs, k, 0) = FrameAt(fs, k) + 1
                    /\ \A n \in 0..l : Place(fs, k, n) \in Nat
                    /\ \A n \in 0..l : n < l =>
                          /\ Place(fs, k, n + 1) = Place(fs, k, n) + Len(EncodeObject(fs[k + 1].objs[n + 1]))
                          /\ Sits(EncodeObject(fs[k + 1].objs[n + 1]), E, Place(fs, k, n))
                    /\ Sits(EndSyms, E, Place(fs, k, l))
                    /\ FrameAt(fs, k + 1) = Place(fs, k, l) + 2
<1> DEFINE A == Symbols(OO)
           m == Len(fs)
           g == FrameEncodings(fs)
           E == EncodeFrames(fs)
<1>0. m \in Nat /\ m \in 0..m /\ 0 \in 0..m
  OBVIOUS
<1>1. ASSUME NEW k \in 1..m
      PROVE  /\ fs[k] \in [cmd : OO, objs : Seq(OO)] /\ EncodeFrame(fs[k]) \in Seq(A)
             /\ \A i \in 1..Len(fs[k].objs) : Encodable(fs[k].objs[i])
  <2>1. fs[k] \in [cmd : OO, objs : Seq(OO)]
    <3>1. \A S : \A s \in Seq(S) : \A i \in 1..Len(s) : s[i] \in S
      OBVIOUS
    <3> QED BY <3>1, Zenon
  <2>2. \A i \in 1..Len(fs[k].objs) : Encodable(fs[k].objs[i])
    BY Zenon
  <2> QED BY <2>1, <2>2, FrameLayout
<1>2. g \in [1..m -> Seq(A)] /\ \A k \in 1..m : g[k] = EncodeFrame(fs[k])
  BY <1>1 DEF FrameEncodings
<1>3. E = FlattenSeq(Take(g, m))
  <2>1. Take(g, m) = [i \in DOMAIN fs |-> EncodeFrame(fs[i])]
    BY <1>0, <1>2 DEF Take
  <2> QED BY <2>1, Zenon DEF EncodeFrames
<1> HIDE DEF A, m, g, E
<1>4. \A k : FrameAt(fs, k) = Len(FlattenSeq(Take(g, k)))
  BY Zenon DEF FrameAt, g
<1>5. FlattenSeq(Take(g, 0)) = <<>> /\ \A k \in 0..m : FlattenSeq(Take(g, k)) \in Seq(A)
  BY <1>0, <1>2, FlattenTake
<1>6. /\ \A k \in 0..m : FrameAt(fs, k) \in Nat
      /\ FrameAt(fs, 0) = 0 /\ FrameAt(fs, m) = Len(E) /\ E \in Seq(A)
  <2>1. Len(<<>>) = 0 /\ \A s \in Seq(A) : Len(s) \in Nat
    OBVIOUS
  <2>2. FrameAt(fs, 0) = Len(<<>>)
    BY <1>4, <1>5
  <2>3. E \in Seq(A)
    BY <1>0, <1>3, <1>5
  <2> QED BY <1>0, <1>3, <1>4, <1>5, <2>1, <2>2, <2>3
<1>7. ASSUME NEW k \in 0..m, k < m
      PROVE  LET l == Len(fs[k + 1].objs) IN
             /\ l \in Nat /\ Sits(<<[t |-> "hdr", o |-> fs[k + 1].cmd]>>, E, FrameAt(fs, k))
             /\ Place(fs, k, 0) = FrameAt(fs, k) + 1
             /\ \A n \in 0..l : Place(fs, k, n) \in Nat
             /\ \A n \in 0..l : n < l =>
                   /\ Place(fs, k, n + 1) = Place(fs, k, n) + Len(EncodeObject(fs[k + 1].objs[n + 1]))
                   /\ Sits(EncodeObject(fs[k + 1].objs[n + 1]), E, Place(fs, k, n))
             /\ Sits(EndSyms, E, Place(fs, k, l))
             /\ FrameAt(fs, k + 1) = Place(fs, k, l) + 2
  <2>0. k + 1 \in 1..m /\ k + 1 \in 0..m
    BY <1>0, <1>7
  <2>1. PICK f \in [cmd : OO, objs : Seq(OO)] :
           /\ f = fs[k + 1] /\ g[k + 1] = EncodeFrame(f) /\ EncodeFrame(f) \in Seq(A)
           /\ \A i \in 1..Len(f.objs) : Encodable(f.objs[i])
    BY <1>1, <1>2, <2>0
  <2> DEFINE l == Len(f.objs)
             F == EncodeFrame(f)
             h == <<[t |-> "hdr", o |-> f.cmd]>>
  <2>2. /\ l \in Nat /\ l \in 0..l
        /\ \A n \in 0..l : ObjectAt(f, n) \in Nat
        /\ ObjectAt(f, 0) = 1
        /\ Len(F) = ObjectAt(f, l) + 2
        /\ Sits(h, F, 0)
        /\ \A n \in 0..l : n < l =>
              /\ ObjectAt(f, n + 1) = ObjectAt(f, n) + Len(EncodeObject(f.objs[n + 1]))
              /\ Sits(EncodeObject(f.objs[n + 1]), F, ObjectAt(f, n))
        /\ Sits(EndSyms, F, ObjectAt(f, l))
    <3>1. \A i \in 1..Len(f.objs) : Encodable(f.objs[i])
      BY <2>1
    <3>2. l \in Nat => l \in 0..l
      OBVIOUS
    <3> QED BY <3>1, <3>2, FrameLayout, Zenon
  <2>3. /\ Sits(g[k + 1], FlattenSeq(Take(g, m)), Len(FlattenSeq(Take(g, k))))
        /\ Len(FlattenSeq(Take(g, k + 1))) = Len(FlattenSeq(Take(g, k))) + Len(g[k + 1])
    BY <1>0, <1>2, <1>7, FlattenSits
  <2>4. PICK p \in Nat : p = FrameAt(fs, k)
    BY <1>6
  <2>5. Sits(F, E, p) /\ FrameAt(fs, k + 1) = p + Len(F)
    <3>1. /\ FrameAt(fs, k) = Len(FlattenSeq(Take(g, k)))
          /\ FrameAt(fs, k + 1) = Len(FlattenSeq(Take(g, k + 1)))
      BY <1>4
    <3> QED BY <1>3, <2>1, <2>3, <2>4, <3>1, Zenon
  <2>6. \A n : Place(fs, k, n) = p + ObjectAt(f, n)
    BY <2>1, <2>4, Zenon DEF Place
  <2>7. /\ h \in Seq(A) /\ EndSyms \in Seq(A) /\ F \in Seq(A)
        /\ \A n \in 1..l : EncodeObject(f.objs[n]) \in Seq(A)
    <3>1. [t |-> "hdr", o |-> f.cmd] \in A /\ Sym("end") \in A /\ Sym("nl") \in A
      BY DEF A, Symbols, SymbolTypes, Tags, Sym
    <3>2. h \in Seq(A) /\ EndSyms \in Seq(A)
      BY <3>1 DEF EndSyms
    <3>3. \A n \in 1..l : f.objs[n] \in OO /\ Encodable(f.objs[n])
      <4>1. f.objs \in Seq(OO)
        OBVIOUS
      <4>2. \A n \in 1..Len(f.objs) : f.objs[n] \in OO
        BY <4>1
      <4> QED BY <2>1, <4>2
    <3> QED BY <2>1, <3>2, <3>3, ObjectEncoding DEF A
  <2> HIDE DEF l, F, h
  <2>8. Sits(h, E, p)
    <3>1. Sits(h, E, p + 0)
      BY <1>6, <2>2, <2>5, <2>7, SitsWithin
    <3> QED BY <3>1
  <2>9. Sits(EndSyms, E, Place(fs, k, l))
    <3>1. Sits(EndSyms, E, p + ObjectAt(f, l))
      BY <1>6, <2>2, <2>5, <2>7, SitsWithin
    <3> QED BY <2>6, <3>1, Zenon
  <2>10. ASSUME NEW n \in 0..l, n < l
         PROVE  /\ Place(fs, k, n + 1) = Place(fs, k, n) + Len(EncodeObject(f.objs[n + 1]))
                /\ Sits(EncodeObject(f.objs[n + 1]), E, Place(fs, k, n))
    <3>0. n + 1 \in 1..l /\ n + 1 \in 0..l
      BY <2>2, <2>10
    <3>1. PICK x \in Seq(A) : x = EncodeObject(f.objs[n + 1])
      BY <2>7, <3>0
    <3>2. /\ ObjectAt(f, n + 1) = ObjectAt(f, n) + Len(x) /\ Sits(x, F, ObjectAt(f, n))
          /\ ObjectAt(f, n) \in Nat /\ ObjectAt(f, n + 1) \in Nat /\ Len(x) \in Nat
      BY <2>2, <2>10, <3>0, <3>1
    <3>3. Sits(x, E, p + ObjectAt(f, n))
      BY <1>6, <2>5, <2>7, <3>2, SitsWithin
    <3>4. p + ObjectAt(f, n + 1) = (p + ObjectAt(f, n)) + Len(x)
      BY <3>2
    <3>5. Place(fs, k, n) = p + ObjectAt(f, n) /\ Place(fs, k, n + 1) = p + ObjectAt(f, n + 1)
      BY <2>6
    <3> QED BY <3>1, <3>3, <3>4, <3>5, Zenon
  <2>11. /\ Place(fs, k, 0) = p + 1
         /\ \A n \in 0..l : Place(fs, k, n) \in Nat
         /\ FrameAt(fs, k + 1) = Place(fs, k, l) + 2
    BY <2>2, <2>5, <2>6
  <2> QED BY <2>1, <2>2, <2>4, <2>8, <2>9, <2>10, <2>11, Zenon DEF l, h
<1> QED BY <1>0, <1>6, <1>7, Zenon DEF A, m, E
=============================================================================
