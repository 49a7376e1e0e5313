------------------------------ MODULE WireProofs ------------------------------
(***************************************************************************)
(* What a reader finds in bytes that Wire's operators wrote, for any       *)
(* numbers that fit their fields and data of any length, whole or cut      *)
(* short.  A buffer is a sequence of naturals: no reader depends on an     *)
(* element being a byte.                                                   *)
(***************************************************************************)
EXTENDS Wire, SequenceTheorems, WellFoundedInduction, TLAPS

-----------------------------------------------------------------------------
(* Buffers *)

\* Concatenation under another name: the prover regroups s \o t \o u for ever.
Over(s)    == s \in Seq(Nat)
Then(s, t) == s \o t

\* The bytes s stand in b from place i on.
Holds(b, i, s) ==
  i + Len(s) <= Len(b) + 1 /\ \A k \in 1..Len(s) : b[i + k - 1] = s[k]

LEMMA Joined ==
  ASSUME NEW x, Over(x), NEW y, Over(y)
  PROVE  /\ Over(Then(x, y)) /\ Len(Then(x, y)) = Len(x) + Len(y)
         /\ Len(x) \in Nat /\ Len(y) \in Nat
         /\ \A i \in 1..(Len(x) + Len(y)) :
              Then(x, y)[i] = IF i <= Len(x) THEN x[i] ELSE y[i - Len(x)]
BY ConcatProperties, LenProperties DEF Over, Then

LEMMA First ==
  ASSUME NEW x, Over(x), NEW y, Over(y)
  PROVE  Holds(Then(x, y), 1, x)
<1>1. \A k \in 1..Len(x) : 1 + k - 1 = k /\ k \in 1..(Len(x) + Len(y))
  BY Joined
<1> QED
  BY <1>1, Joined DEF Holds

LEMMA Second ==
  ASSUME NEW x, Over(x), NEW y, Over(y)
  PROVE  Holds(Then(x, y), Len(x) + 1, y)
<1>1. Len(x) \in Nat /\ Len(y) \in Nat /\ Len(Then(x, y)) = Len(x) + Len(y)
  BY Joined
<1>2. \A k \in 1..Len(y) : /\ (Len(x) + 1) + k - 1 = Len(x) + k
                           /\ Len(x) + k \in 1..(Len(x) + Len(y))
                           /\ ~(Len(x) + k <= Len(x)) /\ Len(x) + k - Len(x) = k
  BY <1>1
<1>3. \A i \in 1..(Len(x) + Len(y)) :
        Then(x, y)[i] = IF i <= Len(x) THEN x[i] ELSE y[i - Len(x)]
  BY Joined
<1>4. \A k \in 1..Len(y) : Then(x, y)[(Len(x) + 1) + k - 1] = y[k]
  BY <1>2, <1>3
<1> QED
  BY <1>1, <1>4 DEF Holds

\* What stands in the front stays where it is.
LEMMA Kept ==
  ASSUME NEW x, Over(x), NEW y, Over(y), NEW i \in Nat, i >= 1, NEW s, Over(s), Holds(x, i, s)
  PROVE  Holds(Then(x, y), i, s)
<1>1. /\ Len(s) \in Nat /\ Len(x) \in Nat /\ i + Len(s) <= Len(x) + 1
      /\ Len(y) \in Nat /\ Len(Then(x, y)) = Len(x) + Len(y)
  BY LenProperties, Joined DEF Holds, Over
<1>2. \A k \in 1..Len(s) : /\ i + k - 1 \in 1..(Len(x) + Len(y))
                           /\ i + k - 1 <= Len(x)
  BY <1>1
<1>3. \A j \in 1..(Len(x) + Len(y)) :
        Then(x, y)[j] = IF j <= Len(x) THEN x[j] ELSE y[j - Len(x)]
  BY Joined
<1>4. \A k \in 1..Len(s) : Then(x, y)[i + k - 1] = s[k]
  BY <1>2, <1>3 DEF Holds
<1> QED
  BY <1>1, <1>4 DEF Holds

LEMMA Within ==
  ASSUME NEW b, NEW i \in Nat, NEW s, Over(s), Holds(b, i, s), Over(b),
         NEW j \in Nat, j >= 1, NEW t, Over(t), Holds(s, j, t)
  PROVE  Holds(b, i + j - 1, t)
<1>1. Len(s) \in Nat /\ Len(t) \in Nat /\ Len(b) \in Nat
  BY LenProperties DEF Over
<1>2. i + Len(s) <= Len(b) + 1 /\ j + Len(t) <= Len(s) + 1
  BY DEF Holds
<1>3. \A k \in 1..Len(t) : j + k - 1 \in 1..Len(s) /\ i + (j + k - 1) - 1 = (i + j - 1) + k - 1
  BY <1>1, <1>2
<1>4. \A k \in 1..Len(t) : b[i + (j + k - 1) - 1] = s[j + k - 1] /\ s[j + k - 1] = t[k]
  BY <1>3 DEF Holds
<1>5. \A k \in 1..Len(t) : b[(i + j - 1) + k - 1] = t[k]
  BY <1>3, <1>4
<1> QED
  BY <1>1, <1>2, <1>5 DEF Holds

LEMMA Cut ==
  ASSUME NEW b, Over(b), NEW i \in Nat, i >= 1, NEW s, Over(s), Holds(b, i, s)
  PROVE  SubSeq(b, i, i + Len(s) - 1) = s
<1>1. Len(s) \in Nat /\ Len(b) \in Nat /\ i + Len(s) <= Len(b) + 1
  BY LenProperties DEF Over, Holds
<1>2. \A k \in i..(i + Len(s) - 1) : b[k] \in Nat
  BY <1>1, ElementOfSeq DEF Over
<1>3. /\ SubSeq(b, i, i + Len(s) - 1) \in Seq(Nat)
      /\ Len(SubSeq(b, i, i + Len(s) - 1)) =
           IF i <= i + Len(s) - 1 THEN (i + Len(s) - 1) - i + 1 ELSE 0
      /\ \A k \in 1..((i + Len(s) - 1) - i + 1) :
           SubSeq(b, i, i + Len(s) - 1)[k] = b[i + k - 1]
  BY <1>1, <1>2, SubSeqProperties
<1>4. (i + Len(s) - 1) - i + 1 = Len(s)
  BY <1>1
<1>5. Len(SubSeq(b, i, i + Len(s) - 1)) = Len(s)
  BY <1>1, <1>3
<1>6. \A k \in 1..Len(s) : SubSeq(b, i, i + Len(s) - 1)[k] = s[k]
  BY <1>3, <1>4 DEF Holds
<1> QED
  BY <1>3, <1>5, <1>6, SeqEqual DEF Over

LEMMA Rest ==
  ASSUME NEW x, Over(x), NEW y, Over(y)
  PROVE  From(Then(x, y), Len(x) + 1) = y
<1>1. /\ Len(x) \in Nat /\ Len(y) \in Nat /\ Len(Then(x, y)) = Len(x) + Len(y)
      /\ Over(Then(x, y))
  BY Joined
<1>2. (Len(x) + 1) + Len(y) - 1 = Len(x) + Len(y) /\ Len(x) + 1 \in Nat /\ Len(x) + 1 >= 1
  BY <1>1
<1>3. SubSeq(Then(x, y), Len(x) + 1, (Len(x) + 1) + Len(y) - 1) = y
  BY <1>1, <1>2, Second, Cut
<1> QED
  BY <1>1, <1>2, <1>3 DEF From

-----------------------------------------------------------------------------
(* Numbers *)

LEMMA Digits ==
  /\ \A n \in Nat : n % 256 \in Nat /\ n \div 256 \in Nat /\ n % 65536 \in Nat /\ n \div 65536 \in Nat
  /\ \A n \in Nat : n % 65536 < 65536
  /\ \A n \in Nat : n < 65536 => (n % 256) + 256 * ((n \div 256) % 256) = n
  /\ \A n \in Nat : (n % 65536) + 65536 * (n \div 65536) = n
OBVIOUS

LEMMA Le16Is ==
  ASSUME NEW n \in Nat
  PROVE  /\ Over(Le16(n)) /\ Len(Le16(n)) = 2
         /\ Le16(n)[1] = n % 256 /\ Le16(n)[2] = (n \div 256) % 256
<1>1. n % 256 \in Nat /\ (n \div 256) % 256 \in Nat
  BY Digits
<1> QED
  BY <1>1 DEF Over, Le16

LEMMA Le32Is ==
  ASSUME NEW n \in Nat
  PROVE  /\ Over(Le32(n)) /\ Len(Le32(n)) = 4
         /\ Holds(Le32(n), 1, Le16(n % 65536)) /\ Holds(Le32(n), 3, Le16(n \div 65536))
<1> DEFINE low == Le16(n % 65536)
           high == Le16(n \div 65536)
<1>1. Over(low) /\ Len(low) = 2 /\ Over(high) /\ Len(high) = 2
  BY Digits, Le16Is
<1>2. Le32(n) = Then(low, high)
  BY DEF Le32, Then
<1> HIDE DEF low, high
<1>5. Over(Then(low, high)) /\ Len(Then(low, high)) = Len(low) + Len(high)
  BY <1>1, Joined
<1>3. Over(Then(low, high)) /\ Len(Then(low, high)) = 4
  BY <1>1, <1>5
<1>4. Holds(Then(low, high), 1, low) /\ Holds(Then(low, high), 2 + 1, high)
  BY <1>1, First, Second
<1> QED
  BY <1>2, <1>3, <1>4 DEF low, high

LEMMA Read16 ==
  ASSUME NEW n \in Nat, Fits16(n), NEW b, NEW i \in Nat, Holds(b, i, Le16(n))
  PROVE  Get16(b, i) = n
<1>4. Len(Le16(n)) = 2 /\ Le16(n)[1] = n % 256 /\ Le16(n)[2] = (n \div 256) % 256
  BY Le16Is
<1>1. b[i + 1 - 1] = n % 256 /\ b[i + 2 - 1] = (n \div 256) % 256
  BY <1>4 DEF Holds
<1>2. i + 1 - 1 = i /\ i + 2 - 1 = i + 1
  OBVIOUS
<1>3. b[i] = n % 256 /\ b[i + 1] = (n \div 256) % 256
  BY <1>1, <1>2
<1> QED
  BY <1>3, Digits DEF Get16, Fits16

LEMMA Read32 ==
  ASSUME NEW n \in Nat, Fits32(n), NEW b, Over(b), NEW i \in Nat, Holds(b, i, Le32(n))
  PROVE  Get32(b, i) = n
<1>1. Over(Le16(n % 65536)) /\ Over(Le16(n \div 65536))
  BY Digits, Le16Is
<1>2. Holds(b, i + 1 - 1, Le16(n % 65536)) /\ Holds(b, i + 3 - 1, Le16(n \div 65536))
  BY <1>1, Le32Is, Within
<1>3. i + 1 - 1 = i /\ i + 3 - 1 = i + 2
  OBVIOUS
<1>4. Get16(b, i) = n % 65536
  BY <1>2, <1>3, Digits, Read16 DEF Fits16
<1>5. Get16(b, i + 2) = n \div 65536
  BY <1>2, <1>3, Digits, Read16 DEF Fits16, Fits32
<1> QED
  BY <1>4, <1>5, Digits DEF Get32

LEMMA ZerosAre ==
  ASSUME NEW n \in Nat
  PROVE  Over(Zeros(n)) /\ Len(Zeros(n)) = n
BY DEF Over, Zeros

-----------------------------------------------------------------------------
(* Induction, and parts put one after another *)

LEMMA Induction ==
  ASSUME NEW S, S \subseteq Nat, 0 \in S, \A n \in S : n + 1 \in S
  PROVE  S = Nat
<1> SUFFICES ASSUME Nat \ S # {} PROVE FALSE
  OBVIOUS
<1> DEFINE Less == OpToRel(<, Nat)
           T == Nat \ S
<1>1. PICK m \in T : \A y \in T : ~(<<y, m>> \in Less)
  <2>1. IsWellFoundedOn(Less, Nat)
    BY NatLessThanWellFounded
  <2>2. T \subseteq Nat /\ T # {}
    OBVIOUS
  <2> HIDE DEF Less, T
  <2> QED
    BY <2>1, <2>2, WFMin
<1>2. m # 0 /\ m - 1 \in Nat
  OBVIOUS
<1>3. <<m - 1, m>> \in Less
  BY <1>2 DEF OpToRel
<1>4. m - 1 \in S
  BY <1>1, <1>2, <1>3
<1>5. (m - 1) + 1 \in S
  BY <1>4
<1> QED
  BY <1>5, <1>2

\* f[k] is the first k of seqs, one after another.
Parts(seqs, f) ==
  /\ f[0] = <<>>
  /\ \A k \in 1..Len(seqs) : f[k] = Then(f[k - 1], seqs[k])
  /\ \A k \in 0..Len(seqs) : Over(f[k])

\* The recursive function of FlattenSeq.
Flat(seqs, n, f) ==
  f = [i \in 1..n |-> IF i = 1 THEN seqs[i] ELSE f[i - 1] \o seqs[i]]

LEMMA FlatExists ==
  ASSUME NEW seqs
  PROVE  \A n \in Nat : \E f : Flat(seqs, n, f)
<1> DEFINE Good == {n \in Nat : \E f : Flat(seqs, n, f)}
<1>1. 0 \in Good
  <2> DEFINE f == [i \in 1..0 |-> seqs[i]]
  <2>1. Flat(seqs, 0, f)
    BY DEF Flat
  <2> QED
    BY <2>1
<1>2. ASSUME NEW n \in Good PROVE n + 1 \in Good
  <2>1. n \in Nat
    OBVIOUS
  <2>2. PICK f : Flat(seqs, n, f)
    OBVIOUS
  <2> DEFINE new == IF n = 0 THEN seqs[1] ELSE f[n] \o seqs[n + 1]
             g == [i \in 1..(n + 1) |-> IF i = n + 1 THEN new ELSE f[i]]
  <2>3. \A i \in 1..(n + 1) : g[i] = IF i = 1 THEN seqs[i] ELSE g[i - 1] \o seqs[i]
    <3> TAKE i \in 1..(n + 1)
    <3>1. CASE i \in 1..n
      <4>1. i # n + 1 /\ i \in 1..(n + 1) /\ (i # 1 => i - 1 \in 1..(n + 1) /\ i - 1 # n + 1)
        BY <2>1, <3>1
      <4>2. g[i] = f[i] /\ (i # 1 => g[i - 1] = f[i - 1])
        BY <4>1
      <4>3. f[i] = IF i = 1 THEN seqs[i] ELSE f[i - 1] \o seqs[i]
        BY <2>2, <3>1 DEF Flat
      <4> HIDE DEF g
      <4> QED
        BY <4>2, <4>3
    <3>2. CASE i = n + 1
      <4>1. g[i] = new
        BY <2>1, <3>2
      <4>2. CASE n = 0
        <5>1. i = 1 /\ new = seqs[1]
          BY <3>2, <4>2
        <5> HIDE DEF new, g
        <5> QED
          BY <4>1, <5>1
      <4>3. CASE n # 0
        <5>1. i # 1 /\ i - 1 = n /\ n \in 1..(n + 1) /\ n # n + 1
          BY <2>1, <3>2, <4>3
        <5>2. g[n] = f[n] /\ new = f[n] \o seqs[n + 1]
          BY <4>3, <5>1
        <5> HIDE DEF new, g
        <5> QED
          BY <3>2, <4>1, <5>1, <5>2
      <4> QED
        BY <4>2, <4>3
    <3> QED
      BY <2>1, <3>1, <3>2
  <2>4. Flat(seqs, n + 1, g)
    BY <2>3 DEF Flat
  <2> HIDE DEF g
  <2> QED
    BY <2>1, <2>4
<1>3. Good = Nat
  <2> HIDE DEF Good
  <2>1. Good \subseteq Nat
    BY DEF Good
  <2> QED
    BY <1>1, <1>2, <2>1, Induction
<1> QED
  BY <1>3

LEMMA NothingIs == Over(<<>>) /\ Len(<<>>) = 0 /\ \A s : Over(s) => Then(<<>>, s) = s
BY ConcatEmptySeq DEF Over, Then

LEMMA Flattened ==
  ASSUME NEW seqs, seqs \in Seq(Seq(Nat))
  PROVE  \E f : Parts(seqs, f) /\ FlattenSeq(seqs) = f[Len(seqs)]
<1> DEFINE N == Len(seqs)
<1>1. N \in Nat /\ \A k \in 1..N : Over(seqs[k])
  BY ElementOfSeq, LenProperties DEF Over
<1>2. PICK g : Flat(seqs, N, g)
  BY <1>1, FlatExists
<1> DEFINE h == CHOOSE x : Flat(seqs, N, x)
           f == [k \in 0..N |-> IF k = 0 THEN <<>> ELSE h[k]]
<1>3. Flat(seqs, N, h)
  BY <1>2
<1>4. FlattenSeq(seqs) = IF N = 0 THEN seqs ELSE h[N]
  BY DEF FlattenSeq, Flat
<1> HIDE DEF h
<1>5. \A k \in 1..N : h[k] = IF k = 1 THEN seqs[k] ELSE h[k - 1] \o seqs[k]
  BY <1>3 DEF Flat
<1>6. f[0] = <<>> /\ \A k \in 1..N : f[k] = h[k]
  BY <1>1
<1> HIDE DEF f
<1>7. \A k \in 1..N : f[k] = Then(f[k - 1], seqs[k])
  <2> TAKE k \in 1..N
  <2>1. CASE k = 1
    <3>1. f[k] = seqs[k] /\ f[k - 1] = <<>>
      BY <1>1, <1>5, <1>6, <2>1
    <3> QED
      BY <1>1, <3>1, NothingIs
  <2>2. CASE k # 1
    <3>1. k - 1 \in 1..N
      BY <1>1, <2>2
    <3>2. f[k] = h[k - 1] \o seqs[k] /\ f[k - 1] = h[k - 1]
      BY <1>5, <1>6, <2>2, <3>1
    <3> QED
      BY <3>2 DEF Then
  <2> QED
    BY <2>1, <2>2
<1>8. \A k \in 0..N : Over(f[k])
  <2> DEFINE Good == {k \in Nat : k <= N => Over(f[k])}
  <2>1. 0 \in Good
    BY <1>6, NothingIs
  <2>2. ASSUME NEW k \in Good PROVE k + 1 \in Good
    <3>1. CASE k + 1 <= N
      <4>3. k \in Nat /\ N \in Nat
        BY <1>1
      <4>1. k \in Nat /\ k <= N /\ k + 1 \in 1..N /\ (k + 1) - 1 = k
        BY <3>1, <4>3
      <4>2. f[k + 1] = Then(f[k], seqs[k + 1]) /\ Over(f[k]) /\ Over(seqs[k + 1])
        BY <1>1, <1>7, <4>1
      <4> QED
        BY <4>1, <4>2, Joined
    <3> QED
      BY <3>1
  <2> HIDE DEF Good
  <2>3. Good = Nat
    <3>1. Good \subseteq Nat
      BY DEF Good
    <3> QED
      BY <2>1, <2>2, <3>1, Induction
  <2> QED
    BY <1>1, <2>3 DEF Good
<1>9. FlattenSeq(seqs) = f[N]
  <2>1. CASE N = 0
    <3>1. seqs = <<>>
      BY <2>1, EmptySeq
    <3> QED
      BY <1>4, <1>6, <2>1, <3>1
  <2>2. CASE N # 0
    BY <1>1, <1>4, <1>6, <2>2
  <2> QED
    BY <2>1, <2>2
<1> QED
  BY <1>6, <1>7, <1>8, <1>9 DEF Parts

\* Each part stands where those before it end.
LEMMA Part ==
  ASSUME NEW seqs, Len(seqs) \in Nat, \A k \in 1..Len(seqs) : Over(seqs[k]),
         NEW f, Parts(seqs, f), NEW k \in 1..Len(seqs)
  PROVE  /\ Holds(f[Len(seqs)], Len(f[k - 1]) + 1, seqs[k])
         /\ Len(f[k]) = Len(f[k - 1]) + Len(seqs[k])
<1> DEFINE N == Len(seqs)
<1>1. k - 1 \in 0..N /\ Over(f[k - 1]) /\ Over(seqs[k]) /\ f[k] = Then(f[k - 1], seqs[k])
  BY DEF Parts
<1>2. Len(f[k - 1]) \in Nat /\ Len(f[k - 1]) + 1 \in Nat /\ Len(f[k - 1]) + 1 >= 1
  BY <1>1, LenProperties DEF Over
<1>3. Holds(f[k], Len(f[k - 1]) + 1, seqs[k])
  BY <1>1, Second
<1> DEFINE at == Len(f[k - 1]) + 1
           Good == {d \in Nat : k + d <= N => Holds(f[k + d], at, seqs[k])}
<1>4. 0 \in Good
  BY <1>3
<1>5. ASSUME NEW d \in Good PROVE d + 1 \in Good
  <2>1. CASE k + (d + 1) <= N
    <3>1. k + d \in 0..N /\ k + (d + 1) \in 1..N /\ k + (d + 1) - 1 = k + d /\ k + d <= N
      BY <2>1
    <3>2. /\ f[k + (d + 1)] = Then(f[k + d], seqs[k + (d + 1)])
          /\ Over(f[k + d]) /\ Over(seqs[k + (d + 1)])
      <4> DEFINE j == k + (d + 1)
      <4>1. j \in 1..N /\ j - 1 = k + d /\ k + d \in 0..N
        BY <3>1
      <4> HIDE DEF j
      <4>2. f[j] = Then(f[j - 1], seqs[j]) /\ Over(seqs[j])
        BY <4>1 DEF Parts
      <4>3. Over(f[k + d])
        BY <4>1 DEF Parts
      <4> QED
        BY <4>1, <4>2, <4>3 DEF j
    <3>3. Holds(f[k + d], at, seqs[k])
      BY <3>1
    <3> HIDE DEF at
    <3>4. at \in Nat /\ at >= 1
      BY <1>2 DEF at
    <3> QED
      BY <1>1, <3>2, <3>3, <3>4, Kept
  <2> QED
    BY <2>1
<1>6. Good = Nat
  <2> HIDE DEF Good
  <2>1. Good \subseteq Nat
    BY DEF Good
  <2> QED
    BY <1>4, <1>5, <2>1, Induction
<1>7. N - k \in Nat /\ k + (N - k) = N
  OBVIOUS
<1>8. Holds(f[N], at, seqs[k])
  <2>1. N - k \in Good
    BY <1>6, <1>7
  <2>2. k + (N - k) <= N => Holds(f[k + (N - k)], at, seqs[k])
    BY <2>1
  <2> HIDE DEF at
  <2> QED
    BY <1>7, <2>2
<1> QED
  BY <1>1, <1>8, Joined

-----------------------------------------------------------------------------
(* Items of a packet *)

ItemType(i) ==
  /\ i \in [type : Nat, data : Seq(Nat)]
  /\ Fits16(i.type) /\ Fits16(Len(i.data))

Coded(i) == Le16(i.type) \o Le16(Len(i.data)) \o i.data

LEMMA CodedIs ==
  ASSUME NEW i, ItemType(i)
  PROVE  /\ Over(Coded(i)) /\ Len(Coded(i)) = 4 + Len(i.data) /\ Len(i.data) \in Nat
         /\ Holds(Coded(i), 1, Le16(i.type))
         /\ Holds(Coded(i), 3, Le16(Len(i.data)))
         /\ Holds(Coded(i), 5, i.data)
<1> DEFINE a == Le16(i.type)
           b == Le16(Len(i.data))
<1>1. i.type \in Nat /\ Over(i.data) /\ Len(i.data) \in Nat
  BY LenProperties DEF ItemType, Over
<1>2. Over(a) /\ Len(a) = 2 /\ Over(b) /\ Len(b) = 2
  BY <1>1, Le16Is
<1>3. Coded(i) = Then(Then(a, b), i.data)
  BY DEF Coded, Then
<1> HIDE DEF a, b
<1>9. Over(Then(a, b)) /\ Len(Then(a, b)) = Len(a) + Len(b)
  BY <1>2, Joined
<1>4. Over(Then(a, b)) /\ Len(Then(a, b)) = 4
  BY <1>2, <1>9
<1>10. Over(Coded(i)) /\ Len(Coded(i)) = Len(Then(a, b)) + Len(i.data)
  BY ZenonT(60), <1>1, <1>3, <1>4, Joined
<1>5. Over(Coded(i)) /\ Len(Coded(i)) = 4 + Len(i.data)
  BY <1>4, <1>10
<1>11. Holds(Then(a, b), 1, a) /\ Holds(Then(a, b), Len(a) + 1, b)
  BY <1>2, First, Second
<1>6. Holds(Then(a, b), 1, a) /\ Holds(Then(a, b), 3, b)
  BY <1>2, <1>11
<1>7. Holds(Coded(i), 1, a) /\ Holds(Coded(i), 3, b)
  BY <1>1, <1>2, <1>3, <1>4, <1>6, Kept
<1>8. Holds(Coded(i), Len(Then(a, b)) + 1, i.data)
  BY <1>1, <1>3, <1>4, Second
<1>12. Holds(Coded(i), 5, i.data)
  BY <1>4, <1>8
<1> QED
  BY <1>1, <1>5, <1>7, <1>12 DEF a, b

\* The bytes of b are those of s from behind place p up to place m.
RestOf(b, s, p, m) ==
  /\ b \in Seq(Nat) /\ Len(b) = m - p
  /\ \A i \in 1..(m - p) : b[i] = s[p + i]

LEMMA RestFrom ==
  ASSUME NEW b, NEW s, NEW p \in Nat, NEW m \in Nat, NEW e \in Nat, p + e <= m, RestOf(b, s, p, m)
  PROVE  RestOf(From(b, e + 1), s, p + e, m)
<1>1. Len(b) = m - p /\ m - p \in Nat
  BY DEF RestOf
<1>2. \A i \in (e + 1)..(m - p) : b[i] \in Nat
  BY <1>1, ElementOfSeq DEF RestOf
<1>3. /\ SubSeq(b, e + 1, m - p) \in Seq(Nat)
      /\ Len(SubSeq(b, e + 1, m - p)) =
           IF e + 1 <= m - p THEN (m - p) - (e + 1) + 1 ELSE 0
      /\ \A i \in 1..((m - p) - (e + 1) + 1) :
           SubSeq(b, e + 1, m - p)[i] = b[(e + 1) + i - 1]
  BY <1>1, <1>2, SubSeqProperties
<1>4. (m - p) - (e + 1) + 1 = m - (p + e)
  BY <1>1
<1>5. \A i \in 1..(m - (p + e)) : (e + 1) + i - 1 = e + i /\ e + i \in 1..(m - p) /\ p + (e + i) = (p + e) + i
  BY <1>1
<1>6. \A i \in 1..(m - (p + e)) : SubSeq(b, e + 1, m - p)[i] = s[(p + e) + i]
  BY <1>3, <1>4, <1>5 DEF RestOf
<1>7. Len(SubSeq(b, e + 1, m - p)) = m - (p + e)
  BY <1>1, <1>3, <1>4
<1> QED
  BY <1>1, <1>3, <1>6, <1>7 DEF RestOf, From

LEMMA RestStart ==
  ASSUME NEW s, Over(s), NEW n \in Nat, n <= Len(s)
  PROVE  RestOf(SubSeq(s, 1, n), s, 0, n)
<1>1. \A i \in 1..n : s[i] \in Nat
  BY ElementOfSeq, LenProperties DEF Over
<1>2. /\ SubSeq(s, 1, n) \in Seq(Nat)
      /\ Len(SubSeq(s, 1, n)) = IF 1 <= n THEN n - 1 + 1 ELSE 0
      /\ \A i \in 1..(n - 1 + 1) : SubSeq(s, 1, n)[i] = s[1 + i - 1]
  BY <1>1, SubSeqProperties
<1>3. n - 1 + 1 = n /\ n - 0 = n /\ \A i \in 1..n : 1 + i - 1 = i /\ 0 + i = i
  OBVIOUS
<1> QED
  BY <1>2, <1>3 DEF RestOf

\* What the tail still has of a part of s.
LEMMA RestHolds ==
  ASSUME NEW b, NEW s, NEW p \in Nat, NEW m \in Nat, p <= m, RestOf(b, s, p, m),
         NEW c, Over(c), Holds(s, p + 1, c)
  PROVE  /\ \A i \in 1..Len(c) : i <= m - p => b[i] = c[i]
         /\ p + Len(c) <= m => Holds(b, 1, c)
<1>1. Len(c) \in Nat /\ \A i \in 1..Len(c) : (p + 1) + i - 1 = p + i /\ 1 + i - 1 = i
  BY LenProperties DEF Over
<1>2. \A i \in 1..Len(c) : i <= m - p => b[i] = c[i]
  <2> TAKE i \in 1..Len(c)
  <2> HAVE i <= m - p
  <2>1. i \in 1..(m - p)
    BY <1>1
  <2>2. b[i] = s[p + i]
    BY <2>1 DEF RestOf
  <2>3. s[(p + 1) + i - 1] = c[i]
    BY DEF Holds
  <2> QED
    BY <1>1, <2>2, <2>3
<1>3. ASSUME p + Len(c) <= m PROVE Holds(b, 1, c)
  <2>1. Len(b) = m - p /\ 1 + Len(c) <= (m - p) + 1
    BY <1>1, <1>3 DEF RestOf
  <2>2. \A i \in 1..Len(c) : b[1 + i - 1] = c[i]
    BY <1>1, <1>2, <1>3
  <2> QED
    BY <2>1, <2>2 DEF Holds
<1> QED
  BY <1>2, <1>3

\* After k rounds of NextItem on the first m bytes of the items: it stands
\* behind the j-th item, or it has met one that is cut.
Read(t, k, items, f, m) ==
  /\ t \in [ok : BOOLEAN, items : Seq([type : Nat, data : Seq(Nat)]), rest : Seq(Nat)]
  /\ ~t.ok => m < Len(f[Len(items)])
  /\ t.ok => \E j \in 0..Len(items) :
       /\ t.items = SubSeq(items, 1, j)
       /\ Len(f[j]) <= m /\ RestOf(t.rest, f[Len(items)], Len(f[j]), m)
       /\ j = k \/ Len(f[j]) = m

Items == [type : Nat, data : Seq(Nat)]
AllCoded(items) == [i \in DOMAIN items |-> Coded(items[i])]
ItemsType(items) == items \in Seq(Items) /\ \A i \in 1..Len(items) : ItemType(items[i])

LEMMA AllCodedIs ==
  ASSUME NEW items, ItemsType(items)
  PROVE  /\ Len(items) \in Nat /\ Len(AllCoded(items)) = Len(items)
         /\ AllCoded(items) \in Seq(Seq(Nat))
         /\ \A i \in 1..Len(items) : AllCoded(items)[i] = Coded(items[i]) /\ Over(AllCoded(items)[i])
<1>1. Len(items) \in Nat /\ DOMAIN items = 1..Len(items)
  BY LenProperties DEF ItemsType
<1>2. \A i \in 1..Len(items) : Coded(items[i]) \in Seq(Nat)
  BY CodedIs DEF ItemsType, Over
<1>3. AllCoded(items) = [i \in 1..Len(items) |-> Coded(items[i])]
  BY <1>1 DEF AllCoded
<1> QED
  BY <1>1, <1>2, <1>3 DEF Over

\* The bytes of the first items; m of them have arrived.
Arrived(items, f, m) ==
  /\ ItemsType(items) /\ Parts(AllCoded(items), f)
  /\ m \in Nat /\ m <= Len(f[Len(items)])

LEMMA PartAt ==
  ASSUME NEW items, NEW f, NEW m, Arrived(items, f, m), NEW k \in 1..Len(items)
  PROVE  /\ Over(f[Len(items)]) /\ Len(f[Len(items)]) \in Nat /\ Len(f[k - 1]) \in Nat
         /\ Holds(f[Len(items)], Len(f[k - 1]) + 1, Coded(items[k]))
         /\ Len(f[k]) = Len(f[k - 1]) + Len(Coded(items[k]))
         /\ Len(f[k]) <= Len(f[Len(items)])
<1>1. /\ Len(items) \in Nat /\ Len(AllCoded(items)) = Len(items)
      /\ \A i \in 1..Len(items) : AllCoded(items)[i] = Coded(items[i]) /\ Over(AllCoded(items)[i])
  BY AllCodedIs DEF Arrived
<1>2. /\ Holds(f[Len(items)], Len(f[k - 1]) + 1, AllCoded(items)[k])
      /\ Len(f[k]) = Len(f[k - 1]) + Len(AllCoded(items)[k])
  BY <1>1, Part DEF Arrived
<1>3. Len(items) \in 0..Len(items) /\ k - 1 \in 0..Len(items)
  BY <1>1
<1>4. Over(f[Len(items)]) /\ Over(f[k - 1])
  BY <1>1, <1>3 DEF Parts, Arrived
<1>5. Len(f[Len(items)]) \in Nat /\ Len(f[k - 1]) \in Nat
  BY <1>4, LenProperties DEF Over
<1>6. ItemType(items[k]) /\ Len(Coded(items[k])) \in Nat
  BY CodedIs, LenProperties DEF Arrived, ItemsType, Over
<1>7. Len(f[k]) <= Len(f[Len(items)])
  <2>1. Len(AllCoded(items)[k]) \in Nat
    BY <1>1, <1>6
  <2>2. (Len(f[k - 1]) + 1) + Len(AllCoded(items)[k]) <= Len(f[Len(items)]) + 1
    BY <1>2 DEF Holds
  <2>3. Len(f[k]) = Len(f[k - 1]) + Len(AllCoded(items)[k])
    BY <1>2
  <2> DEFINE x == Len(f[k - 1])
             y == Len(AllCoded(items)[k])
             z == Len(f[Len(items)])
  <2>4. x \in Nat /\ y \in Nat /\ z \in Nat /\ (x + 1) + y <= z + 1 /\ Len(f[k]) = x + y
    BY <1>5, <2>1, <2>2, <2>3
  <2> HIDE DEF x, y, z
  <2>5. x + y <= z
    BY <2>4
  <2> QED
    BY <2>4, <2>5 DEF z
<1> QED
  BY <1>1, <1>2, <1>4, <1>5, <1>7

LEMMA AppendNext ==
  ASSUME NEW S, NEW s \in Seq(S), NEW k \in Nat, k < Len(s)
  PROVE  Append(SubSeq(s, 1, k), s[k + 1]) = SubSeq(s, 1, k + 1)
<1>1. Len(s) \in Nat /\ \A i \in 1..(k + 1) : s[i] \in S
  BY LenProperties, ElementOfSeq
<1>2. /\ SubSeq(s, 1, k) \in Seq(S)
      /\ Len(SubSeq(s, 1, k)) = IF 1 <= k THEN k - 1 + 1 ELSE 0
      /\ \A i \in 1..(k - 1 + 1) : SubSeq(s, 1, k)[i] = s[1 + i - 1]
  BY <1>1, SubSeqProperties
<1>3. /\ SubSeq(s, 1, k + 1) \in Seq(S)
      /\ Len(SubSeq(s, 1, k + 1)) = IF 1 <= k + 1 THEN (k + 1) - 1 + 1 ELSE 0
      /\ \A i \in 1..((k + 1) - 1 + 1) : SubSeq(s, 1, k + 1)[i] = s[1 + i - 1]
  BY <1>1, SubSeqProperties
<1>4. k - 1 + 1 = k /\ (k + 1) - 1 + 1 = k + 1 /\ \A i \in 1..(k + 1) : 1 + i - 1 = i
  OBVIOUS
<1>5. Len(SubSeq(s, 1, k)) = k /\ \A i \in 1..k : SubSeq(s, 1, k)[i] = s[i]
  BY <1>2, <1>4
<1>6. Len(SubSeq(s, 1, k + 1)) = k + 1 /\ \A i \in 1..(k + 1) : SubSeq(s, 1, k + 1)[i] = s[i]
  BY <1>3, <1>4
<1> DEFINE a == SubSeq(s, 1, k)
           b == SubSeq(s, 1, k + 1)
<1>7. s[k + 1] \in S
  BY <1>1
<1> HIDE DEF a, b
<1>8. /\ Append(a, s[k + 1]) \in Seq(S) /\ Len(Append(a, s[k + 1])) = k + 1
      /\ \A i \in 1..k : Append(a, s[k + 1])[i] = a[i]
      /\ Append(a, s[k + 1])[k + 1] = s[k + 1]
  BY <1>2, <1>5, <1>7, AppendProperties DEF a
<1>9. \A i \in 1..(k + 1) : Append(a, s[k + 1])[i] = b[i]
  BY <1>5, <1>6, <1>8 DEF a, b
<1>10. b \in Seq(S) /\ Len(b) = k + 1
  BY <1>3, <1>6 DEF b
<1>11. Append(a, s[k + 1]) = b
  BY <1>8, <1>9, <1>10, SeqEqual
<1> QED
  BY <1>11 DEF a, b

LEMMA NextItemReads ==
  ASSUME NEW items, NEW f, NEW m, Arrived(items, f, m),
         NEW k \in Nat, k < Len(items), NEW t, Read(t, k, items, f, m)
  PROVE  Read(NextItem(t), k + 1, items, f, m)
<1> DEFINE N == Len(items)
           b == t.rest
           end == 4 + Get16(b, 3)
<1>1. N \in Nat /\ items \in Seq(Items) /\ m \in Nat /\ m <= Len(f[N])
  BY AllCodedIs DEF Arrived, ItemsType
<1>2. t \in [ok : BOOLEAN, items : Seq(Items), rest : Seq(Nat)]
  BY DEF Read, Items
<1>3. CASE ~t.ok
  <2>1. NextItem(t) = t
    BY <1>3 DEF NextItem
  <2> QED
    BY <1>3, <2>1 DEF Read
<1>4. CASE t.ok
  <2>1. PICK j \in 0..N : /\ t.items = SubSeq(items, 1, j)
                          /\ Len(f[j]) <= m /\ RestOf(b, f[N], Len(f[j]), m)
                          /\ j = k \/ Len(f[j]) = m
    BY <1>4 DEF Read
  <2>2. Over(f[j]) /\ Len(f[j]) \in Nat
    <3>1. Over(f[j])
      BY AllCodedIs DEF Arrived, Parts
    <3> QED
      BY <3>1, LenProperties DEF Over
  <2>3. CASE b = <<>>
    <3>1. NextItem(t) = t
      BY <2>3 DEF NextItem
    <3>2. Len(f[j]) = m
      BY <1>1, <2>1, <2>2, <2>3 DEF RestOf
    <3>3. \E i \in 0..N :
            /\ t.items = SubSeq(items, 1, i)
            /\ Len(f[i]) <= m /\ RestOf(t.rest, f[N], Len(f[i]), m)
            /\ i = k + 1 \/ Len(f[i]) = m
      BY <2>1, <3>2
    <3> QED
      BY <1>4, <3>1, <3>3 DEF Read
  <2>4. CASE b # <<>>
    <3> DEFINE p == Len(f[j])
               i == items[k + 1]
               c == Coded(i)
    <3>1. Len(b) = m - p /\ b \in Seq(Nat) /\ Len(b) # 0
      BY <2>1, <2>4, EmptySeq DEF RestOf
    <3>2. j = k
      BY <1>1, <2>1, <2>2, <3>1
    <3>3. k + 1 \in 1..N /\ (k + 1) - 1 = k
      BY <1>1
    <3>4. /\ Over(f[N]) /\ Len(f[N]) \in Nat
          /\ Holds(f[N], p + 1, c) /\ Len(f[k + 1]) = p + Len(c)
          /\ Len(f[k + 1]) <= Len(f[N])
      BY <3>2, <3>3, PartAt
    <3>5. ItemType(i) /\ i \in Items
      BY <3>3, ElementOfSeq, <1>1 DEF Arrived, ItemsType
    <3>6. /\ Over(c) /\ Len(c) = 4 + Len(i.data) /\ Len(i.data) \in Nat
          /\ Holds(c, 1, Le16(i.type)) /\ Holds(c, 3, Le16(Len(i.data)))
          /\ Holds(c, 5, i.data)
      BY <3>5, CodedIs
    <3> HIDE DEF c
    <3>7. /\ \A x \in 1..Len(c) : x <= m - p => b[x] = c[x]
          /\ p + Len(c) <= m => Holds(b, 1, c)
      BY <1>1, <2>1, <2>2, <3>4, <3>6, RestHolds
    <3>10. /\ m \in Nat /\ p \in Nat /\ p <= m /\ m <= Len(f[N]) /\ Len(f[N]) \in Nat
           /\ p + Len(c) <= Len(f[N])
      BY <1>1, <2>1, <2>2, <3>4
    <3>11. Len(c) \in Nat /\ Len(c) = 4 + Len(i.data) /\ Len(i.data) \in Nat /\ Len(b) = m - p
      BY <3>1, <3>6
    <3> HIDE DEF p, b
    <3>8. CASE Len(b) < 4
      <4>1. NextItem(t) = [t EXCEPT !.ok = FALSE]
        BY <1>4, <2>4, <3>8 DEF NextItem, b
      <4>2. m < Len(f[N])
        BY <3>8, <3>10, <3>11
      <4> QED
        BY <1>2, <4>1, <4>2 DEF Read, Items
    <3>9. CASE ~(Len(b) < 4)
      <4>1. Get16(b, 3) = Len(i.data)
        <5>1. b[3] = c[3] /\ b[4] = c[4]
          <6>1. 3 \in 1..Len(c) /\ 4 \in 1..Len(c) /\ 3 <= m - p /\ 4 <= m - p
            BY <3>9, <3>10, <3>11
          <6> QED
            BY <3>7, <6>1
        <5>2. Get16(b, 3) = Get16(c, 3)
          BY <5>1 DEF Get16
        <5>3. Get16(c, 3) = Len(i.data)
          BY <3>5, <3>6, Read16 DEF ItemType
        <5> QED
          BY <5>2, <5>3
      <4>2. end = Len(c)
        BY <3>6, <4>1
      <4>3. CASE Len(b) < end
        <5>1. NextItem(t) = [t EXCEPT !.ok = FALSE]
          BY <1>4, <2>4, <3>9, <4>3 DEF NextItem, b
        <5>2. m < Len(f[N])
          BY <3>10, <3>11, <4>2, <4>3
        <5> QED
          BY <1>2, <5>1, <5>2 DEF Read, Items
      <4>4. CASE ~(Len(b) < end)
        <5> DEFINE new == Item(Get16(b, 1), SubSeq(b, 5, end))
                   rest == From(b, end + 1)
        <5>1. NextItem(t) = [t EXCEPT !.items = Append(@, new), !.rest = rest]
          BY <1>4, <2>4, <3>9, <4>4 DEF NextItem, b
        <5>2. p + Len(c) <= m /\ Holds(b, 1, c)
          <6>1. p + Len(c) <= m
            BY <3>10, <3>11, <4>2, <4>4
          <6> QED
            BY <3>7, <6>1
        <5>3. Get16(b, 1) = i.type
          <6>3. i.type \in Nat /\ Fits16(i.type)
            BY <3>5 DEF ItemType
          <6>5. i.type \in Nat
            BY <6>3
          <6>4. Over(Le16(i.type))
            BY <6>5, Le16Is
          <6>1. Over(Le16(i.type)) /\ i.type \in Nat /\ Fits16(i.type)
            BY <6>3, <6>4
          <6>2. Holds(b, 1 + 1 - 1, Le16(i.type))
            BY <3>1, <3>6, <5>2, <6>1, Within DEF Over
          <6> QED
            BY <6>1, <6>2, Read16
        <5>4. SubSeq(b, 5, end) = i.data
          <6>1. Over(i.data)
            BY <3>5 DEF ItemType, Over
          <6>2. Holds(b, 1 + 5 - 1, i.data)
            BY <3>1, <3>6, <5>2, <6>1, Within DEF Over
          <6>3. SubSeq(b, 5, 5 + Len(i.data) - 1) = i.data
            <7>1. Over(b) /\ Holds(b, 5, i.data)
              BY <3>1, <6>2 DEF Over
            <7>2. 5 \in Nat /\ 5 >= 1
              OBVIOUS
            <7> QED
              BY <6>1, <7>1, <7>2, Cut
          <6>4. 5 + Len(i.data) - 1 = end
            BY <3>6, <4>2
          <6> QED
            BY <6>3, <6>4
        <5>5. new = i
          BY <3>5, <5>3, <5>4 DEF Item, Items
        <5>6. RestOf(rest, f[N], p + Len(c), m)
          <6>1. RestOf(b, f[N], p, m)
            BY <2>1 DEF p, b
          <6> QED
            BY <3>10, <3>11, <4>2, <5>2, <6>1, RestFrom
        <5>7. Append(t.items, new) = SubSeq(items, 1, k + 1)
          BY <1>1, <2>1, <3>2, <5>5, AppendNext
        <5>8. Append(t.items, new) \in Seq(Items)
          BY <1>2, <3>5, <5>5, AppendProperties
        <5>9. rest \in Seq(Nat)
          BY <5>6 DEF RestOf
        <5> HIDE DEF new, rest, end, b
        <5>10. /\ NextItem(t) \in [ok : BOOLEAN, items : Seq(Items), rest : Seq(Nat)]
               /\ NextItem(t).ok = TRUE
               /\ NextItem(t).items = SubSeq(items, 1, k + 1) /\ NextItem(t).rest = rest
          BY <1>2, <1>4, <5>1, <5>7, <5>8, <5>9
        <5>11. \E x \in 0..N :
                 /\ NextItem(t).items = SubSeq(items, 1, x)
                 /\ Len(f[x]) <= m /\ RestOf(NextItem(t).rest, f[N], Len(f[x]), m)
                 /\ x = k + 1 \/ Len(f[x]) = m
          <6>1. k + 1 \in 0..N
            BY <3>3
          <6> QED
            BY <3>4, <5>2, <5>6, <5>10, <6>1
        <5> QED
          BY <5>10, <5>11 DEF Read, Items
      <4> QED
        BY <4>3, <4>4
    <3> QED
      BY <3>8, <3>9
  <2> QED
    BY <2>3, <2>4
<1> QED
  BY <1>3, <1>4


\* The recursive function of Rounds exists.
ItemLoop(start, n, f) == f = [k \in 0..n |-> IF k = 0 THEN start ELSE NextItem(f[k - 1])]

LEMMA ItemRounds ==
  ASSUME NEW start
  PROVE  \A n \in Nat : \E f : ItemLoop(start, n, f)
<1> DEFINE Good == {n \in Nat : \E f : ItemLoop(start, n, f)}
<1>1. 0 \in Good
  <2> DEFINE f == [k \in 0..0 |-> start]
  <2>1. ItemLoop(start, 0, f)
    BY DEF ItemLoop
  <2> QED
    BY <2>1
<1>2. ASSUME NEW n \in Good PROVE n + 1 \in Good
  <2>1. n \in Nat
    OBVIOUS
  <2>2. PICK f : ItemLoop(start, n, f)
    OBVIOUS
  <2> DEFINE g == [k \in 0..(n + 1) |-> IF k = n + 1 THEN NextItem(f[n]) ELSE f[k]]
  <2>3. \A k \in 0..(n + 1) : g[k] = IF k = 0 THEN start ELSE NextItem(g[k - 1])
    <3> TAKE k \in 0..(n + 1)
    <3>1. CASE k = 0
      BY <2>1, <2>2, <3>1 DEF ItemLoop
    <3>2. CASE k \in 1..n
      <4>1. k \in 0..n /\ k - 1 \in 0..n /\ k # n + 1 /\ k - 1 # n + 1 /\ k # 0
        BY <2>1, <3>2
      <4>2. g[k] = f[k] /\ g[k - 1] = f[k - 1]
        BY <2>1, <4>1
      <4>3. f[k] = NextItem(f[k - 1])
        BY <2>2, <4>1 DEF ItemLoop
      <4> QED
        BY <4>1, <4>2, <4>3
    <3>3. CASE k = n + 1
      <4>1. g[k] = NextItem(f[n]) /\ g[n] = f[n] /\ k - 1 = n /\ k # 0
        BY <2>1, <3>3
      <4> QED
        BY <4>1
    <3> QED
      BY <2>1, <3>1, <3>2, <3>3
  <2>4. ItemLoop(start, n + 1, g)
    BY <2>3 DEF ItemLoop
  <2> HIDE DEF g
  <2> QED
    BY <2>1, <2>4
<1>3. Good = Nat
  <2> HIDE DEF Good
  <2>1. Good \subseteq Nat
    BY DEF Good
  <2> QED
    BY <1>1, <1>2, <2>1, Induction
<1> QED
  BY <1>3

LEMMA ItemRoundsSteps ==
  ASSUME NEW start, NEW n \in Nat
  PROVE  \E f : /\ f[0] = start /\ \A k \in 1..n : f[k] = NextItem(f[k - 1])
                /\ Rounds(n, NextItem, start) = f[n]
<1> DEFINE f == CHOOSE x : ItemLoop(start, n, x)
<1>1. ItemLoop(start, n, f)
  BY ItemRounds
<1>2. Rounds(n, NextItem, start) = f[n]
  BY DEF Rounds, ItemLoop
<1> HIDE DEF f
<1>3. f[0] = start /\ \A k \in 1..n : f[k] = NextItem(f[k - 1])
  BY <1>1 DEF ItemLoop
<1> QED
  BY <1>2, <1>3


\* What a reader makes of the first m bytes of the items.
Found(d, items, f, m) ==
  \/ d = Err /\ m < Len(f[Len(items)])
  \/ \E j \in 0..Len(items) :
       /\ d = [ok |-> TRUE, items |-> SubSeq(items, 1, j)]
       /\ Len(f[j]) <= m
       /\ j = Len(items) \/ Len(f[j]) = m

LEMMA ItemsRead ==
  ASSUME NEW items, NEW f, NEW m, Arrived(items, f, m),
         NEW b, RestOf(b, f[Len(items)], 0, m)
  PROVE  Found(TakeItems(Len(items), b), items, f, m)
<1> DEFINE N == Len(items)
           start == [ok |-> TRUE, items |-> <<>>, rest |-> b]
<1>1. N \in Nat /\ items \in Seq(Items)
  BY AllCodedIs DEF Arrived, ItemsType
<1>2. PICK g : /\ g[0] = start /\ \A k \in 1..N : g[k] = NextItem(g[k - 1])
               /\ Rounds(N, NextItem, start) = g[N]
  BY <1>1, ItemRoundsSteps
<1>3. TakeItems(N, b) = IF g[N].ok THEN [ok |-> TRUE, items |-> g[N].items] ELSE Err
  BY <1>2 DEF TakeItems
<1>4. Read(g[0], 0, items, f, m)
  <2>1. f[0] = <<>> /\ Len(f[0]) = 0 /\ m \in Nat
    BY DEF Arrived, Parts
  <2>2. SubSeq(items, 1, 0) = <<>>
    BY <1>1
  <2>3. b \in Seq(Nat) /\ <<>> \in Seq(Items)
    BY DEF RestOf
  <2>4. /\ g[0] \in [ok : BOOLEAN, items : Seq(Items), rest : Seq(Nat)]
        /\ g[0].ok = TRUE /\ g[0].items = <<>> /\ g[0].rest = b
    BY <1>2, <2>3
  <2>5. 0 \in 0..N
    BY <1>1
  <2> QED
    BY SMTT(60), <2>1, <2>2, <2>4, <2>5 DEF Read, Items
<1> DEFINE Good == {k \in Nat : k <= N => Read(g[k], k, items, f, m)}
<1>5. 0 \in Good
  BY <1>4
<1>6. ASSUME NEW k \in Good PROVE k + 1 \in Good
  <2>1. CASE k + 1 <= N
    <3>1. k \in Nat /\ N \in Nat
      BY <1>1
    <3>2. k <= N /\ k < N /\ k + 1 \in 1..N /\ (k + 1) - 1 = k
      BY <2>1, <3>1
    <3>3. Read(g[k], k, items, f, m)
      BY <3>2
    <3>4. g[k + 1] = NextItem(g[k])
      BY <1>2, <3>2
    <3>5. Read(g[k + 1], k + 1, items, f, m)
      BY <3>1, <3>2, <3>3, <3>4, NextItemReads
    <3> QED
      BY <3>1, <3>5
  <2> QED
    BY <2>1
<1>7. Good = Nat
  <2> HIDE DEF Good
  <2>1. Good \subseteq Nat
    BY DEF Good
  <2> QED
    BY <1>5, <1>6, <2>1, Induction
<1>8. Read(g[N], N, items, f, m)
  <2>1. N \in Good
    BY <1>1, <1>7
  <2>2. N <= N => Read(g[N], N, items, f, m)
    BY <2>1
  <2> QED
    BY <1>1, <2>2
<1>9. CASE ~g[N].ok
  <2>1. TakeItems(N, b) = Err /\ m < Len(f[N])
    BY <1>3, <1>8, <1>9 DEF Read
  <2> QED
    BY <2>1 DEF Found
<1>10. CASE g[N].ok
  <2>1. PICK j \in 0..N : /\ g[N].items = SubSeq(items, 1, j)
                          /\ Len(f[j]) <= m
                          /\ j = N \/ Len(f[j]) = m
    BY <1>8, <1>10 DEF Read
  <2>2. TakeItems(N, b) = [ok |-> TRUE, items |-> SubSeq(items, 1, j)]
    BY <1>3, <1>10, <2>1
  <2> QED
    BY <2>1, <2>2 DEF Found
<1> QED
  BY <1>9, <1>10

\* All of the items and their count, of which the first n bytes have come.
LEMMA PacketRead ==
  ASSUME NEW items, ItemsType(items), Fits16(Len(items))
  PROVE  \E f : /\ Parts(AllCoded(items), f)
                /\ Over(CommonPacket(items))
                /\ Len(CommonPacket(items)) = 2 + Len(f[Len(items)])
                /\ \A j \in 0..Len(items) : Len(f[j]) \in Nat
                /\ \A n \in 0..Len(CommonPacket(items)) : \A b :
                     RestOf(b, CommonPacket(items), 0, n) =>
                       IF n < 2 THEN DecodeCommonPacket(b) = Err
                       ELSE Found(DecodeCommonPacket(b), items, f, n - 2)
<1> DEFINE N == Len(items)
           count == Le16(N)
           cp == CommonPacket(items)
<1>1. /\ N \in Nat /\ Len(AllCoded(items)) = N /\ AllCoded(items) \in Seq(Seq(Nat))
  BY AllCodedIs
<1>2. PICK f : Parts(AllCoded(items), f) /\ FlattenSeq(AllCoded(items)) = f[N]
  BY <1>1, Flattened
<1>3. cp = Then(count, f[N])
  <2>1. cp = count \o FlattenSeq(AllCoded(items))
    BY DEF CommonPacket, AllCoded, Coded
  <2> QED
    BY <1>2, <2>1 DEF Then
<1>4. Over(count) /\ Len(count) = 2
  BY <1>1, Le16Is
<1>5. \A j \in 0..N : Over(f[j]) /\ Len(f[j]) \in Nat
  BY <1>1, <1>2, LenProperties DEF Parts, Over
<1>6. Over(f[N]) /\ Len(f[N]) \in Nat
  BY <1>1, <1>5
<1> HIDE DEF cp, count
<1>7. Over(cp) /\ Len(cp) = Len(count) + Len(f[N])
  BY <1>3, <1>4, <1>6, Joined
<1>8. Holds(cp, 1, count) /\ Holds(cp, Len(count) + 1, f[N])
  BY <1>3, <1>4, <1>6, First, Second
<1>9. Len(cp) = 2 + Len(f[N])
  BY <1>4, <1>7
<1>10. ASSUME NEW n \in 0..Len(cp), NEW b, RestOf(b, cp, 0, n)
       PROVE  IF n < 2 THEN DecodeCommonPacket(b) = Err
              ELSE Found(DecodeCommonPacket(b), items, f, n - 2)
  <2>1. n \in Nat /\ n <= 2 + Len(f[N]) /\ Len(b) = n /\ b \in Seq(Nat)
    BY <1>6, <1>9, <1>10 DEF RestOf
  <2>2. CASE n < 2
    BY <2>1, <2>2 DEF DecodeCommonPacket
  <2>3. CASE ~(n < 2)
    <3>1. 2 <= n /\ n - 2 \in Nat /\ n - 2 <= Len(f[N]) /\ 0 + 2 <= n
      BY <1>6, <2>1, <2>3
    <3>2. Holds(b, 1, count)
      <4>1. Holds(cp, 0 + 1, count) /\ 0 + Len(count) <= n /\ 0 <= n /\ 0 \in Nat
        BY <1>4, <1>8, <3>1
      <4>2. n \in Nat /\ RestOf(b, cp, 0, n)
        BY <1>10, <2>1
      <4> QED
        BY <1>4, <4>1, <4>2, RestHolds
    <3>3. Get16(b, 1) = N
      BY <1>1, <3>2, Read16 DEF count
    <3>4. RestOf(From(b, 3), cp, 2, n)
      <4>1. RestOf(From(b, 2 + 1), cp, 0 + 2, n)
        <5>1. 0 \in Nat /\ 2 \in Nat /\ n \in Nat /\ 0 + 2 <= n /\ RestOf(b, cp, 0, n)
          BY <1>10, <2>1, <3>1
        <5> QED
          BY <5>1, RestFrom
      <4> QED
        BY <4>1
    <3>5. RestOf(From(b, 3), f[N], 0, n - 2)
      <4>1. /\ From(b, 3) \in Seq(Nat) /\ Len(From(b, 3)) = n - 2
            /\ \A i \in 1..(n - 2) : From(b, 3)[i] = cp[2 + i]
        BY <3>4 DEF RestOf
      <4>2. \A i \in 1..Len(f[N]) : cp[(2 + 1) + i - 1] = f[N][i]
        BY <1>4, <1>8 DEF Holds
      <4>3. \A i \in 1..(n - 2) : i \in 1..Len(f[N]) /\ (2 + 1) + i - 1 = 2 + i /\ 0 + i = i
        BY <1>6, <2>1, <3>1
      <4>4. \A i \in 1..(n - 2) : From(b, 3)[i] = f[N][0 + i]
        BY <4>1, <4>2, <4>3
      <4>5. (n - 2) - 0 = n - 2
        BY <3>1
      <4> QED
        BY <4>1, <4>4, <4>5 DEF RestOf
    <3>6. Arrived(items, f, n - 2)
      BY <1>2, <3>1 DEF Arrived
    <3>7. DecodeCommonPacket(b) = TakeItems(N, From(b, 3))
      BY <2>1, <2>3, <3>3 DEF DecodeCommonPacket
    <3>8. Found(TakeItems(N, From(b, 3)), items, f, n - 2)
      BY <3>5, <3>6, ItemsRead
    <3> QED
      BY <2>3, <3>7, <3>8
  <2> QED
    BY <2>2, <2>3
<1> QED
  BY <1>2, <1>5, <1>7, <1>9, <1>10 DEF cp


-----------------------------------------------------------------------------
(* The encapsulation header *)

\* Where each of some parts begins in all of them.
Row(seqs, f) ==
  /\ f[0] = <<>> /\ Len(f[0]) = 0 /\ Over(f[Len(seqs)])
  /\ \A k \in 1..Len(seqs) : /\ f[k] = Then(f[k - 1], seqs[k])
                             /\ Len(f[k]) = Len(f[k - 1]) + Len(seqs[k])
                             /\ Holds(f[Len(seqs)], Len(f[k - 1]) + 1, seqs[k])

LEMMA RowExists ==
  ASSUME NEW seqs, seqs \in Seq(Seq(Nat))
  PROVE  \E f : Row(seqs, f)
<1>1. Len(seqs) \in Nat /\ \A k \in 1..Len(seqs) : Over(seqs[k])
  BY LenProperties, ElementOfSeq DEF Over
<1>2. PICK f : Parts(seqs, f)
  BY Flattened
<1>3. f[0] = <<>> /\ Len(f[0]) = 0 /\ Over(f[Len(seqs)])
  BY <1>1, <1>2 DEF Parts
<1>4. \A k \in 1..Len(seqs) : /\ f[k] = Then(f[k - 1], seqs[k])
                              /\ Len(f[k]) = Len(f[k - 1]) + Len(seqs[k])
                              /\ Holds(f[Len(seqs)], Len(f[k - 1]) + 1, seqs[k])
  BY <1>1, <1>2, Part DEF Parts
<1> QED
  BY <1>3, <1>4 DEF Row

\* The fields of a header that fit.
HeaderType(command, handle, status, data) ==
  /\ command \in Nat /\ Fits16(command)
  /\ handle \in Nat /\ Fits32(handle) /\ status \in Nat /\ Fits32(status)
  /\ Over(data) /\ Fits16(Len(data))

LEMMA HeaderIs ==
  ASSUME NEW command, NEW handle, NEW status, NEW data,
         HeaderType(command, handle, status, data)
  PROVE  LET e == Encaps(command, handle, status, data)
         IN  /\ Over(e) /\ Len(data) \in Nat /\ Len(e) = HEADER_SIZE + Len(data)
             /\ Get16(e, 1) = command /\ Get16(e, 3) = Len(data)
             /\ Get32(e, 5) = handle /\ Get32(e, 9) = status
             /\ From(e, HEADER_SIZE + 1) = data
<1> DEFINE e == Encaps(command, handle, status, data)
           p1 == Le16(command)
           p2 == Le16(Len(data))
           p3 == Le32(handle)
           p4 == Le32(status)
           p5 == Zeros(12)
           seqs == <<p1, p2, p3, p4, p5, data>>
<1>1. /\ command \in Nat /\ handle \in Nat /\ status \in Nat /\ Len(data) \in Nat
      /\ Over(data)
  BY LenProperties DEF HeaderType, Over
<1>2. /\ Over(p1) /\ Len(p1) = 2 /\ Over(p2) /\ Len(p2) = 2
      /\ Over(p3) /\ Len(p3) = 4 /\ Over(p4) /\ Len(p4) = 4
      /\ Over(p5) /\ Len(p5) = 12
  <2>1. Over(p1) /\ Len(p1) = 2
    BY <1>1, Le16Is
  <2>2. Over(p2) /\ Len(p2) = 2
    BY <1>1, Le16Is
  <2>3. Over(p3) /\ Len(p3) = 4
    BY <1>1, Le32Is
  <2>4. Over(p4) /\ Len(p4) = 4
    BY <1>1, Le32Is
  <2>5. Over(p5) /\ Len(p5) = 12
    BY ZerosAre
  <2> HIDE DEF p1, p2, p3, p4, p5
  <2> QED
    BY <2>1, <2>2, <2>3, <2>4, <2>5
<1>3. e = Then(Then(Then(Then(Then(p1, p2), p3), p4), p5), data)
  BY DEF Encaps, Then
<1> HIDE DEF e, p1, p2, p3, p4, p5
<1>4. seqs \in Seq(Seq(Nat)) /\ Len(seqs) = 6
  BY <1>1, <1>2 DEF Over
<1>5. /\ seqs[1] = p1 /\ seqs[2] = p2 /\ seqs[3] = p3 /\ seqs[4] = p4 /\ seqs[5] = p5
      /\ seqs[6] = data
  OBVIOUS
<1> HIDE DEF seqs
<1>6. PICK f : Row(seqs, f)
  BY <1>4, RowExists
<1>20. /\ 1 \in 1..Len(seqs) /\ 2 \in 1..Len(seqs) /\ 3 \in 1..Len(seqs)
       /\ 4 \in 1..Len(seqs) /\ 5 \in 1..Len(seqs) /\ 6 \in 1..Len(seqs)
       /\ 1 - 1 = 0 /\ 2 - 1 = 1 /\ 3 - 1 = 2 /\ 4 - 1 = 3 /\ 5 - 1 = 4 /\ 6 - 1 = 5
  BY <1>4
<1>21. \A k \in 1..Len(seqs) : f[k] = Then(f[k - 1], seqs[k])
  BY <1>6 DEF Row
<1>7. /\ f[1] = Then(f[0], p1) /\ f[2] = Then(f[1], p2) /\ f[3] = Then(f[2], p3)
      /\ f[4] = Then(f[3], p4) /\ f[5] = Then(f[4], p5) /\ f[6] = Then(f[5], data)
  BY <1>5, <1>20, <1>21
<1>8. f[0] = <<>> /\ Over(f[6])
  BY <1>4, <1>6 DEF Row
<1>9. f[6] = e
  BY <1>2, <1>3, <1>7, <1>8, NothingIs
<1>10. /\ Len(f[0]) = 0 /\ Len(f[1]) = 2 /\ Len(f[2]) = 4 /\ Len(f[3]) = 8 /\ Len(f[4]) = 12
       /\ Len(f[5]) = 24 /\ Len(f[6]) = 24 + Len(data)
  <2>1. /\ Len(f[0]) = 0 /\ Len(f[1]) = Len(f[0]) + 2 /\ Len(f[2]) = Len(f[1]) + 2
        /\ Len(f[3]) = Len(f[2]) + 4 /\ Len(f[4]) = Len(f[3]) + 4
        /\ Len(f[5]) = Len(f[4]) + 12 /\ Len(f[6]) = Len(f[5]) + Len(data)
    <3>1. \A k \in 1..Len(seqs) : Len(f[k]) = Len(f[k - 1]) + Len(seqs[k])
      BY <1>6 DEF Row
    <3> QED
      BY <1>2, <1>5, <1>6, <1>20, <3>1 DEF Row
  <2> QED
    BY <1>1, <2>1
<1>11. /\ Holds(e, Len(f[0]) + 1, p1) /\ Holds(e, Len(f[1]) + 1, p2) /\ Holds(e, Len(f[2]) + 1, p3)
       /\ Holds(e, Len(f[3]) + 1, p4) /\ Holds(e, Len(f[5]) + 1, data)
  BY <1>4, <1>5, <1>6, <1>9 DEF Row
<1>12. /\ Holds(e, 1, p1) /\ Holds(e, 3, p2) /\ Holds(e, 5, p3) /\ Holds(e, 9, p4)
       /\ Holds(e, 25, data)
  BY <1>10, <1>11
<1>13. Over(e) /\ Len(e) = 24 + Len(data)
  BY <1>8, <1>9, <1>10
<1>14. Get16(e, 1) = command
  BY <1>12, Read16 DEF HeaderType, p1
<1>15. Get16(e, 3) = Len(data)
  BY <1>1, <1>12, Read16 DEF HeaderType, p2
<1>16. Get32(e, 5) = handle
  BY <1>12, <1>13, Read32 DEF HeaderType, p3
<1>17. Get32(e, 9) = status
  BY <1>12, <1>13, Read32 DEF HeaderType, p4
<1>18. SubSeq(e, 25, 25 + Len(data) - 1) = data
  BY <1>1, <1>12, <1>13, Cut
<1>19. 25 + Len(data) - 1 = Len(e)
  BY <1>1, <1>13
<1> QED
  BY <1>1, <1>13, <1>14, <1>15, <1>16, <1>17, <1>18, <1>19 DEF HEADER_SIZE, From, e

LEMMA EncapsRead ==
  ASSUME NEW command, NEW handle, NEW status, NEW data,
         HeaderType(command, handle, status, data)
  PROVE  DecodeEncaps(Encaps(command, handle, status, data)) =
           [ok |-> TRUE, command |-> command, handle |-> handle, status |-> status,
            data |-> data]
<1> DEFINE e == Encaps(command, handle, status, data)
<1>1. /\ Len(data) \in Nat /\ Len(e) = HEADER_SIZE + Len(data) /\ HEADER_SIZE = 24
      /\ Get16(e, 1) = command /\ Get16(e, 3) = Len(data)
      /\ Get32(e, 5) = handle /\ Get32(e, 9) = status
      /\ From(e, HEADER_SIZE + 1) = data
  BY HeaderIs DEF HEADER_SIZE
<1> HIDE DEF e
<1>2. ~(Len(e) < HEADER_SIZE) /\ Len(e) - HEADER_SIZE = Get16(e, 3)
  BY <1>1
<1>3. DecodeEncaps(e) = [ok |-> TRUE, command |-> command, handle |-> handle,
                         status |-> status, data |-> data]
  BY <1>1, <1>2 DEF DecodeEncaps
<1> QED
  BY <1>3 DEF e

\* The reader takes a packet of its own session that reports no error.
LEMMA ReplyReceived ==
  ASSUME NEW command, NEW handle, NEW status, NEW data, NEW own,
         HeaderType(command, handle, status, data)
  PROVE  ReceiveReply(Encaps(command, handle, status, data), own) =
           IF status # 0 \/ (own # 0 /\ handle # own) THEN Err
           ELSE [ok |-> TRUE, command |-> command, handle |-> handle, status |-> status,
                 data |-> data]
<1> DEFINE e == Encaps(command, handle, status, data)
<1>1. /\ Over(e) /\ Len(data) \in Nat /\ Len(e) = HEADER_SIZE + Len(data) /\ HEADER_SIZE = 24
      /\ Get16(e, 3) = Len(data)
  BY HeaderIs DEF HEADER_SIZE
<1>2. DecodeEncaps(e) = [ok |-> TRUE, command |-> command, handle |-> handle,
                         status |-> status, data |-> data]
  BY EncapsRead
<1> HIDE DEF e
<1>3. SubSeq(e, 1, HEADER_SIZE + Get16(e, 3)) = e
  <2>1. Holds(e, 1, e) /\ 1 + Len(e) - 1 = HEADER_SIZE + Get16(e, 3)
    <3>1. Len(e) \in Nat /\ \A k \in 1..Len(e) : 1 + k - 1 = k
      BY <1>1
    <3> QED
      BY <1>1, <3>1 DEF Holds
  <2>2. SubSeq(e, 1, 1 + Len(e) - 1) = e
    BY <1>1, <2>1, Cut
  <2> QED
    BY <2>1, <2>2
<1>4. ~(Len(e) < HEADER_SIZE) /\ ~(Len(e) < HEADER_SIZE + Get16(e, 3))
  BY <1>1
<1> DEFINE reply == DecodeEncaps(e)
<1>6. reply.ok = TRUE /\ reply.status = status /\ reply.handle = handle
  BY <1>2
<1>7. ReceiveReply(e, own) = IF ~reply.ok \/ reply.status # 0 \/ (own # 0 /\ reply.handle # own)
                             THEN Err ELSE reply
  BY <1>3, <1>4 DEF ReceiveReply
<1> HIDE DEF reply
<1>8. ReceiveReply(e, own) = IF status # 0 \/ (own # 0 /\ handle # own) THEN Err ELSE reply
  BY <1>6, <1>7
<1>5. ReceiveReply(e, own) =
        IF status # 0 \/ (own # 0 /\ handle # own) THEN Err
        ELSE [ok |-> TRUE, command |-> command, handle |-> handle, status |-> status,
              data |-> data]
  BY <1>2, <1>8 DEF reply
<1> QED
  BY <1>5 DEF e


-----------------------------------------------------------------------------
(* Whole packets *)

LEMMA RestShift ==
  ASSUME NEW x, Over(x), NEW y, Over(y), NEW b, NEW n \in Nat,
         Len(x) <= n, n <= Len(x) + Len(y), RestOf(b, Then(x, y), Len(x), n)
  PROVE  RestOf(b, y, 0, n - Len(x))
<1>1. Len(x) \in Nat /\ Len(y) \in Nat
  BY Joined
<1>2. /\ b \in Seq(Nat) /\ Len(b) = n - Len(x)
      /\ \A i \in 1..(n - Len(x)) : b[i] = Then(x, y)[Len(x) + i]
  BY DEF RestOf
<1>3. \A k \in 1..Len(y) : Then(x, y)[(Len(x) + 1) + k - 1] = y[k]
  BY Second DEF Holds
<1>4. \A i \in 1..(n - Len(x)) : i \in 1..Len(y) /\ (Len(x) + 1) + i - 1 = Len(x) + i /\ 0 + i = i
  BY <1>1
<1>5. \A i \in 1..(n - Len(x)) : b[i] = y[0 + i]
  BY <1>2, <1>3, <1>4
<1>6. (n - Len(x)) - 0 = n - Len(x)
  BY <1>1
<1> QED
  BY <1>2, <1>5, <1>6 DEF RestOf

\* SendRRData with items, of which the first n bytes have come.
LEMMA SendRead ==
  ASSUME NEW items, ItemsType(items), Fits16(Len(items))
  PROVE  \E f : /\ Parts(AllCoded(items), f)
                /\ Over(SendRRData(items))
                /\ Len(SendRRData(items)) = 8 + Len(f[Len(items)])
                /\ \A j \in 0..Len(items) : Len(f[j]) \in Nat
                /\ \A n \in 6..Len(SendRRData(items)) :
                     LET d == DecodeCommonPacket(From(SubSeq(SendRRData(items), 1, n), 7))
                     IN  IF n < 8 THEN d = Err ELSE Found(d, items, f, n - 8)
<1> DEFINE cp == CommonPacket(items)
           z  == Zeros(6)
           s  == SendRRData(items)
           N  == Len(items)
<1>1. PICK f : /\ Parts(AllCoded(items), f) /\ Over(cp) /\ Len(cp) = 2 + Len(f[N])
               /\ \A j \in 0..N : Len(f[j]) \in Nat
               /\ \A n \in 0..Len(cp) : \A b :
                    RestOf(b, cp, 0, n) =>
                      IF n < 2 THEN DecodeCommonPacket(b) = Err
                      ELSE Found(DecodeCommonPacket(b), items, f, n - 2)
  BY PacketRead
<1>2. N \in Nat
  BY AllCodedIs
<1>3. Len(f[N]) \in Nat
  BY <1>1, <1>2
<1>4. Over(z) /\ Len(z) = 6 /\ s = Then(z, cp)
  BY ZerosAre DEF SendRRData, Then
<1> HIDE DEF cp, z, s
<1>5. Over(s) /\ Len(s) = Len(z) + Len(cp)
  BY <1>1, <1>4, Joined
<1>6. Len(s) = 8 + Len(f[N]) /\ Len(cp) \in Nat
  BY <1>1, <1>3, <1>4, <1>5
<1>7. ASSUME NEW n \in 6..Len(s)
      PROVE  LET d == DecodeCommonPacket(From(SubSeq(s, 1, n), 7))
             IN  IF n < 8 THEN d = Err ELSE Found(d, items, f, n - 8)
  <2> DEFINE b == SubSeq(s, 1, n)
  <2>1. n \in Nat /\ n <= Len(s) /\ 6 <= n /\ n - 6 \in Nat /\ n - 6 <= Len(cp) /\ 0 + 6 <= n
    BY <1>1, <1>3, <1>6
  <2>2. RestOf(b, s, 0, n)
    BY <1>5, <2>1, RestStart
  <2> HIDE DEF b
  <2>3. RestOf(From(b, 6 + 1), s, 0 + 6, n)
    <3>1. 0 \in Nat /\ 6 \in Nat
      OBVIOUS
    <3> QED
      BY <2>1, <2>2, <3>1, RestFrom
  <2>4. RestOf(From(b, 7), s, Len(z), n)
    BY <1>4, <2>3
  <2>5. Len(z) <= n /\ n <= Len(z) + Len(cp) /\ n - Len(z) = n - 6
    BY <1>4, <1>5, <2>1
  <2>6. RestOf(From(b, 7), cp, 0, n - 6)
    BY <1>1, <1>4, <2>1, <2>4, <2>5, RestShift
  <2>7. n - 6 \in 0..Len(cp) /\ (n < 8 <=> n - 6 < 2) /\ (n - 6) - 2 = n - 8
    BY <1>6, <2>1
  <2>8. IF n - 6 < 2 THEN DecodeCommonPacket(From(b, 7)) = Err
        ELSE Found(DecodeCommonPacket(From(b, 7)), items, f, (n - 6) - 2)
    BY <1>1, <2>6, <2>7
  <2>9. IF n < 8 THEN DecodeCommonPacket(From(b, 7)) = Err
        ELSE Found(DecodeCommonPacket(From(b, 7)), items, f, n - 8)
    BY <2>7, <2>8
  <2> QED
    BY <2>9 DEF b
<1> QED
  BY <1>1, <1>5, <1>6, <1>7 DEF s

LEMMA TwoAndOne ==
  ASSUME NEW S, NEW x \in S, NEW y \in S, NEW z \in S
  PROVE  <<x, y>> \o <<z>> = <<x, y, z>>
<1> DEFINE s == <<x, y>>
           t == <<z>>
           u == <<x, y, z>>
<1>1. s \in Seq(S) /\ t \in Seq(S) /\ u \in Seq(S) /\ Len(s) = 2 /\ Len(t) = 1 /\ Len(u) = 3
      /\ s[1] = x /\ s[2] = y /\ t[1] = z /\ u[1] = x /\ u[2] = y /\ u[3] = z
  OBVIOUS
<1> HIDE DEF s, t, u
<1>2. s \o t \in Seq(S) /\ Len(s \o t) = Len(s) + Len(t)
      /\ \A i \in 1..(Len(s) + Len(t)) : (s \o t)[i] = IF i <= Len(s) THEN s[i] ELSE t[i - Len(s)]
  BY <1>1, ConcatProperties
<1>3. \A i \in 1..3 : (s \o t)[i] = u[i]
  BY <1>1, <1>2
<1>4. s \o t = u
  BY <1>1, <1>2, <1>3, SeqEqual
<1> QED
  BY <1>4 DEF s, t, u

\* A response with its additional status and data.
LEMMA ResponseRead ==
  ASSUME NEW h, Over(h), Len(h) = 4, h[4] \in Nat,
         NEW a, Over(a), 2 * h[4] = Len(a), NEW data, Over(data)
  PROVE  LET b == Then(Then(h, a), data)
         IN  /\ Over(b) /\ Len(b) = 4 + Len(a) + Len(data)
             /\ DecodeResponse(b) =
                  [ok |-> TRUE, status |-> h[3], additional |-> a, data |-> data]
<1> DEFINE status == h[3]
           w  == h[4]
           ha == Then(h, a)
           b  == Then(ha, data)
<1>1. Over(h) /\ Len(h) = 4 /\ h[3] = status /\ h[4] = w /\ w \in Nat /\ 2 * w = Len(a)
  OBVIOUS
<1>2. b = Then(ha, data)
  OBVIOUS
<1> HIDE DEF ha, status, w, b
<1>3. Over(ha) /\ Len(ha) = Len(h) + Len(a) /\ Len(a) \in Nat /\ Len(data) \in Nat
  BY <1>1, Joined DEF ha
<1>4. Over(b) /\ Len(b) = Len(ha) + Len(data)
  BY <1>2, <1>3, Joined
<1>5. Over(b) /\ Len(b) = 4 + Len(a) + Len(data) /\ Len(ha) = 4 + Len(a)
  BY <1>1, <1>3, <1>4
<1>6. Holds(ha, 1, h) /\ Holds(ha, Len(h) + 1, a)
  BY <1>1, First, Second DEF ha
<1>7. Holds(ha, 5, a)
  BY <1>1, <1>6
<1>8. Holds(b, 1, h) /\ Holds(b, 5, a)
  <2>1. 1 \in Nat /\ 1 >= 1 /\ 5 \in Nat /\ 5 >= 1
    OBVIOUS
  <2> QED
    BY <1>1, <1>2, <1>3, <1>6, <1>7, <2>1, Kept
<1>9. b[3] = status /\ b[4] = w
  <2>1. 3 \in 1..Len(h) /\ 4 \in 1..Len(h) /\ 1 + 3 - 1 = 3 /\ 1 + 4 - 1 = 4
    BY <1>1
  <2> QED
    BY <1>1, <1>8, <2>1 DEF Holds
<1>10. SubSeq(b, 5, 4 + 2 * w) = a
  <2>1. 5 \in Nat /\ 5 >= 1 /\ 5 + Len(a) - 1 = 4 + 2 * w
    BY <1>1, <1>3
  <2>2. SubSeq(b, 5, 5 + Len(a) - 1) = a
    BY <1>4, <1>8, <2>1, Cut
  <2> QED
    BY <2>1, <2>2
<1>11. From(b, 5 + 2 * w) = data
  <2>1. From(Then(ha, data), Len(ha) + 1) = data
    BY <1>3, Rest
  <2>2. Len(ha) + 1 = 5 + 2 * w
    BY <1>1, <1>3, <1>5
  <2> QED
    BY <1>2, <2>1, <2>2
<1>12. ~(Len(b) < 4) /\ ~(2 * b[4] > Len(b) - 4)
  BY <1>1, <1>3, <1>5, <1>9
<1>13. DecodeResponse(b) = [ok |-> TRUE, status |-> status, additional |-> a, data |-> data]
  BY <1>9, <1>10, <1>11, <1>12 DEF DecodeResponse
<1> QED
  BY <1>5, <1>13 DEF status, b, ha

-----------------------------------------------------------------------------
(* Paths are bytes *)

LEMMA Both ==
  ASSUME NEW x, Over(x), NEW y, Over(y)
  PROVE  Over(x \o y)
BY ConcatProperties DEF Over

LEMMA Short ==
  /\ Over(<<>>)
  /\ \A a \in Nat : Over(<<a>>)
  /\ \A a \in Nat, b \in Nat : Over(<<a, b>>)
BY DEF Over

LEMMA LogicalIs ==
  ASSUME NEW kind \in DOMAIN LogicalCode, NEW id \in Nat, NEW bits8 \in BOOLEAN
  PROVE  /\ Over(LogicalSegment(kind, id, bits8))
         /\ LogicalCode[kind] \in Nat
<1>1. LogicalCode[kind] \in Nat /\ LogicalCode[kind] + 1 \in Nat /\ 0 \in Nat
  BY DEF LogicalCode
<1>2. Over(Le16(id))
  BY Le16Is
<1> DEFINE code == LogicalCode[kind]
<1> HIDE DEF code
<1>3. Over(<<code, id>>) /\ Over(<<code + 1, 0>>)
  BY <1>1, Short DEF code
<1>4. Over(<<code + 1, 0>> \o Le16(id))
  BY <1>2, <1>3, Both
<1> QED
  BY <1>1, <1>3, <1>4 DEF LogicalSegment, code

LEMMA PortIs ==
  ASSUME NEW port \in Nat, NEW link, Over(link)
  PROVE  Over(PortSegment(port, link))
<1> DEFINE a == <<(IF port >= 15 THEN 15 ELSE port) + (IF Len(link) # 1 THEN 16 ELSE 0)>>
           b == IF Len(link) # 1 THEN <<U8(Len(link))>> ELSE <<>>
           c == IF port >= 15 THEN Le16(port) ELSE <<>>
           segment == a \o b \o c \o link
<1>1. Len(link) \in Nat
  BY LenProperties DEF Over
<1>2. Over(a)
  <2>1. (IF port >= 15 THEN 15 ELSE port) + (IF Len(link) # 1 THEN 16 ELSE 0) \in Nat
    OBVIOUS
  <2> QED
    BY <2>1, Short
<1>3. Over(b)
  <2>1. U8(Len(link)) \in Nat
    BY <1>1 DEF U8
  <2> QED
    BY <2>1, Short
<1>4. Over(c)
  BY Le16Is, Short
<1>5. PortSegment(port, link) = segment \o Zeros(Len(segment) % 2)
  BY DEF PortSegment
<1> HIDE DEF a, b, c
<1>6. Over(segment)
  <2>1. Over(a \o b)
    BY <1>2, <1>3, Both
  <2>2. Over(a \o b \o c)
    BY <1>4, <2>1, Both
  <2> QED
    BY <2>2, Both
<1> HIDE DEF segment
<1>7. Over(Zeros(Len(segment) % 2))
  <2>1. Len(segment) \in Nat
    BY <1>6, LenProperties DEF Over
  <2>2. Len(segment) % 2 \in Nat
    BY <2>1
  <2> QED
    BY <2>2, ZerosAre
<1> QED
  BY <1>5, <1>6, <1>7, Both

LEMMA KeyIs ==
  ASSUME NEW s \in [kind : {"key"}, vendor : Nat, major : Nat, compatible : BOOLEAN]
  PROVE  Over(KeySegment(s))
<1> DEFINE last == (s.major % 128) + (IF s.compatible THEN 128 ELSE 0)
<1>1. s.vendor \in Nat /\ last \in Nat /\ 0 \in Nat /\ 52 \in Nat /\ 4 \in Nat
  OBVIOUS
<1>2. KeySegment(s) = <<52, 4>> \o Le16(s.vendor) \o Le16(0) \o Le16(0) \o <<last, 0>>
  BY DEF KeySegment
<1> HIDE DEF last
<1> DEFINE a == <<52, 4>>
           b == Le16(s.vendor)
           z == Le16(0)
           e == <<last, 0>>
<1>3. Over(a) /\ Over(b) /\ Over(z) /\ Over(e)
  <2>1. Over(a) /\ Over(e)
    BY <1>1, Short, Zenon
  <2>2. Over(b) /\ Over(z)
    BY <1>1, Le16Is, Zenon
  <2> QED
    BY <2>1, <2>2
<1> HIDE DEF a, b, z, e
<1>4. Over(a \o b)
  BY <1>3, Both
<1>5. Over(a \o b \o z)
  BY <1>3, <1>4, Both
<1>6. Over(a \o b \o z \o z)
  BY <1>3, <1>5, Both
<1>7. Over(a \o b \o z \o z \o e)
  BY <1>3, <1>6, Both
<1> QED
  BY <1>2, <1>7 DEF a, b, z, e

LEMMA SegmentIs ==
  ASSUME NEW s \in Segments
  PROVE  Over(Segment(s))
<1>1. CASE s \in [kind : {"port"}, port : Nat, link : Seq(Nat)]
  <2>1. s.kind = "port" /\ s.port \in Nat /\ Over(s.link)
    BY <1>1 DEF Over
  <2>2. Segment(s) = PortSegment(s.port, s.link)
    BY <2>1 DEF Segment
  <2> QED
    BY <2>1, <2>2, PortIs
<1>2. CASE s \in [kind : {"key"}, vendor : Nat, major : Nat, compatible : BOOLEAN]
  <2>1. s.kind = "key"
    BY <1>2
  <2>2. Segment(s) = KeySegment(s)
    BY <2>1, Zenon DEF Segment
  <2> QED
    BY <1>2, <2>2, KeyIs
<1>3. CASE s \in [kind : {"raw"}, bytes : Seq(Nat)]
  <2>1. s.kind = "raw" /\ Over(s.bytes)
    BY <1>3 DEF Over
  <2>2. Segment(s) = s.bytes
    BY <2>1, Zenon DEF Segment
  <2> QED
    BY <2>1, <2>2
<1>4. CASE s \in [kind : DOMAIN LogicalCode, id : Nat]
  <2>1. s.kind \in DOMAIN LogicalCode /\ s.id \in Nat
    BY <1>4
  <2>2. s.kind # "port" /\ s.kind # "key" /\ s.kind # "raw"
    BY <2>1 DEF LogicalCode
  <2>3. Segment(s) = LogicalSegment(s.kind, s.id, TRUE)
    BY <2>2, Zenon DEF Segment
  <2> QED
    BY <2>1, <2>3, LogicalIs
<1> QED
  BY <1>1, <1>2, <1>3, <1>4 DEF Segments

LEMMA FlattenIs ==
  ASSUME NEW seqs \in Seq(Seq(Nat))
  PROVE  Over(FlattenSeq(seqs))
<1>1. PICK f : Parts(seqs, f) /\ FlattenSeq(seqs) = f[Len(seqs)]
  BY Flattened
<1>2. Len(seqs) \in Nat
  BY LenProperties
<1>3. Len(seqs) \in 0..Len(seqs)
  BY <1>2
<1> QED
  BY <1>1, <1>3 DEF Parts

LEMMA ConnectionPathIs ==
  ASSUME NEW path \in Seq(Segments)
  PROVE  Over(ConnectionPath(path))
<1> DEFINE seqs == [i \in DOMAIN path |-> Segment(path[i])]
<1>1. DOMAIN path = 1..Len(path) /\ Len(path) \in Nat
  BY LenProperties
<1>2. \A i \in 1..Len(path) : Segment(path[i]) \in Seq(Nat)
  BY SegmentIs, ElementOfSeq DEF Over
<1>3. seqs \in Seq(Seq(Nat))
  BY <1>1, <1>2
<1> HIDE DEF seqs
<1>4. Over(FlattenSeq(seqs))
  BY <1>3, FlattenIs
<1> QED
  BY <1>4 DEF ConnectionPath, seqs

LEMMA RouteIs ==
  ASSUME NEW tokens \in Seq(Tokens), Route(tokens).ok
  PROVE  Over(Route(tokens).bytes)
<1> DEFINE n == Len(tokens) \div 2
           pairs == 1..(Len(tokens) \div 2)
           port(i) == tokens[2 * i - 1]
           link(i) == tokens[2 * i]
           good(i) == /\ port(i).kind = "number" /\ port(i).n # 0 /\ Fits16(port(i).n)
                      /\ \/ link(i).kind = "number" /\ link(i).n <= 255
                         \/ link(i).kind = "address"
           bytes(i) == PortSegment(port(i).n, IF link(i).kind = "number" THEN <<link(i).n>>
                                              ELSE link(i).text)
           seqs == [i \in pairs |-> bytes(i)]
<1>1. Len(tokens) \in Nat /\ n \in Nat /\ 2 * n <= Len(tokens)
  BY LenProperties
<1>2. ~(Len(tokens) % 2 = 1 \/ \E i \in pairs : ~good(i))
  BY DEF Route, Err
<1>3. Route(tokens) = [ok |-> TRUE, bytes |-> FlattenSeq(seqs)]
  BY <1>2 DEF Route
<1>4. ASSUME NEW i \in pairs
      PROVE  bytes(i) \in Seq(Nat)
  <2>1. good(i)
    BY <1>2
  <2>2. 2 * i - 1 \in 1..Len(tokens) /\ 2 * i \in 1..Len(tokens)
    BY <1>1
  <2>3. port(i) \in Tokens /\ link(i) \in Tokens
    BY <2>2, ElementOfSeq
  <2>4. port(i).n \in Nat
    BY <2>1 DEF Fits16
  <2>5. Over(IF link(i).kind = "number" THEN <<link(i).n>> ELSE link(i).text)
    <3>1. link(i).kind = "number" => link(i).n \in Nat
      BY <2>3 DEF Tokens, BadToken
    <3>2. link(i).kind = "address" => Over(link(i).text)
      BY <2>3 DEF Tokens, BadToken, Over
    <3> QED
      BY <2>1, <3>1, <3>2, Short
  <2> HIDE DEF port, link
  <2> QED
    BY <2>4, <2>5, PortIs DEF Over
<1> HIDE DEF bytes
<1>5. seqs \in Seq(Seq(Nat))
  BY <1>1, <1>4
<1> HIDE DEF seqs
<1>6. Over(FlattenSeq(seqs))
  BY <1>5, FlattenIs
<1> QED
  BY <1>3, <1>6

-----------------------------------------------------------------------------
(* Network parameters *)

\* The digits of a word of flags over a small size s.
FlagWord(t, q, v, s) == 8192 * t + 1024 * q + 512 * v + s
DigitsAre(f, t, q, v, s) ==
  /\ f \in Nat /\ Fits16(f) /\ (f \div 8192) % 4 = t /\ (f \div 1024) % 4 = q
  /\ (f \div 512) % 2 = v /\ f % 512 = s

LEMMA FlagDigits ==
  ASSUME NEW t \in 0..3, NEW q \in 0..3, NEW v \in 0..1, NEW s \in 0..511
  PROVE  DigitsAre(FlagWord(t, q, v, s), t, q, v, s)
<1> DEFINE f == FlagWord(t, q, v, s)
<1>0. f = 8192 * t + 1024 * q + 512 * v + s
  BY DEF FlagWord
<1> HIDE DEF f
<1>1. f \in Nat /\ f < 65536
  BY <1>0
<1>2. f \div 8192 = t
  BY <1>0
<1>3. f \div 1024 = 8 * t + q
  BY <1>0
<1>4. f \div 512 = 16 * t + 2 * q + v
  BY <1>0
<1>5. f % 512 = s
  BY <1>0
<1>6. t % 4 = t /\ (8 * t + q) % 4 = q /\ (16 * t + 2 * q + v) % 2 = v
  OBVIOUS
<1> QED
  BY <1>1, <1>2, <1>3, <1>4, <1>5, <1>6 DEF Fits16, f, DigitsAre

LEMMA Itself ==
  ASSUME NEW n \in Nat, Fits16(n)
  PROVE  Get16(Le16(n), 1) = n
<1>1. Over(Le16(n)) /\ Len(Le16(n)) = 2
  BY Le16Is
<1>2. Holds(Le16(n), 1, Le16(n))
  <2> DEFINE s == Le16(n)
  <2>1. Len(s) = 2
    BY <1>1
  <2> HIDE DEF s
  <2>2. \A k \in 1..Len(s) : 1 + k - 1 = k
    BY <2>1
  <2>3. Holds(s, 1, s)
    BY <2>1, <2>2 DEF Holds
  <2> QED
    BY <2>3 DEF s
<1> QED
  BY <1>2, Read16

LEMMA ParamsRead ==
  ASSUME NEW p \in [type : 0..3, priority : 0..3, variable : BOOLEAN, size : Nat],
         Fits16(p.size), NEW large \in BOOLEAN, ~large => p.size <= 511
  PROVE  /\ Over(NetworkParams(p, large))
         /\ Len(NetworkParams(p, large)) = IF large THEN 4 ELSE 2
         /\ ReadNetworkParams(NetworkParams(p, large), large) = p
<1> DEFINE t == p.type
           q == p.priority
           v == IF p.variable THEN 1 ELSE 0
           size == p.size
           b == NetworkParams(p, large)
<1>1. /\ t \in 0..3 /\ q \in 0..3 /\ v \in 0..1 /\ size \in Nat /\ Fits16(size)
      /\ (v = 1 <=> p.variable) /\ p.variable \in BOOLEAN
  OBVIOUS
<1>2. p = [type |-> t, priority |-> q, variable |-> (v = 1), size |-> size]
  BY <1>1
<1>3. Flags(p) = 8192 * t + 1024 * q + 512 * v
  <2>1. Flags(p) = t * 8192 + q * 1024 + (IF p.variable THEN 512 ELSE 0)
    BY DEF Flags
  <2>2. (IF p.variable THEN 512 ELSE 0) = 512 * v
    OBVIOUS
  <2> HIDE DEF t, q, v
  <2> QED
    BY <1>1, <2>1, <2>2
<1> HIDE DEF t, q, v, size
<1>4. CASE large
  <2> DEFINE f == Flags(p)
             x == Le16(size)
             y == Le16(f)
  <2>1. f = FlagWord(t, q, v, 0) /\ 0 \in 0..511
    BY <1>1, <1>3 DEF FlagWord
  <2>2. /\ f \in Nat /\ Fits16(f) /\ (f \div 8192) % 4 = t /\ (f \div 1024) % 4 = q
        /\ (f \div 512) % 2 = v
    <3>1. DigitsAre(FlagWord(t, q, v, 0), t, q, v, 0)
      BY <1>1, <2>1, FlagDigits, Zenon
    <3> HIDE DEF f
    <3>2. DigitsAre(f, t, q, v, 0)
      BY <2>1, <3>1
    <3> QED
      BY <3>2 DEF DigitsAre
  <2> HIDE DEF f
  <2>3. Over(x) /\ Len(x) = 2 /\ Over(y) /\ Len(y) = 2
    BY <1>1, <2>2, Le16Is
  <2>4. b = Then(x, y)
    BY <1>4 DEF NetworkParams, Then, size, f
  <2>5. Over(b) /\ Len(b) = Len(x) + Len(y) /\ Holds(b, 1, x) /\ Holds(b, Len(x) + 1, y)
    <3> HIDE DEF b, x, y
    <3> QED
      BY ZenonT(60), <2>3, <2>4, Joined, First, Second
  <2>6. Over(b) /\ Len(b) = 4 /\ Holds(b, 1, x) /\ Holds(b, 3, y)
    <3> HIDE DEF b, x, y
    <3> QED
      BY <2>3, <2>5
  <2>7. Get16(b, 1) = size
    <3> HIDE DEF b
    <3> QED
      BY <1>1, <2>6, Read16
  <2>8. Get16(b, 3) = f
    <3> HIDE DEF b
    <3> QED
      BY <2>2, <2>6, Read16
  <2>9. ReadNetworkParams(b, large) =
          [type |-> (f \div 8192) % 4, priority |-> (f \div 1024) % 4,
           variable |-> (f \div 512) % 2 = 1, size |-> size]
    <3> HIDE DEF b
    <3> QED
      BY <1>4, <2>7, <2>8 DEF ReadNetworkParams
  <2>10. ReadNetworkParams(b, large) = p
    <3> HIDE DEF b
    <3> QED
      BY <1>2, <2>2, <2>9
  <2> QED
    BY <1>4, <2>6, <2>10
<1>5. CASE ~large
  <2> DEFINE f == Flags(p) + (size % 512)
  <2>1. size \in 0..511 /\ size % 512 = size
    <3>1. size <= 511
      BY <1>5 DEF size
    <3> QED
      BY <1>1, <3>1
  <2>2. f = FlagWord(t, q, v, size)
    BY <1>1, <1>3, <2>1 DEF FlagWord
  <2>3. /\ f \in Nat /\ Fits16(f) /\ (f \div 8192) % 4 = t /\ (f \div 1024) % 4 = q
        /\ (f \div 512) % 2 = v /\ f % 512 = size
    <3>1. DigitsAre(FlagWord(t, q, v, size), t, q, v, size)
      BY <1>1, <2>1, FlagDigits, Zenon
    <3> HIDE DEF f
    <3>2. DigitsAre(f, t, q, v, size)
      BY <2>2, <3>1
    <3> QED
      BY <3>2 DEF DigitsAre
  <2> HIDE DEF f
  <2>4. b = Le16(f)
    BY <1>5 DEF NetworkParams, size, f
  <2>5. Over(b) /\ Len(b) = 2 /\ Get16(b, 1) = f
    BY <2>3, <2>4, Le16Is, Itself
  <2>6. ReadNetworkParams(b, large) =
          [type |-> (f \div 8192) % 4, priority |-> (f \div 1024) % 4,
           variable |-> (f \div 512) % 2 = 1, size |-> f % 512]
    <3> HIDE DEF b
    <3> QED
      BY <1>5, <2>5 DEF ReadNetworkParams
  <2>7. ReadNetworkParams(b, large) = p
    <3> HIDE DEF b
    <3> QED
      BY <1>2, <2>3, <2>6
  <2> QED
    BY <1>5, <2>5, <2>7
<1> QED
  BY <1>4, <1>5

-----------------------------------------------------------------------------
(* The path of a request *)

\* A loop that comes to stand still in the second round.
PathLoop(start, n, f) ==
  f = [k \in 0..n |-> IF k = 0 THEN start ELSE NextEPathSegment(f[k - 1])]

PathAfter(n, start) == Rounds(n, NextEPathSegment, start)

LEMMA PathRounds ==
  ASSUME NEW start, NEW t1, NEW t2, NextEPathSegment(start) = t1,
         NextEPathSegment(t1) = t2, NextEPathSegment(t2) = t2, NEW n \in Nat, n >= 2
  PROVE  PathAfter(n, start) = t2
<1> DEFINE g == [k \in 0..n |-> IF k = 0 THEN start ELSE IF k = 1 THEN t1 ELSE t2]
           f == CHOOSE x : PathLoop(start, n, x)
<1>1. PathLoop(start, n, g)
  <2>1. \A k \in 0..n : g[k] = IF k = 0 THEN start ELSE NextEPathSegment(g[k - 1])
    <3> TAKE k \in 0..n
    <3>1. CASE k = 0
      BY <3>1
    <3>2. CASE k = 1
      <4>1. g[k] = t1 /\ k - 1 = 0 /\ 0 \in 0..n
        BY <3>2
      <4>2. g[0] = start
        BY <4>1
      <4> QED
        BY <3>2, <4>1, <4>2
    <3>3. CASE k = 2
      <4>1. g[k] = t2 /\ k - 1 = 1 /\ 1 \in 0..n
        BY <3>3
      <4>2. g[1] = t1
        BY <4>1
      <4> QED
        BY <3>3, <4>1, <4>2
    <3>4. CASE k > 2
      <4>1. g[k] = t2 /\ k - 1 \in 0..n /\ k - 1 # 0 /\ k - 1 # 1 /\ k # 0
        BY <3>4
      <4>2. g[k - 1] = t2
        BY <4>1
      <4> QED
        BY <4>1, <4>2
    <3> QED
      BY <3>1, <3>2, <3>3, <3>4
  <2> QED
    BY <2>1 DEF PathLoop
<1> HIDE DEF g
<1>2. PathLoop(start, n, f)
  BY <1>1
<1>3. PathAfter(n, start) = f[n]
  BY DEF PathAfter, Rounds, PathLoop
<1> HIDE DEF f
<1>4. f[0] = start /\ \A k \in 1..n : f[k] = NextEPathSegment(f[k - 1])
  BY <1>2 DEF PathLoop
<1> DEFINE Good == {d \in Nat : d + 2 <= n => f[d + 2] = t2}
<1>5. 0 \in Good
  <2>1. 1 \in 1..n /\ 2 \in 1..n /\ 1 - 1 = 0 /\ 2 - 1 = 1 /\ 0 + 2 = 2
    OBVIOUS
  <2>2. f[1] = t1
    BY <1>4, <2>1
  <2>3. f[2] = t2
    BY <1>4, <2>1, <2>2
  <2> QED
    BY <2>1, <2>3
<1>6. \A d \in Good : d + 1 \in Good
  <2> TAKE d \in Good
  <2>1. d \in Nat /\ (d + 2 <= n => f[d + 2] = t2)
    OBVIOUS
  <2>2. ASSUME (d + 1) + 2 <= n
        PROVE  f[(d + 1) + 2] = t2
    <3>1. (d + 1) + 2 \in 1..n /\ ((d + 1) + 2) - 1 = d + 2 /\ d + 2 <= n
      BY <2>1, <2>2
    <3> QED
      BY <1>4, <2>1, <3>1
  <2> QED
    BY <2>1, <2>2
<1>7. Good = Nat
  <2>1. Good \subseteq Nat
    OBVIOUS
  <2> HIDE DEF Good
  <2> QED
    BY <1>5, <1>6, <2>1, Induction
<1>8. n - 2 \in Nat /\ (n - 2) + 2 = n
  OBVIOUS
<1>9. f[n] = t2
  <2> DEFINE m == n - 2
  <2>1. m \in Nat /\ m + 2 = n
    BY <1>8
  <2> HIDE DEF m
  <2>2. m \in Good
    <3> HIDE DEF Good
    <3> QED
      BY <1>7, <2>1
  <2>3. m + 2 <= n => f[m + 2] = t2
    BY <2>2
  <2> QED
    BY <2>1, <2>3
<1> QED
  BY <1>3, <1>9

LEMMA NewRest ==
  ASSUME NEW ok, NEW p, NEW x, NEW y, NEW t, t = [ok |-> ok, path |-> p, rest |-> x]
  PROVE  [t EXCEPT !.rest = y] = [ok |-> ok, path |-> p, rest |-> y]
<1> DEFINE u == [t EXCEPT !.rest = y]
           v == [ok |-> ok, path |-> p, rest |-> y]
<1>1. DOMAIN u = {"ok", "path", "rest"} /\ DOMAIN v = {"ok", "path", "rest"}
  OBVIOUS
<1>2. \A k \in {"ok", "path", "rest"} : u[k] = v[k]
  OBVIOUS
<1>3. u = [k \in DOMAIN u |-> u[k]] /\ v = [k \in DOMAIN v |-> v[k]]
  OBVIOUS
<1> HIDE DEF u, v
<1> QED
  BY <1>1, <1>2, <1>3 DEF u, v

LEMMA NewPath ==
  ASSUME NEW ok, NEW p, NEW q, NEW x, NEW t, t = [ok |-> ok, path |-> p, rest |-> x]
  PROVE  [t EXCEPT !.path = q] = [ok |-> ok, path |-> q, rest |-> x]
<1> DEFINE u == [t EXCEPT !.path = q]
           v == [ok |-> ok, path |-> q, rest |-> x]
<1>1. DOMAIN u = {"ok", "path", "rest"} /\ DOMAIN v = {"ok", "path", "rest"}
  OBVIOUS
<1>2. \A k \in {"ok", "path", "rest"} : u[k] = v[k]
  OBVIOUS
<1>3. u = [k \in DOMAIN u |-> u[k]] /\ v = [k \in DOMAIN v |-> v[k]]
  OBVIOUS
<1> HIDE DEF u, v
<1> QED
  BY <1>1, <1>2, <1>3 DEF u, v

\* One segment of a path with a small ID, in either size.
LEMMA PathStep ==
  ASSUME NEW kind \in {"class", "instance"}, NEW id \in Nat, id <= 255, NEW bits8 \in BOOLEAN,
         NEW y, Over(y), NEW c, NEW i, NEW a
  PROVE  LET x == LogicalSegment(kind, id, bits8)
         IN  /\ Over(x) /\ Len(x) = IF bits8 THEN 2 ELSE 4
             /\ NextEPathSegment([ok |-> TRUE, path |-> EPathOf(c, i, a), rest |-> Then(x, y)]) =
                  [ok |-> TRUE, path |-> [EPathOf(c, i, a) EXCEPT ![kind] = id], rest |-> y]
<1> DEFINE x == LogicalSegment(kind, id, bits8)
           b == Then(x, y)
           p == EPathOf(c, i, a)
           t == [ok |-> TRUE, path |-> p, rest |-> b]
           code == LogicalCode[kind]
           head == IF bits8 THEN <<code, id>> ELSE <<code + 1, 0>>
           n == IF bits8 THEN 2 ELSE 4
           kinds == {k \in DOMAIN p : LogicalCode[k] = b[1] - (b[1] % 2)}
<1>1. /\ code \in Nat /\ code % 2 = 0 /\ (code + 1) % 2 = 1
      /\ \A k \in {"class", "instance", "attribute"} : LogicalCode[k] = code <=> k = kind
  BY DEF LogicalCode
<1>2. DOMAIN p = {"class", "instance", "attribute"}
  BY DEF EPathOf
<1> HIDE DEF code
<1>3. kind \in DOMAIN LogicalCode
  BY DEF LogicalCode
<1>4. Over(x)
  BY <1>3, LogicalIs
<1>5. Fits16(id) /\ Over(Le16(id)) /\ Len(Le16(id)) = 2
  BY Le16Is DEF Fits16
<1>6. Over(head) /\ Len(head) = 2 /\ head[1] = (IF bits8 THEN code ELSE code + 1)
      /\ (bits8 => head[2] = id)
  BY <1>1 DEF Over
<1>7. x = IF bits8 THEN head ELSE Then(head, Le16(id))
  BY DEF LogicalSegment, Then, code
<1> HIDE DEF x, head
<1>8. Len(x) = n /\ Holds(x, 1, head) /\ (~bits8 => Holds(x, 3, Le16(id)))
  <2>1. CASE bits8
    <3>1. x = head
      BY <1>7, <2>1
    <3>2. \A k \in 1..Len(head) : 1 + k - 1 = k
      BY <1>6
    <3> QED
      BY SMTT(60), <1>6, <2>1, <3>1, <3>2 DEF Holds
  <2>2. CASE ~bits8
    <3>1. x = Then(head, Le16(id))
      BY <1>7, <2>2
    <3>2. Len(x) = Len(head) + Len(Le16(id)) /\ Holds(x, 1, head) /\ Holds(x, Len(head) + 1, Le16(id))
      BY <1>5, <1>6, <3>1, Joined, First, Second
    <3> QED
      BY <1>5, <1>6, <2>2, <3>2
  <2> QED
    BY <2>1, <2>2
<1>9. /\ Over(b) /\ Len(b) = n + Len(y) /\ Len(y) \in Nat
      /\ Holds(b, 1, head) /\ (~bits8 => Holds(b, 3, Le16(id))) /\ From(b, n + 1) = y
  <2>1. Over(b) /\ Len(b) = Len(x) + Len(y) /\ Len(y) \in Nat
    BY <1>4, Joined
  <2>2. 1 \in Nat /\ 1 >= 1 /\ 3 \in Nat /\ 3 >= 1
    OBVIOUS
  <2>3. Holds(b, 1, head)
    BY <1>4, <1>6, <1>8, <2>2, Kept
  <2>4. ~bits8 => Holds(b, 3, Le16(id))
    BY <1>4, <1>5, <1>8, <2>2, Kept
  <2>5. From(b, Len(x) + 1) = y
    BY <1>4, Rest
  <2> HIDE DEF b, n
  <2> QED
    BY <1>8, <2>1, <2>3, <2>4, <2>5
<1> HIDE DEF b
<1>10. b[1] = head[1] /\ (bits8 => b[2] = id)
  <2>1. 1 \in 1..Len(head) /\ 2 \in 1..Len(head) /\ 1 + 1 - 1 = 1 /\ 1 + 2 - 1 = 2
    BY <1>6
  <2>2. b[1 + 1 - 1] = head[1] /\ b[1 + 2 - 1] = head[2]
    BY <1>9, <2>1 DEF Holds
  <2> QED
    BY <1>6, <2>1, <2>2
<1>11. /\ b[1] % 2 = (IF bits8 THEN 0 ELSE 1) /\ b[1] - (b[1] % 2) = code
  BY <1>1, <1>6, <1>10
<1>12. kinds = {kind} /\ (CHOOSE k \in kinds : TRUE) = kind
  BY <1>1, <1>2, <1>11
<1>13. b # <<>> /\ ~(Len(b) < n) /\ kinds # {}
  <2>1. n \in Nat /\ n >= 2
    OBVIOUS
  <2> HIDE DEF n, kinds
  <2>2. kinds # {}
    BY <1>12
  <2>3. Len(b) >= n
    BY <1>9, <2>1
  <2>4. Len(<<>>) = 0
    BY EmptySeq
  <2>5. b # <<>>
    BY <2>1, <2>3, <2>4
  <2> QED
    BY <2>1, <2>2, <2>3, <2>5
<1>14. ~bits8 => Get16(b, 3) = id
  <2>1. 3 \in Nat
    OBVIOUS
  <2> QED
    BY <1>5, <1>9, <2>1, Read16
<1> HIDE DEF kinds
<1>15. NextEPathSegment(t) =
         [t EXCEPT !.rest = From(b, n + 1),
                   !.path[CHOOSE k \in kinds : TRUE] = IF n = 4 THEN Get16(b, 3) ELSE b[2]]
  <2>1. t.ok /\ t.rest = b /\ t.path = p
    OBVIOUS
  <2>2. (IF b[1] % 2 = 1 THEN 4 ELSE 2) = n
    BY <1>11
  <2>3. {k \in DOMAIN t.path : LogicalCode[k] = t.rest[1] - (t.rest[1] % 2)} = kinds
    BY <2>1 DEF kinds
  <2> HIDE DEF t, n
  <2>4. NextEPathSegment(t) =
          LET m == IF b[1] % 2 = 1 THEN 4 ELSE 2
          IN  IF ~t.ok \/ b = <<>> THEN t
              ELSE IF kinds = {} \/ Len(b) < m THEN [t EXCEPT !.ok = FALSE]
              ELSE [t EXCEPT !.rest = From(b, m + 1),
                             !.path[CHOOSE k \in kinds : TRUE] =
                               IF m = 4 THEN Get16(b, 3) ELSE b[2]]
    BY <2>1, <2>3, Zenon DEF NextEPathSegment
  <2> QED
    BY <1>13, <2>1, <2>2, <2>4
<1>16. (IF n = 4 THEN Get16(b, 3) ELSE b[2]) = id
  BY <1>10, <1>14
<1>17. NextEPathSegment(t) = [t EXCEPT !.rest = y, !.path[kind] = id]
  <2> HIDE DEF t, n
  <2> QED
    BY <1>9, <1>12, <1>15, <1>16
<1>18. [t EXCEPT !.rest = y, !.path[kind] = id] =
         [ok |-> TRUE, path |-> [p EXCEPT ![kind] = id], rest |-> y]
  <2> DEFINE q == [p EXCEPT ![kind] = id]
  <2>1. [t EXCEPT !.rest = y, !.path[kind] = id] = [t EXCEPT !.rest = y, !.path = q]
    BY Zenon
  <2> HIDE DEF p, q
  <2> DEFINE yes == TRUE
             u == [ok |-> yes, path |-> p, rest |-> y]
  <2>2. t = [ok |-> yes, path |-> p, rest |-> b]
    OBVIOUS
  <2>3. [ok |-> TRUE, path |-> q, rest |-> y] = [ok |-> yes, path |-> q, rest |-> y]
    OBVIOUS
  <2>4. u = [ok |-> yes, path |-> p, rest |-> y]
    OBVIOUS
  <2> HIDE DEF t, u, yes
  <2>5. [t EXCEPT !.rest = y] = u
    BY <2>2, <2>4, NewRest
  <2>6. [u EXCEPT !.path = q] = [ok |-> yes, path |-> q, rest |-> y]
    BY <2>4, NewPath
  <2> QED
    BY <2>1, <2>3, <2>5, <2>6, Zenon DEF q
<1> QED
  BY <1>4, <1>8, <1>17, <1>18 DEF x, b

LEMMA NewClass ==
  ASSUME NEW c, NEW i, NEW a, NEW d, NEW t, t = EPathOf(c, i, a)
  PROVE  [t EXCEPT !["class"] = d] = EPathOf(d, i, a)
<1> DEFINE u == [t EXCEPT !["class"] = d]
           v == EPathOf(d, i, a)
<1>1. DOMAIN u = {"class", "instance", "attribute"} /\ DOMAIN v = {"class", "instance", "attribute"}
  BY DEF EPathOf
<1>2. \A k \in {"class", "instance", "attribute"} : u[k] = v[k]
  BY DEF EPathOf
<1>3. u = [k \in DOMAIN u |-> u[k]] /\ v = [k \in DOMAIN v |-> v[k]]
  BY DEF EPathOf
<1> HIDE DEF u, v
<1> QED
  BY <1>1, <1>2, <1>3 DEF u, v

LEMMA NewInstance ==
  ASSUME NEW c, NEW i, NEW a, NEW j, NEW t, t = EPathOf(c, i, a)
  PROVE  [t EXCEPT !["instance"] = j] = EPathOf(c, j, a)
<1> DEFINE u == [t EXCEPT !["instance"] = j]
           v == EPathOf(c, j, a)
<1>1. DOMAIN u = {"class", "instance", "attribute"} /\ DOMAIN v = {"class", "instance", "attribute"}
  BY DEF EPathOf
<1>2. \A k \in {"class", "instance", "attribute"} : u[k] = v[k]
  BY DEF EPathOf
<1>3. u = [k \in DOMAIN u |-> u[k]] /\ v = [k \in DOMAIN v |-> v[k]]
  BY DEF EPathOf
<1> HIDE DEF u, v
<1> QED
  BY <1>1, <1>2, <1>3 DEF u, v

\* A path of a class and an instance with small IDs is read as it was meant,
\* whether the IDs are sent in 8 or in 16 bits.
LEMMA PathDecoded ==
  ASSUME NEW class \in Nat, class <= 255, NEW instance \in Nat, instance <= 255,
         NEW bits8 \in BOOLEAN
  PROVE  LET p == EPathOf(class, instance, NoId)
             b == EPath(p, bits8)
         IN  /\ Over(b) /\ Len(b) = (IF bits8 THEN 4 ELSE 8)
             /\ DecodeEPath(b) = [ok |-> TRUE, path |-> p]
<1> DEFINE p == EPathOf(class, instance, NoId)
           b == EPath(p, bits8)
           x == LogicalSegment("class", class, bits8)
           y == LogicalSegment("instance", instance, bits8)
           p0 == EPathOf(0, NoId, NoId)
           p1 == EPathOf(class, NoId, NoId)
           t0 == [ok |-> TRUE, path |-> p0, rest |-> b]
           t1 == [ok |-> TRUE, path |-> p1, rest |-> y]
           t2 == [ok |-> TRUE, path |-> p, rest |-> <<>>]
           n == IF bits8 THEN 2 ELSE 4
<1>1. "class" \in {"class", "instance"} /\ "instance" \in {"class", "instance"}
  OBVIOUS
<1>2. Over(<<>>) /\ Len(<<>>) = 0
  BY EmptySeq DEF Over
<1>3. Over(y) /\ Len(y) = n
  BY <1>1, <1>2, PathStep
<1>4. NextEPathSegment([ok |-> TRUE, path |-> p1, rest |-> Then(y, <<>>)]) =
        [ok |-> TRUE, path |-> [p1 EXCEPT !["instance"] = instance], rest |-> <<>>]
  BY <1>1, <1>2, PathStep
<1>5. Over(x) /\ Len(x) = n
  BY <1>1, <1>2, PathStep
<1>6. NextEPathSegment([ok |-> TRUE, path |-> p0, rest |-> Then(x, y)]) =
        [ok |-> TRUE, path |-> [p0 EXCEPT !["class"] = class], rest |-> y]
  BY <1>1, <1>3, PathStep
<1>7. [p0 EXCEPT !["class"] = class] = p1
  BY NewClass
<1>8. [p1 EXCEPT !["instance"] = instance] = p
  BY NewInstance
<1> HIDE DEF x, y
<1>9. Then(y, <<>>) = y
  BY <1>3 DEF Then, Over
<1>10. b = Then(x, y)
  <2>1. p["class"] = class /\ p["instance"] = instance /\ p["attribute"] = NoId
    BY DEF EPathOf
  <2>2. class # NoId /\ instance # NoId
    BY DEF NoId
  <2> HIDE DEF p
  <2>3. b = x \o y \o <<>>
    BY <2>1, <2>2 DEF EPath, x, y
  <2> HIDE DEF b
  <2>4. (x \o y) \o <<>> = x \o y
    BY <1>3, <1>5 DEF Over
  <2> QED
    BY <2>3, <2>4 DEF Then
<1>11. Over(b) /\ Len(b) = n + n
  <2> HIDE DEF b, n
  <2>1. Over(Then(x, y)) /\ Len(Then(x, y)) = Len(x) + Len(y)
    BY ZenonT(60), <1>3, <1>5, Joined
  <2> QED
    BY <1>3, <1>5, <1>10, <2>1
<1>12. NextEPathSegment(t0) = t1
  BY <1>6, <1>7, <1>10, Zenon
<1>13. NextEPathSegment(t1) = t2
  BY <1>4, <1>8, <1>9, Zenon
<1>14. NextEPathSegment(t2) = t2
  <2>1. t2.rest = <<>>
    OBVIOUS
  <2> HIDE DEF t2
  <2> QED
    BY <2>1, Zenon DEF NextEPathSegment
<1>15. PathAfter(Len(b), t0) = t2
  <2>1. Len(b) \in Nat /\ Len(b) >= 2
    <3> HIDE DEF b
    <3> QED
      BY <1>11
  <2> HIDE DEF t0, t1, t2, b
  <2> QED
    BY <1>12, <1>13, <1>14, <2>1, PathRounds
<1>16. t2.ok /\ t2.path = p
  OBVIOUS
<1>17. DecodeEPath(b) = [ok |-> TRUE, path |-> p]
  <2> HIDE DEF t2, b, p
  <2> QED
    BY <1>15, <1>16, Zenon DEF PathAfter, DecodeEPath, t0, p0
<1> QED
  BY <1>11, <1>17

\* A request: its service, its path and its data.
RequestIs(b, service, path, w, data) ==
  /\ Over(b) /\ Len(b) = 2 + Len(path) + Len(data) /\ Len(b) \in Nat
  /\ b[1] = service /\ b[2] = w
  /\ SubSeq(b, 3, 2 + 2 * w) = path /\ From(b, 3 + 2 * w) = data

LEMMA RequestRead ==
  ASSUME NEW service \in Nat, NEW path, Over(path), NEW w \in Nat, Len(path) = 2 * w, w <= 255,
         NEW data, Over(data)
  PROVE  RequestIs(Request(service, path, data), service, path, w, data)
<1> DEFINE h  == <<service, w>>
           hp == Then(h, path)
           b  == Request(service, path, data)
<1>1. U8(Len(path) \div 2) = w
  <2>1. (2 * w) \div 2 = w /\ w % 256 = w
    OBVIOUS
  <2> QED
    BY <2>1 DEF U8
<1>2. Over(h) /\ Len(h) = 2 /\ h[1] = service /\ h[2] = w
  BY DEF Over
<1>3. b = Then(hp, data)
  BY <1>1 DEF Request, Then
<1> HIDE DEF h, hp, b
<1>4. Over(hp) /\ Len(hp) = Len(h) + Len(path) /\ Len(path) \in Nat /\ Len(data) \in Nat
  BY <1>2, Joined DEF hp
<1>5. Over(b) /\ Len(b) = Len(hp) + Len(data)
  BY <1>3, <1>4, Joined
<1>6. Len(b) = 2 + Len(path) + Len(data) /\ Len(hp) = 2 + Len(path) /\ Len(b) \in Nat
  BY <1>2, <1>4, <1>5
<1>7. Holds(hp, 1, h) /\ Holds(hp, Len(h) + 1, path)
  BY <1>2, First, Second DEF hp
<1>8. Holds(hp, 3, path)
  BY <1>2, <1>7
<1>9. Holds(b, 1, h) /\ Holds(b, 3, path)
  <2>1. 1 \in Nat /\ 1 >= 1 /\ 3 \in Nat /\ 3 >= 1
    OBVIOUS
  <2> QED
    BY <1>2, <1>3, <1>4, <1>7, <1>8, <2>1, Kept
<1>10. b[1] = service /\ b[2] = w
  <2>1. 1 \in 1..Len(h) /\ 2 \in 1..Len(h) /\ 1 + 1 - 1 = 1 /\ 1 + 2 - 1 = 2
    BY <1>2
  <2>2. b[1 + 1 - 1] = h[1] /\ b[1 + 2 - 1] = h[2]
    BY <1>9, <2>1 DEF Holds
  <2> QED
    BY <1>2, <2>1, <2>2
<1>11. SubSeq(b, 3, 2 + 2 * w) = path
  <2>1. 3 \in Nat /\ 3 >= 1 /\ 3 + Len(path) - 1 = 2 + 2 * w
    OBVIOUS
  <2>2. SubSeq(b, 3, 3 + Len(path) - 1) = path
    BY <1>5, <1>9, <2>1, Cut
  <2> QED
    BY <2>1, <2>2
<1>12. From(b, 3 + 2 * w) = data
  <2>1. From(Then(hp, data), Len(hp) + 1) = data
    BY <1>4, Rest
  <2>2. Len(hp) + 1 = 3 + 2 * w
    BY <1>6
  <2> QED
    BY <1>3, <2>1, <2>2
<1> QED
  BY <1>5, <1>6, <1>10, <1>11, <1>12 DEF RequestIs, b

=============================================================================
