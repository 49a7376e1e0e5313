-------------------------------- MODULE DeviceProofs ------------------------
(***************************************************************************)
(* Objects read from a drive, and limits set in engineering units, for any *)
(* object, scaling and limit and integer types of one, two and four bytes. *)
(*                                                                         *)
(* Take of a reply that begins like the fields put together gives them or  *)
(* an error (TakeExact, and Take2 to Take8 for lists of fields), so each   *)
(* decoder gives back what DeviceBytes encodes (AttributesExact,           *)
(* IdentityExact, FaultExact, ScalingExact).  The inductive invariant Inv  *)
(* says how much of the object each stage of ParameterObject::read holds,  *)
(* and that replies cut short can only be as long as all of them when they *)
(* are whole (ScalingInv).                                                 *)
(***************************************************************************)
EXTENDS Device, SequenceTheorems, WellFoundedInduction, TLAPS

-----------------------------------------------------------------------------
(* Integer types *)

Size == {1, 2, 4}

LEMMA SpanIs == Span(1) = 256 /\ Span(2) = 65536 /\ Span(4) = 4294967296
BY DEF Span

LEMMA LeBytesAre ==
  ASSUME NEW u \in Nat, NEW n \in Size
  PROVE  /\ LeBytes(u, n) \in Seq(Byte) /\ Len(LeBytes(u, n)) = n
         /\ LeBytes(u, n)[1] = u % 256
         /\ n > 1 => LeBytes(u, n)[2] = (u \div 256) % 256
         /\ n > 2 => /\ LeBytes(u, n)[3] = (u \div 65536) % 256
                     /\ LeBytes(u, n)[4] = (u \div 16777216) % 256
<1>1. u \div 1 = u
  OBVIOUS
<1>2. CASE n = 1
  BY <1>1, <1>2 DEF LeBytes, Weight, Byte
<1>3. CASE n = 2
  BY <1>1, <1>3 DEF LeBytes, Weight, Byte
<1>4. CASE n = 4
  BY <1>1, <1>4 DEF LeBytes, Weight, Byte
<1> QED
  BY <1>2, <1>3, <1>4 DEF Size

LEMMA Weights == Weight[1] = 1 /\ Weight[2] = 256 /\ Weight[3] = 65536 /\ Weight[4] = 16777216
BY SMT DEF Weight

LEMMA UnsignedOf2 ==
  ASSUME NEW b, Len(b) = 2, NEW w \in Int, NEW x \in Int, b[1] = w, b[2] = x
  PROVE  Unsigned(b) = w + 256 * x
BY Weights, SMT DEF Unsigned

LEMMA UnsignedOf1 ==
  ASSUME NEW b, Len(b) = 1, NEW w \in Int, b[1] = w
  PROVE  Unsigned(b) = w
BY Weights, SMT DEF Unsigned

LEMMA UnsignedOf4 ==
  ASSUME NEW b, Len(b) = 4, NEW w \in Int, NEW x \in Int, NEW y \in Int, NEW z \in Int,
         b[1] = w, b[2] = x, b[3] = y, b[4] = z
  PROVE  Unsigned(b) = w + 256 * x + 65536 * y + 16777216 * z
BY Weights, SMT DEF Unsigned

LEMMA Digits ==
  ASSUME NEW u \in Nat
  PROVE  /\ u < 256 => u % 256 = u
         /\ u < 65536 => (u % 256) + 256 * ((u \div 256) % 256) = u
         /\ u < 4294967296 =>
              (u % 256) + 256 * ((u \div 256) % 256) + 65536 * ((u \div 65536) % 256)
                + 16777216 * ((u \div 16777216) % 256) = u
BY SMT

\* The bytes of a number give it back.
LEMMA UnsignedBack ==
  ASSUME NEW u \in Nat, NEW n \in Size, u < Span(n)
  PROVE  Unsigned(LeBytes(u, n)) = u
<1> DEFINE d1 == u % 256
           d2 == (u \div 256) % 256
           d3 == (u \div 65536) % 256
           d4 == (u \div 16777216) % 256
<1>1. d1 \in Int /\ d2 \in Int /\ d3 \in Int /\ d4 \in Int
  BY SMT
<1>2. /\ Len(LeBytes(u, n)) = n /\ LeBytes(u, n)[1] = d1
      /\ n > 1 => LeBytes(u, n)[2] = d2
      /\ n > 2 => LeBytes(u, n)[3] = d3 /\ LeBytes(u, n)[4] = d4
  BY LeBytesAre
<1>3. /\ u < 256 => d1 = u
      /\ u < 65536 => d1 + 256 * d2 = u
      /\ u < 4294967296 => d1 + 256 * d2 + 65536 * d3 + 16777216 * d4 = u
  BY Digits
<1> HIDE DEF d1, d2, d3, d4
<1>4. CASE n = 1
  BY <1>1, <1>2, <1>3, <1>4, SpanIs, UnsignedOf1, SMT
<1>5. CASE n = 2
  <2>1. Len(LeBytes(u, n)) = 2 /\ LeBytes(u, n)[1] = d1 /\ LeBytes(u, n)[2] = d2
    BY <1>2, <1>5
  <2>2. Unsigned(LeBytes(u, n)) = d1 + 256 * d2
    BY <1>1, <2>1, UnsignedOf2, SMT
  <2> QED
    BY <1>3, <1>5, <2>2, SpanIs
<1>6. CASE n = 4
  <2>1. /\ Len(LeBytes(u, n)) = 4 /\ LeBytes(u, n)[1] = d1 /\ LeBytes(u, n)[2] = d2
        /\ LeBytes(u, n)[3] = d3 /\ LeBytes(u, n)[4] = d4
    BY <1>2, <1>6
  <2>2. Unsigned(LeBytes(u, n)) = d1 + 256 * d2 + 65536 * d3 + 16777216 * d4
    BY <1>1, <2>1, UnsignedOf4, SMT
  <2> QED
    BY <1>3, <1>6, <2>2, SpanIs
<1> QED
  BY <1>4, <1>5, <1>6 DEF Size

LEMMA RangeOf ==
  ASSUME NEW T \in [size : Size, signed : BOOLEAN]
  PROVE  /\ Span(T.size) \in Nat /\ Span(T.size) >= 256
         /\ MinOf(T) \in Int /\ MaxOf(T) \in Int /\ MinOf(T) <= 0 /\ 0 <= MaxOf(T)
         /\ MaxOf(T) = Span(T.size) - 1 + MinOf(T)
         /\ MaxOf(T) < Span(T.size) /\ 2 * MinOf(T) >= 0 - Span(T.size)
BY SpanIs DEF MinOf, MaxOf, Size

\* decode gives back what encode was given.
LEMMA DecodeBack ==
  ASSUME NEW T \in [size : Size, signed : BOOLEAN], NEW v \in MinOf(T)..MaxOf(T)
  PROVE  Decode(Bytes(v, T.size), T) = [ok |-> TRUE, v |-> v]
<1> DEFINE u == v % Span(T.size)
<1>1. /\ Span(T.size) \in Nat /\ Span(T.size) >= 256
      /\ MinOf(T) \in Int /\ MaxOf(T) \in Int /\ MinOf(T) <= 0 /\ 0 <= MaxOf(T)
      /\ MaxOf(T) = Span(T.size) - 1 + MinOf(T)
      /\ 2 * MinOf(T) >= 0 - Span(T.size)
  BY RangeOf
<1>2. u = IF v >= 0 THEN v ELSE v + Span(T.size)
  <2>1. T.size \in Size
    OBVIOUS
  <2> QED
    BY <1>1, <2>1, SpanIs DEF Size
<1>3. u \in Nat /\ u < Span(T.size)
  BY <1>1, <1>2
<1>4. Len(Bytes(v, T.size)) = T.size /\ Unsigned(Bytes(v, T.size)) = u
  <2> HIDE DEF u
  <2> T.size \in Size
    OBVIOUS
  <2>1. Bytes(v, T.size) = LeBytes(u, T.size)
    BY DEF Bytes, u
  <2> QED
    BY <1>3, <2>1, LeBytesAre, UnsignedBack
<1>5. (IF u > MaxOf(T) THEN u - Span(T.size) ELSE u) = v
  <2> HIDE DEF u
  <2> QED
    BY <1>1, <1>2
<1> QED
  BY <1>4, <1>5 DEF Decode

-----------------------------------------------------------------------------
(* Engineering units *)

LEMMA Smaller ==
  ASSUME NEW a \in Int, NEW b \in Int
  PROVE  Min({a, b}) = IF a <= b THEN a ELSE b
<1>1. \A x \in {a, b} : (\A y \in {a, b} : x <= y) <=> x = (IF a <= b THEN a ELSE b)
  OBVIOUS
<1> QED
  BY <1>1 DEF Min

LEMMA Larger ==
  ASSUME NEW a \in Int, NEW b \in Int
  PROVE  Max({a, b}) = IF a >= b THEN a ELSE b
<1>1. \A x \in {a, b} : (\A y \in {a, b} : x >= y) <=> x = (IF a >= b THEN a ELSE b)
  OBVIOUS
<1> QED
  BY <1>1 DEF Max

Clamped(v, low, high) == Max({low, Min({high, v})})

\* Of the integers from low to high, none next to the clamped one has a multiple
\* of d closer to n.
LEMMA ClampedNearest ==
  ASSUME NEW n \in Int, NEW d \in Nat \ {0}, NEW low \in Int, NEW high \in Int,
         low <= high, NEW v \in Rounded(n, d)
  PROVE  LET x == Clamped(v, low, high)
         IN  /\ x \in low..high
             /\ \A w \in {x - 1, x + 1} \cap low..high :
                  Abs(x * d - n) <= Abs(w * d - n)
<1> DEFINE q == n \div d
           x == Clamped(v, low, high)
<1>1. q \in Int /\ q * d <= n /\ n < q * d + d
  OBVIOUS
<1>2. /\ v \in {q, q + 1}
      /\ v = q => 2 * (n - q * d) <= d
      /\ v = q + 1 => 2 * (n - q * d) >= d
  BY <1>1 DEF Rounded
<1>3. x = IF v > high THEN high ELSE IF v < low THEN low ELSE v
  BY <1>2, <1>1, Smaller, Larger DEF Clamped
<1>4. x \in low..high
  BY <1>1, <1>2, <1>3
<1> HIDE DEF q, x
<1>5. ASSUME NEW w \in {x - 1, x + 1} \cap low..high
      PROVE  Abs(x * d - n) <= Abs(w * d - n)
  <2>1. q * d \in Int /\ x * d \in Int /\ (q + 1) * d = q * d + d
    BY <1>1, <1>4
  <2>2. w * d = IF w = x - 1 THEN x * d - d ELSE x * d + d
    BY <1>4, <1>5
  <2>3. x < q => x * d <= q * d - d
    <3>1. x < q => x * d <= (q - 1) * d
      BY <1>1, <1>4
    <3>2. (q - 1) * d = q * d - d
      BY <1>1
    <3> QED
      BY <3>1, <3>2
  <2>4. x > q + 1 => x * d >= q * d + d + d
    <3>1. x > q + 1 => (q + 2) * d <= x * d
      BY <1>1, <1>4
    <3>2. (q + 2) * d = q * d + d + d
      BY <1>1
    <3> QED
      BY <3>1, <3>2
  <2> DEFINE X == x * d
             Q == q * d
  <2>5. /\ X \in Int /\ Q \in Int /\ Q <= n /\ n < Q + d
        /\ x < q => X <= Q - d
        /\ x > q + 1 => X >= Q + d + d
        /\ x = q => X = Q
        /\ x = q + 1 => X = Q + d
    BY <1>1, <2>1, <2>3, <2>4
  <2>6. /\ w * d = IF w = x - 1 THEN X - d ELSE X + d
        /\ v = q => 2 * (n - Q) <= d
        /\ v = q + 1 => 2 * (n - Q) >= d
    BY <1>2, <2>2
  <2>7. x * d = X
    OBVIOUS
  <2> HIDE DEF X, Q
  <2>8. \/ X <= n /\ w = x - 1
        \/ X >= n /\ w = x + 1
        \/ v = q /\ X = Q /\ w = x + 1
        \/ v = q + 1 /\ X = Q + d /\ w = x - 1
    BY <1>1, <1>2, <1>3, <1>5, <2>5
  <2>9. Abs(X - n) <= Abs(w * d - n)
    BY <2>5, <2>6, <2>8, <1>4, <1>5 DEF Abs
  <2> QED
    BY <2>7, <2>9
<1> QED
  BY <1>4, <1>5 DEF x

-----------------------------------------------------------------------------
(* Reading fields *)

LEMMA Induction ==
  ASSUME NEW S, S \subseteq Nat, 0 \in S, \A n \in S : n + 1 \in S
  PROVE  S = Nat
<1> SUFFICES ASSUME Nat \ S # {} PROVE FALSE
  OBVIOUS
<1> DEFINE Less == OpToRel(<, Nat)
           T == Nat \ S
<1>1. PICK m \in T : \A y \in T : ~(<<y, m>> \in Less)
  <2>1. IsWellFoundedOn(Less, Nat)
    BY NatLessThanWellFounded
  <2>2. T \subseteq Nat /\ T # {}
    OBVIOUS
  <2> HIDE DEF Less, T
  <2> QED
    BY <2>1, <2>2, WFMin
<1>2. m # 0 /\ m - 1 \in Nat
  OBVIOUS
<1>3. <<m - 1, m>> \in Less
  BY <1>2 DEF OpToRel
<1>4. m - 1 \in S
  BY <1>1, <1>2, <1>3
<1>5. (m - 1) + 1 \in S
  BY <1>4
<1> QED
  BY <1>5, <1>2

\* Before any field is taken.
Whole(b) == [ok |-> TRUE, fields |-> <<>>, rest |-> b]

\* The recursive function of Take exists.
Taken(b, widths, n, f) ==
  f = [k \in 0..n |-> IF k = 0 THEN Whole(b) ELSE Get(f[k - 1], widths[k])]

LEMMA TakenExists ==
  ASSUME NEW b, NEW widths
  PROVE  \A n \in Nat : \E f : Taken(b, widths, n, f)
<1> DEFINE Good == {n \in Nat : \E f : Taken(b, widths, n, f)}
<1>1. 0 \in Good
  <2> DEFINE f == [k \in 0..0 |-> Whole(b)]
  <2>1. Taken(b, widths, 0, f)
    BY DEF Taken
  <2> QED
    BY <2>1
<1>2. ASSUME NEW n \in Good PROVE n + 1 \in Good
  <2>1. n \in Nat
    OBVIOUS
  <2>2. PICK f : Taken(b, widths, n, f)
    OBVIOUS
  <2> DEFINE g == [k \in 0..(n + 1) |-> IF k = n + 1 THEN Get(f[n], widths[n + 1]) ELSE f[k]]
  <2>3. \A k \in 0..(n + 1) :
          g[k] = IF k = 0 THEN Whole(b) ELSE Get(g[k - 1], widths[k])
    <3> TAKE k \in 0..(n + 1)
    <3>1. CASE k = 0
      BY <2>1, <2>2, <3>1 DEF Taken
    <3>2. CASE k \in 1..n
      <4>1. k \in 0..n /\ k - 1 \in 0..n /\ k # n + 1 /\ k - 1 # n + 1 /\ k # 0
        BY <2>1, <3>2
      <4>2. g[k] = f[k] /\ g[k - 1] = f[k - 1]
        BY <2>1, <4>1
      <4>3. f[k] = Get(f[k - 1], widths[k])
        BY <2>2, <4>1 DEF Taken
      <4> QED
        BY <4>1, <4>2, <4>3
    <3>3. CASE k = n + 1
      <4>1. g[k] = Get(f[n], widths[k]) /\ g[n] = f[n] /\ k - 1 = n /\ k # 0
        BY <2>1, <3>3
      <4> QED
        BY <4>1
    <3> QED
      BY <2>1, <3>1, <3>2, <3>3
  <2>4. Taken(b, widths, n + 1, g)
    BY <2>3 DEF Taken
  <2> HIDE DEF g
  <2> QED
    BY <2>1, <2>4
<1>3. Good = Nat
  <2> HIDE DEF Good
  <2>1. Good \subseteq Nat
    BY DEF Good
  <2> QED
    BY <1>1, <1>2, <2>1, Induction
<1> QED
  BY <1>3

\* Take is one Get after another.
LEMMA TakeSteps ==
  ASSUME NEW b, NEW widths, Len(widths) \in Nat
  PROVE  \E f : /\ f[0] = Whole(b)
                /\ \A k \in 1..Len(widths) : f[k] = Get(f[k - 1], widths[k])
                /\ Take(b, widths) = f[Len(widths)]
<1> DEFINE f[k \in 0..Len(widths)] ==
      IF k = 0 THEN Whole(b) ELSE Get(f[k - 1], widths[k])
<1>1. f = [k \in 0..Len(widths) |-> IF k = 0 THEN Whole(b) ELSE Get(f[k - 1], widths[k])]
  <2>1. \E h : Taken(b, widths, Len(widths), h)
    BY TakenExists
  <2> QED
    BY <2>1 DEF f, Taken
<1>2. Take(b, widths) = f[Len(widths)]
  BY DEF Take, Whole
<1> HIDE DEF f
<1>3. f[0] = Whole(b) /\ \A k \in 1..Len(widths) : f[k] = Get(f[k - 1], widths[k])
  BY <1>1
<1> QED
  BY <1>2, <1>3

\* The buffer s is what has arrived of r.
Start(s, r) == \E m \in 0..Len(r) : s = SubSeq(r, 1, m)

\* The bytes a are a field of the given width that holds x.
Field(a, width, x) ==
  \/ width # SHORT_STRING /\ Len(a) = width /\ x = a
  \/ width = SHORT_STRING /\ a = <<Len(x)>> \o x

LEMMA StartOfConcat ==
  ASSUME NEW a \in Seq(Byte), NEW r \in Seq(Byte), NEW s, Start(s, a \o r)
  PROVE  /\ s \in Seq(Byte)
         /\ \A i \in 1..Len(a) : i <= Len(s) => s[i] = a[i]
         /\ Len(s) >= Len(a) => /\ SubSeq(s, 1, Len(a)) = a
                                /\ Start(From(s, Len(a) + 1), r)
<1>1. PICK m \in 0..Len(a \o r) : s = SubSeq(a \o r, 1, m)
  BY DEF Start
<1>2. /\ a \o r \in Seq(Byte) /\ Len(a \o r) = Len(a) + Len(r)
      /\ \A i \in 1..(Len(a) + Len(r)) :
           (a \o r)[i] = IF i <= Len(a) THEN a[i] ELSE r[i - Len(a)]
  BY ConcatProperties
<1>3. Len(a) \in Nat /\ Len(r) \in Nat /\ m \in Nat /\ m <= Len(a) + Len(r)
  BY <1>1, <1>2, LenProperties
<1>4. s \in Seq(Byte) /\ Len(s) = m /\ \A i \in 1..m : s[i] = (a \o r)[i]
  <2>1. \A i \in 1..m : (a \o r)[i] \in Byte
    BY <1>2, <1>3, ElementOfSeq
  <2> HIDE DEF Byte
  <2>2. /\ SubSeq(a \o r, 1, m) \in Seq(Byte)
        /\ Len(SubSeq(a \o r, 1, m)) = IF 1 <= m THEN m - 1 + 1 ELSE 0
        /\ \A i \in 1..(m - 1 + 1) : SubSeq(a \o r, 1, m)[i] = (a \o r)[1 + i - 1]
    BY <1>3, <2>1, SubSeqProperties
  <2>3. m - 1 + 1 = m /\ \A i \in 1..m : 1 + i - 1 = i
    BY <1>3
  <2> QED
    BY <1>1, <1>3, <2>2, <2>3
<1>5. \A i \in 1..Len(a) : i <= Len(s) => s[i] = a[i]
  BY <1>2, <1>3, <1>4
<1>6. ASSUME Len(s) >= Len(a)
      PROVE  SubSeq(s, 1, Len(a)) = a /\ Start(From(s, Len(a) + 1), r)
  <2> HIDE DEF Byte
  <2>1. \A i \in 1..Len(a) : s[i] = a[i] /\ s[i] \in Byte /\ a[i] \in Byte
    BY <1>3, <1>4, <1>5, <1>6, ElementOfSeq
  <2>2. SubSeq(s, 1, Len(a)) = a
    <3>1. /\ SubSeq(s, 1, Len(a)) \in Seq(Byte)
          /\ Len(SubSeq(s, 1, Len(a))) = IF 1 <= Len(a) THEN Len(a) - 1 + 1 ELSE 0
          /\ \A i \in 1..(Len(a) - 1 + 1) : SubSeq(s, 1, Len(a))[i] = s[1 + i - 1]
      BY <1>3, <2>1, SubSeqProperties
    <3>2. Len(a) - 1 + 1 = Len(a) /\ \A i \in 1..Len(a) : 1 + i - 1 = i
      BY <1>3
    <3>3. \A i \in 1..Len(a) : SubSeq(s, 1, Len(a))[i] = a[i]
      BY <2>1, <3>1, <3>2
    <3>4. Len(SubSeq(s, 1, Len(a))) = Len(a)
      BY <1>3, <3>1
    <3> QED
      BY <3>1, <3>3, <3>4, SeqEqual
  <2> DEFINE l == Len(a)
             t == SubSeq(s, l + 1, m)
             u == SubSeq(r, 1, m - l)
  <2>3. l \in Nat /\ m \in Nat /\ l <= m /\ m - l \in 0..Len(r)
    BY <1>3, <1>4, <1>6
  <2>4. /\ t \in Seq(Byte)
        /\ Len(t) = m - l
        /\ \A i \in 1..(m - l) : t[i] = s[l + i]
    <3>1. \A i \in (l + 1)..m : s[i] \in Byte
      BY <1>3, <1>4, ElementOfSeq
    <3>2. /\ t \in Seq(Byte)
          /\ Len(t) = IF l + 1 <= m THEN m - (l + 1) + 1 ELSE 0
          /\ \A i \in 1..(m - (l + 1) + 1) : t[i] = s[(l + 1) + i - 1]
      BY <2>3, <3>1, SubSeqProperties
    <3>3. m - (l + 1) + 1 = m - l /\ \A i \in 1..(m - l) : (l + 1) + i - 1 = l + i
      BY <2>3
    <3> QED
      BY <2>3, <3>2, <3>3
  <2>5. /\ u \in Seq(Byte)
        /\ Len(u) = m - l
        /\ \A i \in 1..(m - l) : u[i] = r[i]
    <3>1. \A i \in 1..(m - l) : r[i] \in Byte
      BY <1>3, <2>3, ElementOfSeq
    <3>2. /\ u \in Seq(Byte)
          /\ Len(u) = IF 1 <= m - l THEN (m - l) - 1 + 1 ELSE 0
          /\ \A i \in 1..((m - l) - 1 + 1) : u[i] = r[1 + i - 1]
      BY <2>3, <3>1, SubSeqProperties
    <3>3. (m - l) - 1 + 1 = m - l /\ \A i \in 1..(m - l) : 1 + i - 1 = i
      BY <2>3
    <3> QED
      BY <2>3, <3>2, <3>3
  <2>6. \A i \in 1..(m - l) : t[i] = u[i]
    <3> TAKE i \in 1..(m - l)
    <3>1. l + i \in 1..(Len(a) + Len(r)) /\ ~(l + i <= Len(a)) /\ l + i - Len(a) = i /\ l + i \in 1..m
      BY <1>3, <2>3
    <3>2. t[i] = (a \o r)[l + i]
      BY <1>4, <2>4, <3>1
    <3>3. (a \o r)[l + i] = r[i]
      BY <1>2, <3>1
    <3> HIDE DEF t, u
    <3> QED
      BY <2>5, <3>2, <3>3
  <2>7. t = u
    BY <2>4, <2>5, <2>6, SeqEqual
  <2> QED
    BY <1>4, <2>2, <2>3, <2>7 DEF Start, From
<1> QED
  BY <1>4, <1>5, <1>6

\* A field that has arrived is taken whole; of one that is cut nothing is.
LEMMA GetExact ==
  ASSUME NEW t, t.ok = TRUE, NEW a \in Seq(Byte), NEW r \in Seq(Byte), NEW x, NEW width \in Nat,
         Start(t.rest, a \o r), Field(a, width, x), x \in Seq(Byte)
  PROVE  \/ Get(t, width) = Err
         \/ /\ Get(t, width).ok = TRUE /\ Get(t, width).fields = Append(t.fields, x)
            /\ Start(Get(t, width).rest, r)
<1> DEFINE prefix == IF width = SHORT_STRING THEN 1 ELSE 0
           n      == IF prefix = 0 THEN width ELSE IF t.rest = <<>> THEN 0 ELSE t.rest[1]
<1>1. /\ t.rest \in Seq(Byte)
      /\ \A i \in 1..Len(a) : i <= Len(t.rest) => t.rest[i] = a[i]
      /\ Len(t.rest) >= Len(a) => /\ SubSeq(t.rest, 1, Len(a)) = a
                                  /\ Start(From(t.rest, Len(a) + 1), r)
  BY StartOfConcat
<1>2. Len(a) \in Nat /\ Len(t.rest) \in Nat /\ Len(x) \in Nat
  BY <1>1, LenProperties
<1>3. Get(t, width) =
        IF Len(t.rest) < prefix + n THEN Err
        ELSE [ok |-> TRUE, rest |-> From(t.rest, prefix + n + 1),
              fields |-> Append(t.fields, SubSeq(t.rest, prefix + 1, prefix + n))]
  BY DEF Get
<1>4. CASE width # SHORT_STRING
  <2>1. prefix = 0 /\ n = width /\ Len(a) = width /\ x = a
    BY <1>4 DEF Field
  <2> HIDE DEF prefix, n
  <2>2. prefix + n = Len(a) /\ prefix + 1 = 1
    BY <1>2, <2>1
  <2>3. CASE Len(t.rest) < Len(a)
    BY <1>3, <2>2, <2>3
  <2>4. CASE ~(Len(t.rest) < Len(a))
    <3>1. SubSeq(t.rest, 1, Len(a)) = x /\ Start(From(t.rest, Len(a) + 1), r)
      BY <1>1, <1>2, <2>1, <2>4
    <3> QED
      BY SMTT(60), <1>3, <2>2, <2>4, <3>1
  <2> QED
    BY <2>3, <2>4
<1>5. CASE width = SHORT_STRING
  <2>1. a = <<Len(x)>> \o x /\ prefix = 1
    BY <1>5 DEF Field
  <2>2. /\ Len(a) = Len(x) + 1 /\ a[1] = Len(x)
        /\ \A i \in 1..Len(x) : a[i + 1] = x[i]
    <3>1. <<Len(x)>> \in Seq(Nat) /\ x \in Seq(Nat) /\ Len(<<Len(x)>>) = 1
      <4>1. Byte \subseteq Nat
        BY DEF Byte
      <4> HIDE DEF Byte
      <4>2. x \in Seq(Nat)
        BY <4>1, SeqMonotonic
      <4> QED
        BY <1>2, <4>2
    <3>2. /\ Len(a) = 1 + Len(x)
          /\ \A i \in 1..(1 + Len(x)) : a[i] = IF i <= 1 THEN <<Len(x)>>[i] ELSE x[i - 1]
      BY <2>1, <3>1, ConcatProperties
    <3>3. Len(x) \in Nat
      BY <3>1
    <3>4. a[1] = Len(x)
      BY <3>2, <3>3
    <3>5. ASSUME NEW i \in 1..Len(x) PROVE a[i + 1] = x[i]
      <4>1. /\ i + 1 \in 1..(1 + Len(x)) /\ ~(i + 1 <= 1)
            /\ (i + 1) - 1 = i
        BY <3>3
      <4> QED
        BY <3>2, <4>1
    <3> QED
      BY <3>2, <3>3, <3>4, <3>5
  <2>3. CASE t.rest = <<>>
    <3>1. Len(t.rest) < prefix + n
      BY <2>1, <2>3
    <3> QED
      BY <1>3, <3>1
  <2>4. CASE t.rest # <<>>
    <3>1. Len(t.rest) >= 1
      BY <1>1, <1>2, <2>4, EmptySeq
    <3>2. t.rest[1] = a[1]
      BY <1>1, <1>2, <2>2, <3>1
    <3>3. n = Len(x)
      BY <1>5, <2>1, <2>2, <2>4, <3>2
    <3> HIDE DEF prefix, n
    <3>4. prefix + n = Len(a)
      BY <1>2, <2>1, <2>2, <3>3
    <3>5. CASE Len(t.rest) < Len(a)
      BY <1>3, <3>4, <3>5
    <3>6. CASE ~(Len(t.rest) < Len(a))
      <4>1. Start(From(t.rest, Len(a) + 1), r) /\ Len(t.rest) >= Len(a)
        BY <1>1, <1>2, <3>6
      <4> DEFINE y == SubSeq(t.rest, 2, Len(a))
      <4>2. y \in Seq(Byte) /\ Len(y) = Len(x) /\ \A i \in 1..Len(x) : y[i] = x[i]
        <5> HIDE DEF Byte
        <5>1. \A i \in 2..Len(a) : t.rest[i] \in Byte
          BY <1>1, <1>2, <4>1, ElementOfSeq
        <5>2. /\ y \in Seq(Byte)
              /\ Len(y) = IF 2 <= Len(a) THEN Len(a) - 2 + 1 ELSE 0
              /\ \A i \in 1..(Len(a) - 2 + 1) : y[i] = t.rest[2 + i - 1]
          BY <1>2, <5>1, SubSeqProperties
        <5>3. Len(a) - 2 + 1 = Len(x) /\ \A i \in 1..Len(x) : 2 + i - 1 = i + 1
          BY <1>2, <2>2
        <5>4. \A i \in 1..Len(x) : t.rest[i + 1] = a[i + 1]
          BY <1>1, <1>2, <2>2, <4>1
        <5> QED
          BY <1>2, <2>2, <5>2, <5>3, <5>4
      <4>3. y = x
        BY <4>2, SeqEqual
      <4>4. SubSeq(t.rest, prefix + 1, prefix + n) = x
        BY <2>1, <3>4, <4>3
      <4> HIDE DEF y
      <4> QED
        BY <1>3, <3>4, <3>6, <4>1, <4>4
    <3> QED
      BY <3>5, <3>6
  <2> QED
    BY <2>3, <2>4
<1> QED
  BY <1>4, <1>5

LEMMA GetErr == ASSUME NEW t, t.ok = FALSE, NEW width PROVE Get(t, width) = Err
BY DEF Get

\* What Take returns of a buffer that holds the beginning of n fields and what
\* follows them: rest[k] is what follows the k-th.
Laid(n, widths, part, value, rest) ==
  /\ n \in Nat /\ widths \in [1..n -> Nat] /\ Len(widths) = n
  /\ part \in [1..n -> Seq(Byte)] /\ value \in [1..n -> Seq(Byte)]
  /\ rest \in [0..n -> Seq(Byte)]
  /\ \A k \in 1..n : rest[k - 1] = part[k] \o rest[k] /\ Field(part[k], widths[k], value[k])

LEMMA TakeExact ==
  ASSUME NEW n, NEW widths, NEW part, NEW value, NEW rest, Laid(n, widths, part, value, rest),
         NEW b, Start(b, rest[0])
  PROVE  \/ Take(b, widths) = Err
         \/ /\ Take(b, widths).ok = TRUE
            /\ \A k \in 1..n : Take(b, widths).fields[k] = value[k]
            /\ Start(Take(b, widths).rest, rest[n])
<1>0. /\ n \in Nat /\ widths \in [1..n -> Nat] /\ Len(widths) = n
      /\ part \in [1..n -> Seq(Byte)] /\ value \in [1..n -> Seq(Byte)]
      /\ rest \in [0..n -> Seq(Byte)]
      /\ \A k \in 1..n : rest[k - 1] = part[k] \o rest[k] /\ Field(part[k], widths[k], value[k])
  BY DEF Laid
<1>n. n \in Nat
  BY <1>0
<1>1. PICK f : /\ f[0] = Whole(b)
               /\ \A k \in 1..n : f[k] = Get(f[k - 1], widths[k])
               /\ Take(b, widths) = f[n]
  BY <1>0, TakeSteps
<1> DEFINE So(k) == \/ f[k] = Err
                    \/ /\ f[k].ok = TRUE /\ f[k].fields \in Seq(Seq(Byte))
                       /\ Len(f[k].fields) = k
                       /\ \A i \in 1..k : f[k].fields[i] = value[i]
                       /\ Start(f[k].rest, rest[k])
           Good == {k \in Nat : k <= n => So(k)}
<1>2. 0 \in Good
  <2>1. f[0].ok = TRUE /\ f[0].fields = <<>> /\ f[0].rest = b
    BY <1>1 DEF Whole
  <2>2. <<>> \in Seq(Seq(Byte)) /\ Len(<<>>) = 0
    BY EmptySeq
  <2>3. So(0)
    BY <1>0, <2>1, <2>2
  <2> HIDE DEF So
  <2> QED
    BY <2>3
<1>3. ASSUME NEW k \in Good PROVE k + 1 \in Good
  <2>1. SUFFICES ASSUME k + 1 <= n PROVE So(k + 1)
    <3> HIDE DEF So
    <3> QED
      BY <2>1
  <2>2. k \in Nat /\ So(k) /\ k + 1 \in 1..n /\ (k + 1) - 1 = k
    <3> HIDE DEF So
    <3> QED
      BY <1>n, <2>1
  <2>3. f[k + 1] = Get(f[k], widths[k + 1])
    BY <1>1, <2>2
  <2>4. CASE f[k] = Err
    <3>1. f[k].ok = FALSE
      BY <2>4 DEF Err
    <3>2. f[k + 1] = Err
      BY <2>3, <3>1, GetErr
    <3> QED
      BY <3>2
  <2>5. CASE f[k] # Err
    <3>1. /\ f[k].ok = TRUE /\ f[k].fields \in Seq(Seq(Byte)) /\ Len(f[k].fields) = k
          /\ \A i \in 1..k : f[k].fields[i] = value[i]
          /\ Start(f[k].rest, rest[k])
      BY <2>2, <2>5
    <3>2. rest[k] = part[k + 1] \o rest[k + 1] /\ Field(part[k + 1], widths[k + 1], value[k + 1])
      BY <1>0, <2>2
    <3>3. part[k + 1] \in Seq(Byte) /\ rest[k + 1] \in Seq(Byte) /\ widths[k + 1] \in Nat
          /\ value[k + 1] \in Seq(Byte)
      BY <1>0, <2>2
    <3> DEFINE x == value[k + 1]
    <3>4. \/ f[k + 1] = Err
          \/ /\ f[k + 1].ok = TRUE /\ f[k + 1].fields = Append(f[k].fields, x)
             /\ Start(f[k + 1].rest, rest[k + 1])
      <4> DEFINE a == part[k + 1]
                 r == rest[k + 1]
                 w == widths[k + 1]
                 t == f[k]
      <4>1. /\ t.ok = TRUE /\ a \in Seq(Byte) /\ r \in Seq(Byte) /\ x \in Seq(Byte) /\ w \in Nat
            /\ Start(t.rest, a \o r) /\ Field(a, w, x) /\ f[k + 1] = Get(t, w)
        BY <2>3, <3>1, <3>2, <3>3
      <4> HIDE DEF a, r, w, t, x
      <4>2. \/ Get(t, w) = Err
            \/ /\ Get(t, w).ok = TRUE /\ Get(t, w).fields = Append(t.fields, x)
               /\ Start(Get(t, w).rest, r)
        BY <4>1, GetExact
      <4> QED
        BY <4>1, <4>2 DEF t, r
    <3>5. CASE f[k + 1] # Err
      <4>1. /\ f[k + 1].ok = TRUE /\ f[k + 1].fields = Append(f[k].fields, x)
            /\ Start(f[k + 1].rest, rest[k + 1])
        BY <3>4, <3>5
      <4>2. x \in Seq(Byte) /\ x = value[k + 1]
        BY <3>3
      <4> HIDE DEF x
      <4>3. /\ Append(f[k].fields, x) \in Seq(Seq(Byte))
            /\ Len(Append(f[k].fields, x)) = k + 1
            /\ \A i \in 1..k : Append(f[k].fields, x)[i] = f[k].fields[i]
            /\ Append(f[k].fields, x)[k + 1] = x
        <5> DEFINE g == f[k].fields
                   B == Seq(Byte)
        <5>1. g \in Seq(B) /\ Len(g) = k /\ x \in B
          BY <3>1, <4>2
        <5> HIDE DEF g, B
        <5>2. /\ Append(g, x) \in Seq(B) /\ Len(Append(g, x)) = Len(g) + 1
              /\ \A i \in 1..Len(g) : Append(g, x)[i] = g[i]
              /\ Append(g, x)[Len(g) + 1] = x
          BY <5>1, AppendProperties
        <5>3. /\ Append(g, x) \in Seq(B) /\ Len(Append(g, x)) = k + 1
              /\ \A i \in 1..k : Append(g, x)[i] = g[i]
              /\ Append(g, x)[k + 1] = x
          BY <5>1, <5>2
        <5> QED
          BY <5>3 DEF g, B
      <4>4. \A i \in 1..(k + 1) : i \in 1..k \/ i = k + 1
        BY <2>2
      <4> QED
        BY <3>1, <4>1, <4>2, <4>3, <4>4
    <3> QED
      BY <3>5
  <2> QED
    BY <2>4, <2>5
<1>4. Good = Nat
  <2> HIDE DEF So
  <2>1. Good \subseteq Nat
    OBVIOUS
  <2> HIDE DEF Good
  <2> QED
    BY <1>2, <1>3, <2>1, Induction
<1>5. So(n)
  <2> HIDE DEF So
  <2> QED
    BY <1>n, <1>4
<1> QED
  BY <1>1, <1>5

-----------------------------------------------------------------------------
(* The objects of a device and their bytes *)

LEMMA Closed == \A x, y \in Seq(Byte) : x \o y \in Seq(Byte)
BY ConcatProperties

\* Concatenation under another name: the prover regroups s \o t \o u for ever.
Over(s)    == s \in Seq(Byte)
Then(s, t) == s \o t

LEMMA Closure == ASSUME NEW s, Over(s), NEW t, Over(t) PROVE Over(Then(s, t))
BY ConcatProperties DEF Over, Then

LEMMA Assoc ==
  ASSUME NEW s, Over(s), NEW t, Over(t), NEW u, Over(u)
  PROVE  Then(Then(s, t), u) = Then(s, Then(t, u))
BY ConcatAssociative DEF Over, Then

\* Three and four parts in front of r, one after another.
LEMMA Right3 ==
  ASSUME NEW a, Over(a), NEW b, Over(b), NEW c, Over(c), NEW r, Over(r)
  PROVE  Then(Then(Then(a, b), c), r) = Then(a, Then(b, Then(c, r)))
<1>1. Over(Then(a, b)) /\ Over(Then(c, r))
  BY Closure
<1>2. Then(Then(Then(a, b), c), r) = Then(Then(a, b), Then(c, r))
  BY <1>1, Assoc
<1> QED
  BY <1>1, <1>2, Assoc

LEMMA Right4 ==
  ASSUME NEW a, Over(a), NEW b, Over(b), NEW c, Over(c), NEW d, Over(d), NEW r, Over(r)
  PROVE  Then(Then(Then(Then(a, b), c), d), r) = Then(a, Then(b, Then(c, Then(d, r))))
<1>1. Over(Then(a, b)) /\ Over(Then(c, Then(d, r)))
  BY Closure
<1>2. Then(Then(Then(Then(a, b), c), d), r) = Then(Then(a, b), Then(c, Then(d, r)))
  BY <1>1, Right3
<1> QED
  BY <1>1, <1>2, Assoc

LEMMA SmallIsByte == \A n \in Nat : n <= 255 => n \in Byte
BY DEF Byte

\* The bytes of the fields.
LEMMA Pieces ==
  /\ \A n \in Byte : <<n>> \in Seq(Byte) /\ Len(<<n>>) = 1 /\ <<n>>[1] = n
  /\ \A m, n \in Byte : <<m, n>> \in Seq(Byte) /\ Len(<<m, n>>) = 2
                        /\ <<m, n>>[1] = m /\ <<m, n>>[2] = n
  /\ \A n \in Nat : Zeros(n) \in Seq(Byte) /\ Len(Zeros(n)) = n
<1>1. 0 \in Byte
  BY DEF Byte
<1>2. ASSUME NEW n \in Nat PROVE Zeros(n) \in Seq(Byte) /\ Len(Zeros(n)) = n
  BY <1>1 DEF Zeros
<1> QED
  BY <1>2

LEMMA Le16Is ==
  ASSUME NEW n \in Word
  PROVE  /\ Le16(n) \in Seq(Byte) /\ Len(Le16(n)) = 2
         /\ Unsigned(Le16(n)) = n
<1> DEFINE w == n % 256
           x == (n \div 256) % 256
<1>1. w \in Byte /\ x \in Byte /\ w + 256 * x = n
  <2>1. n \in Nat /\ n < 65536
    BY DEF Word
  <2> QED
    BY <2>1, Digits, SMT DEF Byte
<1>2. Le16(n) = <<w, x>>
  BY DEF Le16
<1> HIDE DEF w, x
<1>3. <<w, x>> \in Seq(Byte) /\ Len(<<w, x>>) = 2 /\ <<w, x>>[1] = w /\ <<w, x>>[2] = x
  BY <1>1, Pieces
<1>4. w \in Int /\ x \in Int
  BY <1>1 DEF Byte
<1>5. Unsigned(<<w, x>>) = w + 256 * x
  BY <1>3, <1>4, UnsignedOf2
<1> QED
  BY <1>1, <1>2, <1>3, <1>5

LEMMA BytesAre ==
  ASSUME NEW v \in Int, NEW n \in Size
  PROVE  /\ Bytes(v, n) \in Seq(Byte) /\ Len(Bytes(v, n)) = n
         /\ v \in Nat /\ v < Span(n) => Unsigned(Bytes(v, n)) = v
<1>1. v % Span(n) \in Nat /\ (v \in Nat /\ v < Span(n) => v % Span(n) = v)
  <2>1. CASE n = 1
    BY <2>1, SpanIs
  <2>2. CASE n = 2
    BY <2>2, SpanIs
  <2>3. CASE n = 4
    BY <2>3, SpanIs, SMT
  <2> QED
    BY <2>1, <2>2, <2>3 DEF Size
<1> QED
  BY <1>1, LeBytesAre, UnsignedBack DEF Bytes

LEMMA ShortIs ==
  ASSUME NEW text \in Texts
  PROVE  /\ text \in Seq(Byte) /\ Short(text) \in Seq(Byte)
         /\ Field(Short(text), SHORT_STRING, text)
<1>1. text \in Seq(Byte) /\ Len(text) <= 255 /\ Len(text) \in Nat
  BY LenProperties DEF Texts
<1>2. <<Len(text)>> \in Seq(Byte)
  <2>1. Len(text) <= 255 /\ Len(text) \in Nat
    BY <1>1
  <2>2. Len(text) \in Byte
    BY <2>1, SmallIsByte
  <2> QED
    BY <2>2, Pieces
<1> QED
  BY <1>1, <1>2, Closed DEF Short, Field

LEMMA Nothing == ASSUME NEW s, Over(s) PROVE s = Then(s, <<>>)
BY ConcatSimplifications, ConcatEmptySeq DEF Over, Then

\* Take of two, four, six, seven and eight fields, as they are put together.
Fits2(b, w1, w2, p1, p2, v1, v2) ==
  /\ w1 \in Nat /\ w2 \in Nat
  /\ Over(p1) /\ Over(p2)
  /\ v1 \in Seq(Byte) /\ v2 \in Seq(Byte)
  /\ Field(p1, w1, v1) /\ Field(p2, w2, v2)
  /\ Start(b, Then(p1, p2))

Got2(t, v1, v2) ==
  \/ t = Err
  \/ /\ t.ok = TRUE
     /\ t.fields[1] = v1 /\ t.fields[2] = v2

LEMMA Take2 ==
  ASSUME NEW b, NEW w1, NEW w2, NEW p1, NEW p2, NEW v1, NEW v2,
         Fits2(b, w1, w2, p1, p2, v1, v2)
  PROVE  Got2(Take(b, <<w1, w2>>), v1, v2)
<1> DEFINE n == 2
           widths == <<w1, w2>>
           part  == [k \in 1..n |-> IF k = 1 THEN p1 ELSE p2]
           value == [k \in 1..n |-> IF k = 1 THEN v1 ELSE v2]
           r1 == p2
           r0 == Then(p1, r1)
           rest  == [k \in 0..n |-> IF k = 0 THEN r0 ELSE IF k = 1 THEN r1 ELSE <<>>]
<1>  /\ w1 \in Nat /\ w2 \in Nat
     /\ Over(p1) /\ Over(p2)
     /\ v1 \in Seq(Byte) /\ v2 \in Seq(Byte)
     /\ Field(p1, w1, v1) /\ Field(p2, w2, v2)
     /\ Start(b, Then(p1, p2))
  BY DEF Fits2
<1>1. /\ Over(r1) /\ Over(r0)
      /\ Start(b, r0)
  <2> HIDE DEF r0, r1
  <2>1. Over(r1)
    BY Closure DEF r1
  <2>2. Over(r0)
    BY <2>1, Closure DEF r0
  <2>3. Start(b, r0)
    BY DEF r0, r1
  <2> HIDE DEF r0, r1
  <2> QED
    BY <2>1, <2>2, <2>3
<1>2. widths \in [1..n -> Nat] /\ Len(widths) = n
  OBVIOUS
<1> HIDE DEF r0, r1
<1>3. part \in [1..n -> Seq(Byte)] /\ value \in [1..n -> Seq(Byte)]
  BY DEF Over
<1>4. rest \in [0..n -> Seq(Byte)]
  BY <1>1 DEF Over
<1>5. \A k \in 1..n : rest[k - 1] = Then(part[k], rest[k]) /\ Field(part[k], widths[k], value[k])
  <2>1. /\ r0 = Then(p1, r1) /\ r1 = Then(p2, <<>>)
    BY <1>1, Nothing DEF r0, r1
  <2>2. \A k \in 1..n : k = 1 \/ k = 2
    OBVIOUS
  <2> QED
    BY <2>1, <2>2
<1>6. Start(b, rest[0])
  BY <1>1
<1> HIDE DEF widths, part, value, rest
<1>7. \A k \in 1..n : rest[k - 1] = part[k] \o rest[k] /\ Field(part[k], widths[k], value[k])
  BY <1>5 DEF Then
<1>8. \/ Take(b, widths) = Err
      \/ /\ Take(b, widths).ok = TRUE
         /\ \A k \in 1..n : Take(b, widths).fields[k] = value[k]
         /\ Start(Take(b, widths).rest, rest[n])
  <2>1. n \in Nat
    OBVIOUS
  <2> HIDE DEF n
  <2>2. Laid(n, widths, part, value, rest)
    BY <1>2, <1>3, <1>4, <1>7, <2>1 DEF Laid
  <2> QED
    BY <1>6, <2>2, TakeExact
<1>9. /\ value[1] = v1 /\ value[2] = v2 /\ rest[n] = <<>>
  BY DEF value, rest
<1> QED
  BY <1>8, <1>9 DEF widths, Got2

Fits4(b, w1, w2, w3, w4, p1, p2, p3, p4, v1, v2, v3, v4, r) ==
  /\ w1 \in Nat /\ w2 \in Nat /\ w3 \in Nat /\ w4 \in Nat
  /\ Over(p1) /\ Over(p2) /\ Over(p3) /\ Over(p4) /\ Over(r)
  /\ v1 \in Seq(Byte) /\ v2 \in Seq(Byte) /\ v3 \in Seq(Byte) /\ v4 \in Seq(Byte)
  /\ Field(p1, w1, v1) /\ Field(p2, w2, v2) /\ Field(p3, w3, v3) /\ Field(p4, w4, v4)
  /\ Start(b, Then(Then(Then(Then(p1, p2), p3), p4), r))

Got4(t, v1, v2, v3, v4, r) ==
  \/ t = Err
  \/ /\ t.ok = TRUE
     /\ t.fields[1] = v1 /\ t.fields[2] = v2 /\ t.fields[3] = v3 /\ t.fields[4] = v4
     /\ Start(t.rest, r)

LEMMA Take4 ==
  ASSUME NEW b, NEW w1, NEW w2, NEW w3, NEW w4, NEW p1, NEW p2, NEW p3, NEW p4, NEW v1,
         NEW v2, NEW v3, NEW v4, NEW r,
         Fits4(b, w1, w2, w3, w4, p1, p2, p3, p4, v1, v2, v3, v4, r)
  PROVE  Got4(Take(b, <<w1, w2, w3, w4>>), v1, v2, v3, v4, r)
<1> DEFINE n == 4
           widths == <<w1, w2, w3, w4>>
           part  == [k \in 1..n |-> IF k = 1 THEN p1 ELSE IF k = 2 THEN p2 ELSE
                                     IF k = 3 THEN p3 ELSE p4]
           value == [k \in 1..n |-> IF k = 1 THEN v1 ELSE IF k = 2 THEN v2 ELSE
                                     IF k = 3 THEN v3 ELSE v4]
           r3 == Then(p4, r)
           r2 == Then(p3, r3)
           r1 == Then(p2, r2)
           r0 == Then(p1, r1)
           rest  == [k \in 0..n |-> IF k = 0 THEN r0 ELSE IF k = 1 THEN r1 ELSE
                                     IF k = 2 THEN r2 ELSE IF k = 3 THEN r3 ELSE r]
<1>  /\ w1 \in Nat /\ w2 \in Nat /\ w3 \in Nat /\ w4 \in Nat
     /\ Over(p1) /\ Over(p2) /\ Over(p3) /\ Over(p4) /\ Over(r)
     /\ v1 \in Seq(Byte) /\ v2 \in Seq(Byte) /\ v3 \in Seq(Byte) /\ v4 \in Seq(Byte)
     /\ Field(p1, w1, v1) /\ Field(p2, w2, v2) /\ Field(p3, w3, v3) /\
         Field(p4, w4, v4)
     /\ Start(b, Then(Then(Then(Then(p1, p2), p3), p4), r))
  BY DEF Fits4
<1>1. /\ Over(r3) /\ Over(r2) /\ Over(r1) /\ Over(r0)
      /\ Start(b, r0)
  <2> HIDE DEF r0, r1, r2, r3
  <2>1. Over(r3)
    BY Closure DEF r3
  <2>2. Over(r2)
    BY <2>1, Closure DEF r2
  <2>3. Over(r1)
    BY <2>2, Closure DEF r1
  <2>4. Over(r0)
    BY <2>3, Closure DEF r0
  <2>5. Start(b, r0)
    BY Right4 DEF r0, r1, r2, r3
  <2> HIDE DEF r0, r1, r2, r3
  <2> QED
    BY <2>1, <2>2, <2>3, <2>4, <2>5
<1>2. widths \in [1..n -> Nat] /\ Len(widths) = n
  OBVIOUS
<1> HIDE DEF r0, r1, r2, r3
<1>3. part \in [1..n -> Seq(Byte)] /\ value \in [1..n -> Seq(Byte)]
  BY DEF Over
<1>4. rest \in [0..n -> Seq(Byte)]
  BY <1>1 DEF Over
<1>5. \A k \in 1..n : rest[k - 1] = Then(part[k], rest[k]) /\ Field(part[k], widths[k], value[k])
  <2>1. /\ r0 = Then(p1, r1) /\ r1 = Then(p2, r2) /\ r2 = Then(p3, r3) /\
           r3 = Then(p4, r)
    BY DEF r0, r1, r2, r3
  <2>2. \A k \in 1..n : k = 1 \/ k = 2 \/ k = 3 \/ k = 4
    OBVIOUS
  <2> QED
    BY <2>1, <2>2
<1>6. Start(b, rest[0])
  BY <1>1
<1> HIDE DEF widths, part, value, rest
<1>7. \A k \in 1..n : rest[k - 1] = part[k] \o rest[k] /\ Field(part[k], widths[k], value[k])
  BY <1>5 DEF Then
<1>8. \/ Take(b, widths) = Err
      \/ /\ Take(b, widths).ok = TRUE
         /\ \A k \in 1..n : Take(b, widths).fields[k] = value[k]
         /\ Start(Take(b, widths).rest, rest[n])
  <2>1. n \in Nat
    OBVIOUS
  <2> HIDE DEF n
  <2>2. Laid(n, widths, part, value, rest)
    BY <1>2, <1>3, <1>4, <1>7, <2>1 DEF Laid
  <2> QED
    BY <1>6, <2>2, TakeExact
<1>9. /\ value[1] = v1 /\ value[2] = v2 /\ value[3] = v3 /\ value[4] = v4 /\ rest[n] = r
  BY DEF value, rest
<1> QED
  BY <1>8, <1>9 DEF widths, Got4

Fits6(b, w1, w2, w3, w4, w5, w6, p1, p2, p3, p4, p5, p6, v1, v2, v3, v4, v5, v6) ==
  /\ w1 \in Nat /\ w2 \in Nat /\ w3 \in Nat /\ w4 \in Nat /\ w5 \in Nat /\ w6 \in Nat
  /\ Over(p1) /\ Over(p2) /\ Over(p3) /\ Over(p4) /\ Over(p5) /\ Over(p6)
  /\ v1 \in Seq(Byte) /\ v2 \in Seq(Byte) /\ v3 \in Seq(Byte) /\ v4 \in Seq(Byte) /\
     v5 \in Seq(Byte) /\ v6 \in Seq(Byte)
  /\ Field(p1, w1, v1) /\ Field(p2, w2, v2) /\ Field(p3, w3, v3) /\
     Field(p4, w4, v4) /\ Field(p5, w5, v5) /\ Field(p6, w6, v6)
  /\ Start(b, Then(Then(Then(p1, p2), p3), Then(p4, Then(p5, p6))))

Got6(t, v1, v2, v3, v4, v5, v6) ==
  \/ t = Err
  \/ /\ t.ok = TRUE
     /\ t.fields[1] = v1 /\ t.fields[2] = v2 /\ t.fields[3] = v3 /\ t.fields[4] = v4 /\
        t.fields[5] = v5 /\ t.fields[6] = v6

LEMMA Take6 ==
  ASSUME NEW b, NEW w1, NEW w2, NEW w3, NEW w4, NEW w5, NEW w6, NEW p1, NEW p2, NEW p3,
         NEW p4, NEW p5, NEW p6, NEW v1, NEW v2, NEW v3, NEW v4, NEW v5, NEW v6,
         Fits6(b, w1, w2, w3, w4, w5, w6, p1, p2, p3, p4, p5, p6, v1, v2, v3, v4, v5, v6)
  PROVE  Got6(Take(b, <<w1, w2, w3, w4, w5, w6>>), v1, v2, v3, v4, v5, v6)
<1> DEFINE n == 6
           widths == <<w1, w2, w3, w4, w5, w6>>
           part  == [k \in 1..n |-> IF k = 1 THEN p1 ELSE IF k = 2 THEN p2 ELSE
                                     IF k = 3 THEN p3 ELSE IF k = 4 THEN p4 ELSE
                                     IF k = 5 THEN p5 ELSE p6]
           value == [k \in 1..n |-> IF k = 1 THEN v1 ELSE IF k = 2 THEN v2 ELSE
                                     IF k = 3 THEN v3 ELSE IF k = 4 THEN v4 ELSE
                                     IF k = 5 THEN v5 ELSE v6]
           r5 == p6
           r4 == Then(p5, r5)
           r3 == Then(p4, r4)
           r2 == Then(p3, r3)
           r1 == Then(p2, r2)
           r0 == Then(p1, r1)
           rest  == [k \in 0..n |-> IF k = 0 THEN r0 ELSE IF k = 1 THEN r1 ELSE
                                     IF k = 2 THEN r2 ELSE IF k = 3 THEN r3 ELSE
                                     IF k = 4 THEN r4 ELSE IF k = 5 THEN r5 ELSE <<>>]
<1>  /\ w1 \in Nat /\ w2 \in Nat /\ w3 \in Nat /\ w4 \in Nat /\ w5 \in Nat /\
         w6 \in Nat
     /\ Over(p1) /\ Over(p2) /\ Over(p3) /\ Over(p4) /\ Over(p5) /\ Over(p6)
     /\ v1 \in Seq(Byte) /\ v2 \in Seq(Byte) /\ v3 \in Seq(Byte) /\
         v4 \in Seq(Byte) /\ v5 \in Seq(Byte) /\ v6 \in Seq(Byte)
     /\ Field(p1, w1, v1) /\ Field(p2, w2, v2) /\ Field(p3, w3, v3) /\
         Field(p4, w4, v4) /\ Field(p5, w5, v5) /\ Field(p6, w6, v6)
     /\ Start(b, Then(Then(Then(p1, p2), p3), Then(p4, Then(p5, p6))))
  BY DEF Fits6
<1>1. /\ Over(r5) /\ Over(r4) /\ Over(r3) /\ Over(r2) /\ Over(r1) /\ Over(r0)
      /\ Start(b, r0)
  <2> HIDE DEF r0, r1, r2, r3, r4, r5
  <2>1. Over(r5)
    BY Closure DEF r5
  <2>2. Over(r4)
    BY <2>1, Closure DEF r4
  <2>3. Over(r3)
    BY <2>2, Closure DEF r3
  <2>4. Over(r2)
    BY <2>3, Closure DEF r2
  <2>5. Over(r1)
    BY <2>4, Closure DEF r1
  <2>6. Over(r0)
    BY <2>5, Closure DEF r0
  <2>7. Start(b, r0)
    <3> HIDE DEF r0, r1, r2, r3, r4, r5
    <3>1. Then(Then(Then(p1, p2), p3), r3) = Then(p1, Then(p2, Then(p3, r3)))
      BY <2>3, Right3
    <3> QED
      BY <3>1 DEF r0, r1, r2, r3, r4, r5
  <2> HIDE DEF r0, r1, r2, r3, r4, r5
  <2> QED
    BY <2>1, <2>2, <2>3, <2>4, <2>5, <2>6, <2>7
<1>2. widths \in [1..n -> Nat] /\ Len(widths) = n
  BY SMTT(60)
<1> HIDE DEF r0, r1, r2, r3, r4, r5
<1>3. part \in [1..n -> Seq(Byte)] /\ value \in [1..n -> Seq(Byte)]
  BY DEF Over
<1>4. rest \in [0..n -> Seq(Byte)]
  BY <1>1 DEF Over
<1>5. \A k \in 1..n : rest[k - 1] = Then(part[k], rest[k]) /\ Field(part[k], widths[k], value[k])
  <2>1. /\ r0 = Then(p1, r1) /\ r1 = Then(p2, r2) /\ r2 = Then(p3, r3) /\
           r3 = Then(p4, r4) /\ r4 = Then(p5, r5) /\ r5 = Then(p6, <<>>)
    BY <1>1, Nothing DEF r0, r1, r2, r3, r4, r5
  <2>2. \A k \in 1..n : k = 1 \/ k = 2 \/ k = 3 \/ k = 4 \/ k = 5 \/ k = 6
    OBVIOUS
  <2>3. /\ widths[1] = w1 /\ widths[2] = w2 /\ widths[3] = w3 /\ widths[4] = w4 /\
           widths[5] = w5 /\ widths[6] = w6
    OBVIOUS
  <2>4. /\ part[1] = p1 /\ part[2] = p2 /\ part[3] = p3 /\ part[4] = p4 /\
           part[5] = p5 /\ part[6] = p6
        /\ value[1] = v1 /\ value[2] = v2 /\ value[3] = v3 /\ value[4] = v4 /\
           value[5] = v5 /\ value[6] = v6
    OBVIOUS
  <2>5. /\ rest[0] = r0 /\ rest[1] = r1 /\ rest[2] = r2 /\ rest[3] = r3 /\
           rest[4] = r4 /\ rest[5] = r5 /\ rest[6] = <<>>
    OBVIOUS
  <2> HIDE DEF widths, part, value, rest
  <2> TAKE k \in 1..n
  <2>6. CASE k = 1
    <3>1. rest[k - 1] = r0
      BY <2>5, <2>6
    <3> QED
      BY <2>1, <2>3, <2>4, <2>5, <2>6, <3>1
  <2>7. CASE k = 2
    <3>1. rest[k - 1] = r1
      BY <2>5, <2>7
    <3> QED
      BY <2>1, <2>3, <2>4, <2>5, <2>7, <3>1
  <2>8. CASE k = 3
    <3>1. rest[k - 1] = r2
      BY <2>5, <2>8
    <3> QED
      BY <2>1, <2>3, <2>4, <2>5, <2>8, <3>1
  <2>9. CASE k = 4
    <3>1. rest[k - 1] = r3
      BY <2>5, <2>9
    <3> QED
      BY <2>1, <2>3, <2>4, <2>5, <2>9, <3>1
  <2>10. CASE k = 5
    <3>1. rest[k - 1] = r4
      BY <2>5, <2>10
    <3> QED
      BY <2>1, <2>3, <2>4, <2>5, <2>10, <3>1
  <2>11. CASE k = 6
    <3>1. rest[k - 1] = r5
      BY <2>5, <2>11
    <3> QED
      BY <2>1, <2>3, <2>4, <2>5, <2>11, <3>1
  <2> QED
    BY <2>2, <2>6, <2>7, <2>8, <2>9, <2>10, <2>11
<1>6. Start(b, rest[0])
  BY <1>1
<1> HIDE DEF widths, part, value, rest
<1>7. \A k \in 1..n : rest[k - 1] = part[k] \o rest[k] /\ Field(part[k], widths[k], value[k])
  BY <1>5 DEF Then
<1>8. \/ Take(b, widths) = Err
      \/ /\ Take(b, widths).ok = TRUE
         /\ \A k \in 1..n : Take(b, widths).fields[k] = value[k]
         /\ Start(Take(b, widths).rest, rest[n])
  <2>1. n \in Nat
    OBVIOUS
  <2> HIDE DEF n
  <2>2. Laid(n, widths, part, value, rest)
    BY <1>2, <1>3, <1>4, <1>7, <2>1 DEF Laid
  <2> QED
    BY <1>6, <2>2, TakeExact
<1>9. /\ value[1] = v1 /\ value[2] = v2 /\ value[3] = v3 /\ value[4] = v4 /\
         value[5] = v5 /\ value[6] = v6 /\ rest[n] = <<>>
  BY DEF value, rest
<1> QED
  BY SMTT(60), <1>8, <1>9 DEF widths, Got6

Fits7(b, w1, w2, w3, w4, w5, w6, w7, p1, p2, p3, p4, p5, p6, p7, v1, v2, v3, v4, v5,
      v6, v7, r) ==
  /\ w1 \in Nat /\ w2 \in Nat /\ w3 \in Nat /\ w4 \in Nat /\ w5 \in Nat /\
     w6 \in Nat /\ w7 \in Nat
  /\ Over(p1) /\ Over(p2) /\ Over(p3) /\ Over(p4) /\ Over(p5) /\ Over(p6) /\
     Over(p7) /\ Over(r)
  /\ v1 \in Seq(Byte) /\ v2 \in Seq(Byte) /\ v3 \in Seq(Byte) /\ v4 \in Seq(Byte) /\
     v5 \in Seq(Byte) /\ v6 \in Seq(Byte) /\ v7 \in Seq(Byte)
  /\ Field(p1, w1, v1) /\ Field(p2, w2, v2) /\ Field(p3, w3, v3) /\
     Field(p4, w4, v4) /\ Field(p5, w5, v5) /\ Field(p6, w6, v6) /\ Field(p7, w7, v7)
  /\ Start(b, Then(Then(Then(Then(Then(p1, p2), p3), p4),
                  Then(Then(p5, p6), p7)), r))

Got7(t, v1, v2, v3, v4, v5, v6, v7, r) ==
  \/ t = Err
  \/ /\ t.ok = TRUE
     /\ t.fields[1] = v1 /\ t.fields[2] = v2 /\ t.fields[3] = v3 /\ t.fields[4] = v4 /\
        t.fields[5] = v5 /\ t.fields[6] = v6 /\ t.fields[7] = v7
     /\ Start(t.rest, r)

LEMMA Take7 ==
  ASSUME NEW b, NEW w1, NEW w2, NEW w3, NEW w4, NEW w5, NEW w6, NEW w7, NEW p1, NEW p2,
         NEW p3, NEW p4, NEW p5, NEW p6, NEW p7, NEW v1, NEW v2, NEW v3, NEW v4,
         NEW v5, NEW v6, NEW v7, NEW r,
         Fits7(b, w1, w2, w3, w4, w5, w6, w7, p1, p2, p3, p4, p5, p6, p7, v1, v2, v3,
               v4, v5, v6, v7, r)
  PROVE  Got7(Take(b, <<w1, w2, w3, w4, w5, w6, w7>>), v1, v2, v3, v4, v5, v6, v7, r)
<1> DEFINE n == 7
           widths == <<w1, w2, w3, w4, w5, w6, w7>>
           part  == [k \in 1..n |-> IF k = 1 THEN p1 ELSE IF k = 2 THEN p2 ELSE
                                     IF k = 3 THEN p3 ELSE IF k = 4 THEN p4 ELSE
                                     IF k = 5 THEN p5 ELSE IF k = 6 THEN p6 ELSE p7]
           value == [k \in 1..n |-> IF k = 1 THEN v1 ELSE IF k = 2 THEN v2 ELSE
                                     IF k = 3 THEN v3 ELSE IF k = 4 THEN v4 ELSE
                                     IF k = 5 THEN v5 ELSE IF k = 6 THEN v6 ELSE v7]
           r6 == Then(p7, r)
           r5 == Then(p6, r6)
           r4 == Then(p5, r5)
           r3 == Then(p4, r4)
           r2 == Then(p3, r3)
           r1 == Then(p2, r2)
           r0 == Then(p1, r1)
           rest  == [k \in 0..n |-> IF k = 0 THEN r0 ELSE IF k = 1 THEN r1 ELSE
                                     IF k = 2 THEN r2 ELSE IF k = 3 THEN r3 ELSE
                                     IF k = 4 THEN r4 ELSE IF k = 5 THEN r5 ELSE
                                     IF k = 6 THEN r6 ELSE r]
<1>  /\ w1 \in Nat /\ w2 \in Nat /\ w3 \in Nat /\ w4 \in Nat /\ w5 \in Nat /\
         w6 \in Nat /\ w7 \in Nat
     /\ Over(p1) /\ Over(p2) /\ Over(p3) /\ Over(p4) /\ Over(p5) /\ Over(p6) /\
         Over(p7) /\ Over(r)
     /\ v1 \in Seq(Byte) /\ v2 \in Seq(Byte) /\ v3 \in Seq(Byte) /\
         v4 \in Seq(Byte) /\ v5 \in Seq(Byte) /\ v6 \in Seq(Byte) /\ v7 \in Seq(Byte)
     /\ Field(p1, w1, v1) /\ Field(p2, w2, v2) /\ Field(p3, w3, v3) /\
         Field(p4, w4, v4) /\ Field(p5, w5, v5) /\ Field(p6, w6, v6) /\
         Field(p7, w7, v7)
     /\ Start(b, Then(Then(Then(Then(Then(p1, p2), p3), p4),
                       Then(Then(p5, p6), p7)), r))
  BY DEF Fits7
<1>1. /\ Over(r6) /\ Over(r5) /\ Over(r4) /\ Over(r3) /\ Over(r2) /\ Over(r1) /\
         Over(r0)
      /\ Start(b, r0)
  <2> HIDE DEF r0, r1, r2, r3, r4, r5, r6
  <2>1. Over(r6)
    BY Closure DEF r6
  <2>2. Over(r5)
    BY <2>1, Closure DEF r5
  <2>3. Over(r4)
    BY <2>2, Closure DEF r4
  <2>4. Over(r3)
    BY <2>3, Closure DEF r3
  <2>5. Over(r2)
    BY <2>4, Closure DEF r2
  <2>6. Over(r1)
    BY <2>5, Closure DEF r1
  <2>7. Over(r0)
    BY <2>6, Closure DEF r0
  <2>8. Start(b, r0)
    <3> HIDE DEF r0, r1, r2, r3, r4, r5, r6
    <3> DEFINE x == Then(Then(Then(p1, p2), p3), p4)
               y == Then(Then(p5, p6), p7)
    <3>1. Over(x) /\ Over(y)
      <4>1. Over(Then(p1, p2)) /\ Over(Then(p5, p6))
        BY Closure
      <4>2. Over(Then(Then(p1, p2), p3)) /\ Over(y)
        BY <4>1, Closure
      <4> QED
        BY <4>2, Closure
    <3>2. Then(y, r) = Then(p5, Then(p6, Then(p7, r)))
      BY SMTT(60), Right3
    <3>3. Then(x, r4) = Then(p1, Then(p2, Then(p3, Then(p4, r4))))
      BY SMTT(60), <2>3, Right4
    <3>4. Start(b, Then(Then(x, y), r))
      OBVIOUS
    <3> HIDE DEF x, y
    <3>5. Then(Then(x, y), r) = Then(x, Then(y, r))
      BY SMTT(60), <3>1, Assoc
    <3> QED
      BY <3>2, <3>3, <3>4, <3>5 DEF r0, r1, r2, r3, r4, r5, r6
  <2> HIDE DEF r0, r1, r2, r3, r4, r5, r6
  <2> QED
    BY <2>1, <2>2, <2>3, <2>4, <2>5, <2>6, <2>7, <2>8
<1>2. widths \in [1..n -> Nat] /\ Len(widths) = n
  <2>1. widths \in Seq(Nat)
    BY SeqDef
  <2>2. Len(widths) = n
    OBVIOUS
  <2> HIDE DEF widths
  <2> QED
    BY <2>1, <2>2, LenProperties
<1> HIDE DEF r0, r1, r2, r3, r4, r5, r6
<1>3. part \in [1..n -> Seq(Byte)] /\ value \in [1..n -> Seq(Byte)]
  BY DEF Over
<1>4. rest \in [0..n -> Seq(Byte)]
  BY <1>1 DEF Over
<1>5. \A k \in 1..n : rest[k - 1] = Then(part[k], rest[k]) /\ Field(part[k], widths[k], value[k])
  <2>1. /\ r0 = Then(p1, r1) /\ r1 = Then(p2, r2) /\ r2 = Then(p3, r3) /\
           r3 = Then(p4, r4) /\ r4 = Then(p5, r5) /\ r5 = Then(p6, r6) /\
           r6 = Then(p7, r)
    BY DEF r0, r1, r2, r3, r4, r5, r6
  <2>2. \A k \in 1..n : k = 1 \/ k = 2 \/ k = 3 \/ k = 4 \/ k = 5 \/ k = 6 \/ k = 7
    OBVIOUS
  <2>3. /\ widths[1] = w1 /\ widths[2] = w2 /\ widths[3] = w3 /\ widths[4] = w4 /\
           widths[5] = w5 /\ widths[6] = w6 /\ widths[7] = w7
    OBVIOUS
  <2>4. /\ part[1] = p1 /\ part[2] = p2 /\ part[3] = p3 /\ part[4] = p4 /\
           part[5] = p5 /\ part[6] = p6 /\ part[7] = p7
        /\ value[1] = v1 /\ value[2] = v2 /\ value[3] = v3 /\ value[4] = v4 /\
           value[5] = v5 /\ value[6] = v6 /\ value[7] = v7
    OBVIOUS
  <2>5. /\ rest[0] = r0 /\ rest[1] = r1 /\ rest[2] = r2 /\ rest[3] = r3 /\
           rest[4] = r4 /\ rest[5] = r5 /\ rest[6] = r6 /\ rest[7] = r
    OBVIOUS
  <2> HIDE DEF widths, part, value, rest
  <2> TAKE k \in 1..n
  <2>6. CASE k = 1
    <3>1. rest[k - 1] = r0
      BY <2>5, <2>6
    <3> QED
      BY <2>1, <2>3, <2>4, <2>5, <2>6, <3>1
  <2>7. CASE k = 2
    <3>1. rest[k - 1] = r1
      BY <2>5, <2>7
    <3> QED
      BY <2>1, <2>3, <2>4, <2>5, <2>7, <3>1
  <2>8. CASE k = 3
    <3>1. rest[k - 1] = r2
      BY <2>5, <2>8
    <3> QED
      BY <2>1, <2>3, <2>4, <2>5, <2>8, <3>1
  <2>9. CASE k = 4
    <3>1. rest[k - 1] = r3
      BY <2>5, <2>9
    <3> QED
      BY <2>1, <2>3, <2>4, <2>5, <2>9, <3>1
  <2>10. CASE k = 5
    <3>1. rest[k - 1] = r4
      BY <2>5, <2>10
    <3> QED
      BY <2>1, <2>3, <2>4, <2>5, <2>10, <3>1
  <2>11. CASE k = 6
    <3>1. rest[k - 1] = r5
      BY <2>5, <2>11
    <3> QED
      BY <2>1, <2>3, <2>4, <2>5, <2>11, <3>1
  <2>12. CASE k = 7
    <3>1. rest[k - 1] = r6
      BY <2>5, <2>12
    <3> QED
      BY <2>1, <2>3, <2>4, <2>5, <2>12, <3>1
  <2> QED
    BY <2>2, <2>6, <2>7, <2>8, <2>9, <2>10, <2>11, <2>12
<1>6. Start(b, rest[0])
  BY <1>1
<1> HIDE DEF widths, part, value, rest
<1>7. \A k \in 1..n : rest[k - 1] = part[k] \o rest[k] /\ Field(part[k], widths[k], value[k])
  BY <1>5 DEF Then
<1>8. \/ Take(b, widths) = Err
      \/ /\ Take(b, widths).ok = TRUE
         /\ \A k \in 1..n : Take(b, widths).fields[k] = value[k]
         /\ Start(Take(b, widths).rest, rest[n])
  <2>1. n \in Nat
    OBVIOUS
  <2> HIDE DEF n
  <2>2. Laid(n, widths, part, value, rest)
    BY <1>2, <1>3, <1>4, <1>7, <2>1 DEF Laid
  <2> QED
    BY <1>6, <2>2, TakeExact
<1>9. /\ value[1] = v1 /\ value[2] = v2 /\ value[3] = v3 /\ value[4] = v4 /\
         value[5] = v5 /\ value[6] = v6 /\ value[7] = v7 /\ rest[n] = r
  BY DEF value, rest
<1>10. /\ 1 \in 1..n /\ 2 \in 1..n /\ 3 \in 1..n /\ 4 \in 1..n /\ 5 \in 1..n /\
         6 \in 1..n /\ 7 \in 1..n
  OBVIOUS
<1> HIDE DEF n
<1> QED
  BY <1>8, <1>9, <1>10 DEF widths, Got7

Fits8(b, w1, w2, w3, w4, w5, w6, w7, w8, p1, p2, p3, p4, p5, p6, p7, p8, v1, v2, v3,
      v4, v5, v6, v7, v8) ==
  /\ w1 \in Nat /\ w2 \in Nat /\ w3 \in Nat /\ w4 \in Nat /\ w5 \in Nat /\
     w6 \in Nat /\ w7 \in Nat /\ w8 \in Nat
  /\ Over(p1) /\ Over(p2) /\ Over(p3) /\ Over(p4) /\ Over(p5) /\ Over(p6) /\
     Over(p7) /\ Over(p8)
  /\ v1 \in Seq(Byte) /\ v2 \in Seq(Byte) /\ v3 \in Seq(Byte) /\ v4 \in Seq(Byte) /\
     v5 \in Seq(Byte) /\ v6 \in Seq(Byte) /\ v7 \in Seq(Byte) /\ v8 \in Seq(Byte)
  /\ Field(p1, w1, v1) /\ Field(p2, w2, v2) /\ Field(p3, w3, v3) /\
     Field(p4, w4, v4) /\ Field(p5, w5, v5) /\ Field(p6, w6, v6) /\
     Field(p7, w7, v7) /\ Field(p8, w8, v8)
  /\ Start(b, Then(Then(Then(p1, p2), p3),
                  Then(Then(Then(p4, p5), p6), Then(p7, p8))))

Got8(t, v1, v2, v3, v4, v5, v6, v7, v8) ==
  \/ t = Err
  \/ /\ t.ok = TRUE
     /\ t.fields[1] = v1 /\ t.fields[2] = v2 /\ t.fields[3] = v3 /\ t.fields[4] = v4 /\
        t.fields[5] = v5 /\ t.fields[6] = v6 /\ t.fields[7] = v7 /\ t.fields[8] = v8

LEMMA Take8 ==
  ASSUME NEW b, NEW w1, NEW w2, NEW w3, NEW w4, NEW w5, NEW w6, NEW w7, NEW w8, NEW p1,
         NEW p2, NEW p3, NEW p4, NEW p5, NEW p6, NEW p7, NEW p8, NEW v1, NEW v2,
         NEW v3, NEW v4, NEW v5, NEW v6, NEW v7, NEW v8,
         Fits8(b, w1, w2, w3, w4, w5, w6, w7, w8, p1, p2, p3, p4, p5, p6, p7, p8, v1,
               v2, v3, v4, v5, v6, v7, v8)
  PROVE  Got8(Take(b, <<w1, w2, w3, w4, w5, w6, w7, w8>>), v1, v2, v3, v4, v5, v6, v7, v8)
<1> DEFINE n == 8
           widths == <<w1, w2, w3, w4, w5, w6, w7, w8>>
           part  == [k \in 1..n |-> IF k = 1 THEN p1 ELSE IF k = 2 THEN p2 ELSE
                                     IF k = 3 THEN p3 ELSE IF k = 4 THEN p4 ELSE
                                     IF k = 5 THEN p5 ELSE IF k = 6 THEN p6 ELSE
                                     IF k = 7 THEN p7 ELSE p8]
           value == [k \in 1..n |-> IF k = 1 THEN v1 ELSE IF k = 2 THEN v2 ELSE
                                     IF k = 3 THEN v3 ELSE IF k = 4 THEN v4 ELSE
                                     IF k = 5 THEN v5 ELSE IF k = 6 THEN v6 ELSE
                                     IF k = 7 THEN v7 ELSE v8]
           r7 == p8
           r6 == Then(p7, r7)
           r5 == Then(p6, r6)
           r4 == Then(p5, r5)
           r3 == Then(p4, r4)
           r2 == Then(p3, r3)
           r1 == Then(p2, r2)
           r0 == Then(p1, r1)
           rest  == [k \in 0..n |-> IF k = 0 THEN r0 ELSE IF k = 1 THEN r1 ELSE
                                     IF k = 2 THEN r2 ELSE IF k = 3 THEN r3 ELSE
                                     IF k = 4 THEN r4 ELSE IF k = 5 THEN r5 ELSE
                                     IF k = 6 THEN r6 ELSE IF k = 7 THEN r7 ELSE <<>>]
<1>  /\ w1 \in Nat /\ w2 \in Nat /\ w3 \in Nat /\ w4 \in Nat /\ w5 \in Nat /\
         w6 \in Nat /\ w7 \in Nat /\ w8 \in Nat
     /\ Over(p1) /\ Over(p2) /\ Over(p3) /\ Over(p4) /\ Over(p5) /\ Over(p6) /\
         Over(p7) /\ Over(p8)
     /\ v1 \in Seq(Byte) /\ v2 \in Seq(Byte) /\ v3 \in Seq(Byte) /\
         v4 \in Seq(Byte) /\ v5 \in Seq(Byte) /\ v6 \in Seq(Byte) /\
         v7 \in Seq(Byte) /\ v8 \in Seq(Byte)
     /\ Field(p1, w1, v1) /\ Field(p2, w2, v2) /\ Field(p3, w3, v3) /\
         Field(p4, w4, v4) /\ Field(p5, w5, v5) /\ Field(p6, w6, v6) /\
         Field(p7, w7, v7) /\ Field(p8, w8, v8)
     /\ Start(b, Then(Then(Then(p1, p2), p3),
                       Then(Then(Then(p4, p5), p6), Then(p7, p8))))
  BY DEF Fits8
<1>1. /\ Over(r7) /\ Over(r6) /\ Over(r5) /\ Over(r4) /\ Over(r3) /\ Over(r2) /\
         Over(r1) /\ Over(r0)
      /\ Start(b, r0)
  <2> HIDE DEF r0, r1, r2, r3, r4, r5, r6, r7
  <2>1. Over(r7)
    BY Closure DEF r7
  <2>2. Over(r6)
    BY <2>1, Closure DEF r6
  <2>3. Over(r5)
    BY <2>2, Closure DEF r5
  <2>4. Over(r4)
    BY <2>3, Closure DEF r4
  <2>5. Over(r3)
    BY <2>4, Closure DEF r3
  <2>6. Over(r2)
    BY <2>5, Closure DEF r2
  <2>7. Over(r1)
    BY <2>6, Closure DEF r1
  <2>8. Over(r0)
    BY <2>7, Closure DEF r0
  <2>9. Start(b, r0)
    <3> HIDE DEF r0, r1, r2, r3, r4, r5, r6, r7
    <3>1. Then(Then(Then(p4, p5), p6), r6) = Then(p4, Then(p5, Then(p6, r6)))
      BY SMTT(60), <2>2, Right3
    <3>2. Then(Then(Then(p1, p2), p3), r3) = Then(p1, Then(p2, Then(p3, r3)))
      BY SMTT(60), <2>5, Right3
    <3> QED
      BY <3>1, <3>2 DEF r0, r1, r2, r3, r4, r5, r6, r7
  <2> HIDE DEF r0, r1, r2, r3, r4, r5, r6, r7
  <2> QED
    BY <2>1, <2>2, <2>3, <2>4, <2>5, <2>6, <2>7, <2>8, <2>9
<1>2. widths \in [1..n -> Nat] /\ Len(widths) = n
  <2>1. widths \in Seq(Nat)
    BY SeqDef
  <2>2. Len(widths) = n
    OBVIOUS
  <2> HIDE DEF widths
  <2> QED
    BY <2>1, <2>2, LenProperties
<1> HIDE DEF r0, r1, r2, r3, r4, r5, r6, r7
<1>3. part \in [1..n -> Seq(Byte)] /\ value \in [1..n -> Seq(Byte)]
  BY DEF Over
<1>4. rest \in [0..n -> Seq(Byte)]
  BY <1>1 DEF Over
<1>5. \A k \in 1..n : rest[k - 1] = Then(part[k], rest[k]) /\ Field(part[k], widths[k], value[k])
  <2>1. /\ r0 = Then(p1, r1) /\ r1 = Then(p2, r2) /\ r2 = Then(p3, r3) /\
           r3 = Then(p4, r4) /\ r4 = Then(p5, r5) /\ r5 = Then(p6, r6) /\
           r6 = Then(p7, r7) /\ r7 = Then(p8, <<>>)
    BY <1>1, Nothing DEF r0, r1, r2, r3, r4, r5, r6, r7
  <2>2. \A k \in 1..n : k = 1 \/ k = 2 \/ k = 3 \/ k = 4 \/ k = 5 \/ k = 6 \/ k = 7 \/ k = 8
    OBVIOUS
  <2>3. /\ widths[1] = w1 /\ widths[2] = w2 /\ widths[3] = w3 /\ widths[4] = w4 /\
           widths[5] = w5 /\ widths[6] = w6 /\ widths[7] = w7 /\ widths[8] = w8
    OBVIOUS
  <2>4. /\ part[1] = p1 /\ part[2] = p2 /\ part[3] = p3 /\ part[4] = p4 /\
           part[5] = p5 /\ part[6] = p6 /\ part[7] = p7 /\ part[8] = p8
        /\ value[1] = v1 /\ value[2] = v2 /\ value[3] = v3 /\ value[4] = v4 /\
           value[5] = v5 /\ value[6] = v6 /\ value[7] = v7 /\ value[8] = v8
    OBVIOUS
  <2>5. /\ rest[0] = r0 /\ rest[1] = r1 /\ rest[2] = r2 /\ rest[3] = r3 /\
           rest[4] = r4 /\ rest[5] = r5 /\ rest[6] = r6 /\ rest[7] = r7 /\
           rest[8] = <<>>
    OBVIOUS
  <2> HIDE DEF widths, part, value, rest
  <2> TAKE k \in 1..n
  <2>6. CASE k = 1
    <3>1. rest[k - 1] = r0
      BY <2>5, <2>6
    <3> QED
      BY <2>1, <2>3, <2>4, <2>5, <2>6, <3>1
  <2>7. CASE k = 2
    <3>1. rest[k - 1] = r1
      BY <2>5, <2>7
    <3> QED
      BY <2>1, <2>3, <2>4, <2>5, <2>7, <3>1
  <2>8. CASE k = 3
    <3>1. rest[k - 1] = r2
      BY <2>5, <2>8
    <3> QED
      BY <2>1, <2>3, <2>4, <2>5, <2>8, <3>1
  <2>9. CASE k = 4
    <3>1. rest[k - 1] = r3
      BY <2>5, <2>9
    <3> QED
      BY <2>1, <2>3, <2>4, <2>5, <2>9, <3>1
  <2>10. CASE k = 5
    <3>1. rest[k - 1] = r4
      BY <2>5, <2>10
    <3> QED
      BY <2>1, <2>3, <2>4, <2>5, <2>10, <3>1
  <2>11. CASE k = 6
    <3>1. rest[k - 1] = r5
      BY <2>5, <2>11
    <3> QED
      BY <2>1, <2>3, <2>4, <2>5, <2>11, <3>1
  <2>12. CASE k = 7
    <3>1. rest[k - 1] = r6
      BY <2>5, <2>12
    <3> QED
      BY <2>1, <2>3, <2>4, <2>5, <2>12, <3>1
  <2>13. CASE k = 8
    <3>1. rest[k - 1] = r7
      BY <2>5, <2>13
    <3> QED
      BY <2>1, <2>3, <2>4, <2>5, <2>13, <3>1
  <2> QED
    BY <2>2, <2>6, <2>7, <2>8, <2>9, <2>10, <2>11, <2>12, <2>13
<1>6. Start(b, rest[0])
  BY <1>1
<1> HIDE DEF widths, part, value, rest
<1>7. \A k \in 1..n : rest[k - 1] = part[k] \o rest[k] /\ Field(part[k], widths[k], value[k])
  BY <1>5 DEF Then
<1>8. \/ Take(b, widths) = Err
      \/ /\ Take(b, widths).ok = TRUE
         /\ \A k \in 1..n : Take(b, widths).fields[k] = value[k]
         /\ Start(Take(b, widths).rest, rest[n])
  <2>1. n \in Nat
    OBVIOUS
  <2> HIDE DEF n
  <2>2. Laid(n, widths, part, value, rest)
    BY <1>2, <1>3, <1>4, <1>7, <2>1 DEF Laid
  <2> QED
    BY <1>6, <2>2, TakeExact
<1>9. /\ value[1] = v1 /\ value[2] = v2 /\ value[3] = v3 /\ value[4] = v4 /\
         value[5] = v5 /\ value[6] = v6 /\ value[7] = v7 /\ value[8] = v8 /\
         rest[n] = <<>>
  BY DEF value, rest
<1>10. /\ 1 \in 1..n /\ 2 \in 1..n /\ 3 \in 1..n /\ 4 \in 1..n /\ 5 \in 1..n /\
         6 \in 1..n /\ 7 \in 1..n /\ 8 \in 1..n
  OBVIOUS
<1> HIDE DEF n
<1> QED
  BY <1>8, <1>9, <1>10 DEF widths, Got8

-----------------------------------------------------------------------------
(* What the scanner makes of a reply *)

\* Its copy of a parameter after Get_Attributes_All.
Copy(o, full, v) ==
  [ok |-> TRUE, kind |-> "parameter", size |-> o.size, full |-> full,
   scalable |-> o.scalable, readOnly |-> o.readOnly, type |-> o.type,
   name |-> IF full THEN o.name ELSE <<>>, units |-> IF full THEN o.units ELSE <<>>,
   help |-> IF full THEN o.help ELSE <<>>, value |-> Bytes(v, o.size),
   min |-> IF full THEN o.min ELSE Zeros(o.size),
   max |-> IF full THEN o.max ELSE Zeros(o.size),
   default |-> IF full THEN o.default ELSE Zeros(o.size),
   scaling |-> IF full /\ o.scalable
               THEN [NoScaling EXCEPT !.precision = o.scaling.precision] ELSE NoScaling]

LEMMA ScalesFields ==
  ASSUME NEW s \in Scales
  PROVE  /\ s.multiplier \in Word /\ s.divisor \in Word /\ s.base \in Word
         /\ s.offset \in SignedWord /\ s.precision \in Byte
BY DEF Scales

LEMMA ParameterFields ==
  ASSUME NEW o, ParameterType(o)
  PROVE  /\ o.kind = "parameter" /\ o.size \in Size /\ o.value \in Nat /\ o.value < Span(o.size)
         /\ o.link \in Texts /\ o.scalable \in BOOLEAN /\ o.readOnly \in BOOLEAN /\ o.type \in Byte
         /\ o.name \in Texts /\ o.units \in Texts /\ o.help \in Texts
         /\ o.min \in Seq(Byte) /\ o.max \in Seq(Byte) /\ o.default \in Seq(Byte)
         /\ Len(o.min) = o.size /\ Len(o.max) = o.size /\ Len(o.default) = o.size
         /\ o.scaling \in Scales
BY DEF ParameterType, Size

Descriptor(o) == (IF o.scalable THEN 4 ELSE 0) + (IF o.readOnly THEN 16 ELSE 0)

LEMMA DescriptorIs ==
  ASSUME NEW o, ParameterType(o)
  PROVE  /\ Descriptor(o) \in Byte
         /\ o.scalable = ((Descriptor(o) \div 4) % 2 = 1)
         /\ o.readOnly = ((Descriptor(o) \div 16) % 2 = 1)
<1>1. o.scalable \in BOOLEAN /\ o.readOnly \in BOOLEAN
  BY ParameterFields
<1>2. CASE o.scalable /\ o.readOnly
  <2>1. Descriptor(o) = 20
    BY <1>2 DEF Descriptor
  <2>2. 20 \in Byte /\ ((20 \div 4) % 2 = 1) = TRUE /\ ((20 \div 16) % 2 = 1) = TRUE
    BY DEF Byte
  <2>3. o.scalable = TRUE /\ o.readOnly = TRUE
    BY <1>1, <1>2
  <2> QED
    BY <2>1, <2>2, <2>3
<1>3. CASE o.scalable /\ ~o.readOnly
  <2>1. Descriptor(o) = 4
    BY <1>3 DEF Descriptor
  <2>2. 4 \in Byte /\ ((4 \div 4) % 2 = 1) = TRUE /\ ((4 \div 16) % 2 = 1) = FALSE
    BY DEF Byte
  <2>3. o.scalable = TRUE /\ o.readOnly = FALSE
    BY <1>1, <1>3
  <2> QED
    BY <2>1, <2>2, <2>3
<1>4. CASE ~o.scalable /\ o.readOnly
  <2>1. Descriptor(o) = 16
    BY <1>4 DEF Descriptor
  <2>2. 16 \in Byte /\ ((16 \div 4) % 2 = 1) = FALSE /\ ((16 \div 16) % 2 = 1) = TRUE
    BY DEF Byte
  <2>3. o.scalable = FALSE /\ o.readOnly = TRUE
    BY <1>1, <1>4
  <2> QED
    BY <2>1, <2>2, <2>3
<1>5. CASE ~o.scalable /\ ~o.readOnly
  <2>1. Descriptor(o) = 0
    BY <1>5 DEF Descriptor
  <2>2. 0 \in Byte /\ ((0 \div 4) % 2 = 1) = FALSE /\ ((0 \div 16) % 2 = 1) = FALSE
    BY DEF Byte
  <2>3. o.scalable = FALSE /\ o.readOnly = FALSE
    BY <1>1, <1>5
  <2> QED
    BY <2>1, <2>2, <2>3
<1> QED
  BY <1>1, <1>2, <1>3, <1>4, <1>5

GotFirst(t, o, r) ==
  \/ t = Err
  \/ /\ t.ok = TRUE
     /\ t.fields[1] = Bytes(o.value, o.size)
     /\ t.fields[3] = <<Descriptor(o), 0>>
     /\ t.fields[4] = <<o.type>>
     /\ Start(t.rest, r)

LEMMA FirstExact ==
  ASSUME NEW o, ParameterType(o), NEW r, Over(r), NEW b, Start(b, FirstBytes(o) \o r),
         NEW p, p.size = o.size
  PROVE  GotFirst(Take(b, FirstWidths(p)), o, r)
<1>1. /\ o.size \in Size /\ o.value \in Int /\ o.link \in Texts /\ o.type \in Byte
      /\ Descriptor(o) \in Byte /\ 0 \in Byte
  <2>1. 0 \in Nat /\ 0 <= 255
    OBVIOUS
  <2> QED
    BY <2>1, ParameterFields, DescriptorIs, SmallIsByte
<1> DEFINE p1 == Bytes(o.value, o.size)
           p2 == Short(o.link)
           p3 == <<Descriptor(o), 0>>
           p4 == <<o.type>>
<1>2. p1 \in Seq(Byte) /\ Len(p1) = o.size
  BY <1>1, BytesAre
<1>3. o.link \in Seq(Byte) /\ p2 \in Seq(Byte) /\ Field(p2, SHORT_STRING, o.link)
  BY <1>1, ShortIs
<1>4. p3 \in Seq(Byte) /\ Len(p3) = 2 /\ p4 \in Seq(Byte) /\ Len(p4) = 1
  BY <1>1, Pieces
<1>5. Field(p1, o.size, p1) /\ Field(p3, 2, p3) /\ Field(p4, 1, p4)
  BY <1>1, <1>2, <1>4 DEF Field, SHORT_STRING, Size
<1>6. Start(b, Then(Then(Then(Then(p1, p2), p3), p4), r))
  BY DEF FirstBytes, Then, Descriptor
<1>7. Over(p1) /\ Over(p2) /\ Over(p3) /\ Over(p4)
  BY <1>2, <1>3, <1>4 DEF Over
<1>8. FirstWidths(p) = <<o.size, SHORT_STRING, 2, 1>>
  BY DEF FirstWidths
<1>9. o.size \in Nat /\ SHORT_STRING \in Nat
  BY <1>1 DEF Size, SHORT_STRING
<1> HIDE DEF p1, p2, p3, p4
<1>10. Got4(Take(b, <<o.size, SHORT_STRING, 2, 1>>), p1, o.link, p3, p4, r)
  <2>1. Fits4(b, o.size, SHORT_STRING, 2, 1, p1, p2, p3, p4, p1, o.link, p3, p4, r)
    BY <1>2, <1>3, <1>4, <1>5, <1>6, <1>7, <1>9 DEF Fits4
  <2> QED
    BY <2>1, Take4
<1> QED
  BY <1>8, <1>10, Zenon DEF Got4, GotFirst, p1, p3, p4

GotText(t, o, r) ==
  \/ t = Err
  \/ /\ t.ok = TRUE
     /\ t.fields[2] = o.name /\ t.fields[3] = o.units /\ t.fields[4] = o.help
     /\ t.fields[5] = o.min /\ t.fields[6] = o.max /\ t.fields[7] = o.default
     /\ Start(t.rest, r)

LEMMA TextExact ==
  ASSUME NEW o, ParameterType(o), NEW r, Over(r), NEW b, Start(b, TextBytes(o) \o r)
  PROVE  GotText(Take(b, <<1, SHORT_STRING, SHORT_STRING, SHORT_STRING,
                           o.size, o.size, o.size>>), o, r)
<1>1. /\ o.size \in Size /\ o.name \in Texts /\ o.units \in Texts /\ o.help \in Texts
      /\ o.min \in Seq(Byte) /\ o.max \in Seq(Byte) /\ o.default \in Seq(Byte)
      /\ Len(o.min) = o.size /\ Len(o.max) = o.size /\ Len(o.default) = o.size
  BY ParameterFields
<1> DEFINE p1 == <<o.size>>
           p2 == Short(o.name)
           p3 == Short(o.units)
           p4 == Short(o.help)
<1>2. /\ o.name \in Seq(Byte) /\ p2 \in Seq(Byte) /\ Field(p2, SHORT_STRING, o.name)
      /\ o.units \in Seq(Byte) /\ p3 \in Seq(Byte) /\ Field(p3, SHORT_STRING, o.units)
      /\ o.help \in Seq(Byte) /\ p4 \in Seq(Byte) /\ Field(p4, SHORT_STRING, o.help)
  BY <1>1, ShortIs
<1>3. p1 \in Seq(Byte) /\ Len(p1) = 1
  <2>1. o.size \in Nat /\ o.size <= 255
    BY <1>1 DEF Size
  <2>2. o.size \in Byte
    BY <2>1, SmallIsByte
  <2> QED
    BY <2>2, Pieces
<1>4. /\ Field(p1, 1, p1) /\ Field(o.min, o.size, o.min) /\ Field(o.max, o.size, o.max)
      /\ Field(o.default, o.size, o.default)
  BY <1>1, <1>3 DEF Field, SHORT_STRING, Size
<1>5. Start(b, Then(Then(Then(Then(Then(p1, p2), p3), p4),
                         Then(Then(o.min, o.max), o.default)), r))
  BY DEF TextBytes, Then
<1>6. /\ Over(p1) /\ Over(p2) /\ Over(p3) /\ Over(p4)
      /\ Over(o.min) /\ Over(o.max) /\ Over(o.default)
  BY <1>1, <1>2, <1>3 DEF Over
<1>7. o.size \in Nat /\ SHORT_STRING \in Nat
  BY <1>1 DEF Size, SHORT_STRING
<1> HIDE DEF p1, p2, p3, p4
<1>8. Got7(Take(b, <<1, SHORT_STRING, SHORT_STRING, SHORT_STRING, o.size, o.size, o.size>>),
           p1, o.name, o.units, o.help, o.min, o.max, o.default, r)
  <2>1. Fits7(b, 1, SHORT_STRING, SHORT_STRING, SHORT_STRING, o.size, o.size, o.size,
              p1, p2, p3, p4, o.min, o.max, o.default,
              p1, o.name, o.units, o.help, o.min, o.max, o.default, r)
    BY <1>1, <1>2, <1>3, <1>4, <1>5, <1>6, <1>7 DEF Fits7
  <2> QED
    BY <2>1, Take7
<1> QED
  BY <1>8, Zenon DEF Got7, GotText

LEMMA ScaleExact ==
  ASSUME NEW o, ParameterType(o), o.scalable = TRUE, NEW b, Start(b, ScaleBytes(o))
  PROVE  LET t == Take(b, <<16, 1>>)
         IN  t = Err \/ (t.ok = TRUE /\ t.fields[2] = <<o.scaling.precision>>)
<1>1. o.scaling.precision \in Byte
  <2>1. o.scaling \in Scales
    BY ParameterFields
  <2> QED
    BY <2>1, ScalesFields
<1> DEFINE p1 == Zeros(16)
           p2 == <<o.scaling.precision>>
<1>2. p1 \in Seq(Byte) /\ Len(p1) = 16 /\ p2 \in Seq(Byte) /\ Len(p2) = 1
  <2>1. 16 \in Nat
    OBVIOUS
  <2> QED
    BY <1>1, <2>1, Pieces
<1>3. Field(p1, 16, p1) /\ Field(p2, 1, p2) /\ Over(p1) /\ Over(p2)
  BY <1>2 DEF Field, SHORT_STRING, Over
<1>4. Start(b, Then(p1, p2))
  BY DEF ScaleBytes, Then
<1> HIDE DEF p1, p2
<1>5. Got2(Take(b, <<16, 1>>), p1, p2)
  <2>1. Fits2(b, 16, 1, p1, p2, p1, p2)
    BY <1>2, <1>3, <1>4 DEF Fits2
  <2> QED
    BY <2>1, Take2
<1> QED
  BY <1>5, Zenon DEF Got2, p2

LEMMA DeviceParts ==
  ASSUME NEW o, ParameterType(o)
  PROVE  /\ TextBytes(o) \in Seq(Byte) /\ ScaleBytes(o) \in Seq(Byte)
         /\ Over(TextBytes(o) \o ScaleBytes(o))
         /\ DeviceBytes(o) = FirstBytes(o) \o (TextBytes(o) \o ScaleBytes(o))
<1>1. /\ o.kind = "parameter" /\ o.size \in Size /\ o.scalable \in BOOLEAN
      /\ o.name \in Texts /\ o.units \in Texts /\ o.help \in Texts
      /\ o.min \in Seq(Byte) /\ o.max \in Seq(Byte) /\ o.default \in Seq(Byte)
      /\ o.scaling \in Scales
  BY ParameterFields
<1>2. <<o.size>> \in Seq(Byte)
  <2>1. o.size \in Nat /\ o.size <= 255
    BY <1>1 DEF Size
  <2> QED
    BY <2>1, SmallIsByte, Pieces
<1>3. Short(o.name) \in Seq(Byte) /\ Short(o.units) \in Seq(Byte) /\ Short(o.help) \in Seq(Byte)
  BY <1>1, ShortIs
<1>4. TextBytes(o) \in Seq(Byte)
  <2>1. <<o.size>> \o Short(o.name) \in Seq(Byte)
    BY <1>2, <1>3, ConcatProperties
  <2>2. <<o.size>> \o Short(o.name) \o Short(o.units) \in Seq(Byte)
    BY <2>1, <1>3, ConcatProperties
  <2>3. <<o.size>> \o Short(o.name) \o Short(o.units) \o Short(o.help) \in Seq(Byte)
    BY <2>2, <1>3, ConcatProperties
  <2>4. o.min \o o.max \in Seq(Byte)
    BY <1>1, ConcatProperties
  <2>5. o.min \o o.max \o o.default \in Seq(Byte)
    BY <2>4, <1>1, ConcatProperties
  <2> QED
    BY <2>3, <2>5, ConcatProperties DEF TextBytes
<1>5. ScaleBytes(o) \in Seq(Byte)
  <2>1. o.scaling.precision \in Byte
    BY <1>1, ScalesFields
  <2>2. <<o.scaling.precision>> \in Seq(Byte)
    BY <2>1, Pieces
  <2>3. 16 \in Nat
    OBVIOUS
  <2>4. Zeros(16) \in Seq(Byte)
    BY <2>3, Pieces
  <2>5. Zeros(16) \o <<o.scaling.precision>> \in Seq(Byte)
    BY <2>2, <2>4, ConcatProperties
  <2>6. <<>> \in Seq(Byte)
    OBVIOUS
  <2> QED
    BY <1>1, <2>5, <2>6 DEF ScaleBytes
<1>6. Over(TextBytes(o) \o ScaleBytes(o))
  BY <1>4, <1>5, ConcatProperties DEF Over
<1> QED
  BY <1>1, <1>4, <1>5, <1>6 DEF DeviceBytes

\* What Get_Attributes_All gives: all that was asked for, or an error.
LEMMA AttributesExact ==
  ASSUME NEW o, ParameterType(o), NEW full \in BOOLEAN, NEW b, Start(b, DeviceBytes(o))
  PROVE  LET q == Attributes(New(o.size, full), b)
         IN  q = Err \/ q = Copy(o, full, o.value)
<1> DEFINE p == New(o.size, full)
           t == Take(b, FirstWidths(p))
           u == Take(t.rest, <<1, SHORT_STRING, SHORT_STRING, SHORT_STRING,
                               p.size, p.size, p.size>>)
           w == Take(u.rest, <<16, 1>>)
           desc == t.fields[3]
           first == [p EXCEPT !.value = t.fields[1], !.type = t.fields[4][1],
                              !.scalable = (desc[1] \div 4) % 2 = 1,
                              !.readOnly = (desc[1] \div 16) % 2 = 1]
           second == [first EXCEPT !.name = u.fields[2], !.units = u.fields[3],
                                   !.help = u.fields[4], !.min = u.fields[5],
                                   !.max = u.fields[6], !.default = u.fields[7]]
           third == [second EXCEPT !.scaling.precision = w.fields[2][1]]
<1>1. p.size = o.size /\ p.full = full
  BY DEF New
<1>2. o.scalable \in BOOLEAN
  BY ParameterFields
<1>0. GotFirst(t, o, TextBytes(o) \o ScaleBytes(o))
  <2>1. PICK r : r = TextBytes(o) \o ScaleBytes(o)
    OBVIOUS
  <2>2. Over(r) /\ Start(b, FirstBytes(o) \o r)
    BY <2>1, DeviceParts
  <2> HIDE DEF p
  <2>3. GotFirst(t, o, r)
    BY <1>1, <2>2, FirstExact
  <2> QED
    BY <2>1, <2>3
<1>3. t = Err \/ first = [p EXCEPT !.value = Bytes(o.value, o.size), !.type = o.type,
                                   !.scalable = o.scalable, !.readOnly = o.readOnly]
  <2> HIDE DEF t, p
  <2>2. \/ t = Err
        \/ /\ t.fields[1] = Bytes(o.value, o.size)
           /\ t.fields[3] = <<Descriptor(o), 0>>
           /\ t.fields[4] = <<o.type>>
    BY <1>0, Zenon DEF GotFirst
  <2>3. <<Descriptor(o), 0>>[1] = Descriptor(o) /\ <<o.type>>[1] = o.type
    OBVIOUS
  <2>4. /\ o.scalable = ((Descriptor(o) \div 4) % 2 = 1)
        /\ o.readOnly = ((Descriptor(o) \div 16) % 2 = 1)
    BY DescriptorIs
  <2>5. t # Err => /\ t.fields[1] = Bytes(o.value, o.size) /\ t.fields[4][1] = o.type
                   /\ ((t.fields[3][1] \div 4) % 2 = 1) = o.scalable
                   /\ ((t.fields[3][1] \div 16) % 2 = 1) = o.readOnly
    BY <2>2, <2>3, <2>4
  <2> QED
    BY <2>5
<1>4. t = Err \/ (t.ok = TRUE /\ Start(t.rest, TextBytes(o) \o ScaleBytes(o)))
  <2> HIDE DEF t
  <2> QED
    BY <1>0, Zenon DEF GotFirst
<1>5. t # Err => \/ u = Err
                 \/ /\ u.ok = TRUE
                    /\ u.fields[2] = o.name /\ u.fields[3] = o.units /\ u.fields[4] = o.help
                    /\ u.fields[5] = o.min /\ u.fields[6] = o.max /\ u.fields[7] = o.default
                    /\ Start(u.rest, ScaleBytes(o))
  <2> HIDE DEF t, p
  <2>1. PICK r : r = ScaleBytes(o)
    OBVIOUS
  <2>2. Over(r)
    BY <2>1, DeviceParts DEF Over
  <2>3. u = Take(t.rest, <<1, SHORT_STRING, SHORT_STRING, SHORT_STRING,
                           o.size, o.size, o.size>>)
    BY <1>1
  <2> HIDE DEF u
  <2>4. t # Err => Start(t.rest, TextBytes(o) \o r)
    BY <1>4, <2>1
  <2>5. t # Err => GotText(u, o, r)
    BY <2>2, <2>3, <2>4, TextExact
  <2> QED
    BY <2>1, <2>5, Zenon DEF GotText
<1>6. t # Err /\ u # Err /\ o.scalable
        => w = Err \/ (w.ok = TRUE /\ w.fields[2] = <<o.scaling.precision>>)
  <2> HIDE DEF t, u
  <2> QED
    BY <1>2, <1>5, ScaleExact
<1>7. Attributes(p, b) =
        IF ~t.ok THEN Err ELSE IF ~p.full THEN first ELSE IF ~u.ok THEN Err
        ELSE IF ~second.scalable THEN second ELSE IF ~w.ok THEN Err ELSE third
  BY DEF Attributes
<1>8. /\ DOMAIN p = {"ok", "kind", "size", "full", "scalable", "readOnly", "type", "name",
                     "units", "help", "value", "min", "max", "default", "scaling"}
      /\ p = [ok |-> TRUE, kind |-> "parameter", size |-> o.size, full |-> full,
              scalable |-> FALSE, readOnly |-> FALSE, type |-> 0,
              name |-> <<>>, units |-> <<>>, help |-> <<>>, value |-> Zeros(o.size),
              min |-> Zeros(o.size), max |-> Zeros(o.size), default |-> Zeros(o.size),
              scaling |-> NoScaling]
  BY DEF New
<1>9. Err.ok = FALSE
  BY DEF Err
<1> HIDE DEF p, t, u, w, first, second, third
<1>10. CASE t = Err
  BY <1>7, <1>9, <1>10 DEF p
<1>11. CASE t # Err /\ ~full
  <2>1. Attributes(p, b) = first
    BY <1>1, <1>4, <1>7, <1>11
  <2>2. first = Copy(o, full, o.value)
    BY ZenonT(60), <1>3, <1>8, <1>11 DEF Copy
  <2> QED
    BY <2>1, <2>2 DEF p
<1>12. CASE t # Err /\ full
  <2>1. Attributes(p, b) = IF ~u.ok THEN Err ELSE IF ~second.scalable THEN second
                           ELSE IF ~w.ok THEN Err ELSE third
    BY <1>1, <1>4, <1>7, <1>12
  <2>2. CASE u = Err
    BY <1>9, <2>1, <2>2 DEF p
  <2>3. CASE u # Err
    <3>1. second = [ok |-> TRUE, kind |-> "parameter", size |-> o.size, full |-> TRUE,
              scalable |-> o.scalable, readOnly |-> o.readOnly, type |-> o.type,
              name |-> o.name, units |-> o.units, help |-> o.help,
              value |-> Bytes(o.value, o.size),
              min |-> o.min, max |-> o.max, default |-> o.default, scaling |-> NoScaling]
      <4>1. first = [ok |-> TRUE, kind |-> "parameter", size |-> o.size, full |-> TRUE,
              scalable |-> o.scalable, readOnly |-> o.readOnly, type |-> o.type,
              name |-> <<>>, units |-> <<>>, help |-> <<>>, value |-> Bytes(o.value, o.size),
              min |-> Zeros(o.size), max |-> Zeros(o.size), default |-> Zeros(o.size),
              scaling |-> NoScaling]
        BY ZenonT(60), <1>3, <1>8, <1>12
      <4>2. second = [first EXCEPT !.name = o.name, !.units = o.units, !.help = o.help,
                                   !.min = o.min, !.max = o.max, !.default = o.default]
        BY <1>5, <1>12, <2>3 DEF second
      <4> QED
        BY ZenonT(60), <4>1, <4>2
    <3>2. CASE ~o.scalable
      <4>1. Attributes(p, b) = second
        BY <1>5, <1>12, <2>1, <2>3, <3>1, <3>2
      <4>2. second = Copy(o, full, o.value)
        BY <1>12, <3>1, <3>2 DEF Copy
      <4> QED
        BY <4>1, <4>2 DEF p
    <3>3. CASE o.scalable
      <4>1. Attributes(p, b) = IF ~w.ok THEN Err ELSE third
        BY <1>5, <1>12, <2>1, <2>3, <3>1, <3>3
      <4>2. CASE w = Err
        BY <1>9, <4>1, <4>2 DEF p
      <4>3. CASE w # Err
        <5>1. w.ok = TRUE /\ w.fields[2][1] = o.scaling.precision
          <6>1. <<o.scaling.precision>>[1] = o.scaling.precision
            OBVIOUS
          <6> QED
            BY <1>6, <1>12, <2>3, <3>3, <4>3, <6>1
        <5>2. third = [second EXCEPT !.scaling =
                         [second.scaling EXCEPT !.precision = o.scaling.precision]]
          BY <5>1 DEF third
        <5>3. third = Copy(o, full, o.value)
          BY ZenonT(60), <1>12, <3>1, <3>3, <5>2 DEF Copy
        <5> QED
          BY <4>1, <5>1, <5>3 DEF p
      <4> QED
        BY <4>2, <4>3
    <3> QED
      BY <1>2, <3>2, <3>3
  <2> QED
    BY <2>2, <2>3
<1> QED
  BY <1>10, <1>11, <1>12

-----------------------------------------------------------------------------
(* Identity and fault objects *)

LEMMA Joined ==
  ASSUME NEW w \in Byte, NEW x \in Byte, NEW y \in Byte, NEW z \in Byte
  PROVE  LET s == <<w, x>> \o <<y, z>>
         IN  /\ s \in Seq(Byte) /\ Len(s) = 4
             /\ s[1] = w /\ s[2] = x /\ s[3] = y /\ s[4] = z
<1>1. /\ <<w, x>> \in Seq(Byte) /\ Len(<<w, x>>) = 2 /\ <<w, x>>[1] = w /\ <<w, x>>[2] = x
      /\ <<y, z>> \in Seq(Byte) /\ Len(<<y, z>>) = 2 /\ <<y, z>>[1] = y /\ <<y, z>>[2] = z
  BY Pieces
<1>2. PICK c : c = <<w, x>>
  OBVIOUS
<1>3. PICK d : d = <<y, z>>
  OBVIOUS
<1>4. /\ c \o d \in Seq(Byte) /\ Len(c \o d) = Len(c) + Len(d)
      /\ \A i \in 1..(Len(c) + Len(d)) : (c \o d)[i] = IF i <= Len(c) THEN c[i] ELSE d[i - Len(c)]
  BY <1>1, <1>2, <1>3, ConcatProperties
<1>5. /\ c \o d \in Seq(Byte) /\ Len(c \o d) = 4
      /\ (c \o d)[1] = w /\ (c \o d)[2] = x /\ (c \o d)[3] = y /\ (c \o d)[4] = z
  BY <1>1, <1>2, <1>3, <1>4
<1> QED
  BY <1>2, <1>3, <1>5

\* A number of four bytes.
FourBytes(n) == n \in Nat /\ n \div 65536 \in Word

LEMMA Le32Is ==
  ASSUME NEW n, FourBytes(n)
  PROVE  Le32(n) \in Seq(Byte) /\ Len(Le32(n)) = 4 /\ Unsigned(Le32(n)) = n
<1> DEFINE low  == n % 65536
           high == n \div 65536
           w == low % 256
           x == (low \div 256) % 256
           y == high % 256
           z == (high \div 256) % 256
<1>1. low \in Nat /\ high \in Nat /\ low < 65536 /\ high < 65536 /\ n = low + 65536 * high
  BY SMT DEF Word, FourBytes
<1> HIDE DEF low, high
<1>2. /\ w \in Byte /\ x \in Byte /\ y \in Byte /\ z \in Byte
      /\ w + 256 * x = low /\ y + 256 * z = high
  BY <1>1, Digits, SMT DEF Byte
<1>3. Le32(n) = <<w, x>> \o <<y, z>>
  BY DEF Le32, Le16, low, high
<1> HIDE DEF w, x, y, z
<1>6. /\ Le32(n) \in Seq(Byte) /\ Len(Le32(n)) = 4
      /\ Le32(n)[1] = w /\ Le32(n)[2] = x /\ Le32(n)[3] = y /\ Le32(n)[4] = z
  BY <1>2, <1>3, Joined, SMT
<1>7. w \in Int /\ x \in Int /\ y \in Int /\ z \in Int
  BY <1>2 DEF Byte
<1>8. Unsigned(Le32(n)) = w + 256 * x + 65536 * y + 16777216 * z
  <2>1. PICK b : b = Le32(n)
    OBVIOUS
  <2>2. Len(b) = 4 /\ b[1] = w /\ b[2] = x /\ b[3] = y /\ b[4] = z
    BY <1>6, <2>1
  <2>3. Unsigned(b) = w + 256 * x + 65536 * y + 16777216 * z
    BY <1>7, <2>2, UnsignedOf4, SMT
  <2> QED
    BY <2>1, <2>3
<1>9. w + 256 * x + 65536 * y + 16777216 * z = n
  BY <1>1, <1>2, <1>7, SMT
<1> QED
  BY <1>6, <1>8, <1>9, SMT

LEMMA ByteIs ==
  ASSUME NEW n \in Byte
  PROVE  /\ <<n>> \in Seq(Byte) /\ Len(<<n>>) = 1 /\ <<n>>[1] = n
         /\ Unsigned(<<n>>) = n
<1>1. <<n>> \in Seq(Byte) /\ Len(<<n>>) = 1 /\ <<n>>[1] = n
  BY Pieces
<1>2. n \in Int
  BY DEF Byte
<1> QED
  BY <1>1, <1>2, UnsignedOf1

LEMMA IdentityExact ==
  ASSUME NEW o, IdentityType(o), NEW b, Start(b, DeviceBytes(o))
  PROVE  LET q == IdentityOf(b)
         IN  \/ q = Err
             \/ /\ q.ok = TRUE /\ q.kind = "identity"
                /\ q.numbers = o.numbers /\ q.name = o.name
<1>1. /\ o.kind = "identity" /\ o.numbers \in Seq(Nat) /\ o.name \in Texts /\ Len(o.numbers) = 7
      /\ o.numbers[1] \in Word /\ o.numbers[2] \in Word /\ o.numbers[3] \in Word
      /\ o.numbers[4] \in Byte /\ o.numbers[5] \in Byte /\ o.numbers[6] \in Word
  BY SMT DEF IdentityType
<1>2. FourBytes(o.numbers[7])
  <2>1. o.numbers[7] \in Nat
    BY SMTT(60), <1>1
  <2>2. o.numbers[7] \div 65536 \in Word
    BY SMT DEF IdentityType
  <2> QED
    BY <2>1, <2>2, SMT DEF FourBytes
<1> DEFINE p1 == Le16(o.numbers[1])
           p2 == Le16(o.numbers[2])
           p3 == Le16(o.numbers[3])
           p4 == <<o.numbers[4]>>
           p5 == <<o.numbers[5]>>
           p6 == Le16(o.numbers[6])
           p7 == Le32(o.numbers[7])
           p8 == Short(o.name)
<1>3. /\ p1 \in Seq(Byte) /\ Len(p1) = 2 /\ Unsigned(p1) = o.numbers[1]
      /\ p2 \in Seq(Byte) /\ Len(p2) = 2 /\ Unsigned(p2) = o.numbers[2]
      /\ p3 \in Seq(Byte) /\ Len(p3) = 2 /\ Unsigned(p3) = o.numbers[3]
      /\ p6 \in Seq(Byte) /\ Len(p6) = 2 /\ Unsigned(p6) = o.numbers[6]
  <2>1. \A n \in Word : Le16(n) \in Seq(Byte) /\ Len(Le16(n)) = 2 /\ Unsigned(Le16(n)) = n
    BY Le16Is
  <2>2. /\ o.numbers[1] \in Word /\ o.numbers[2] \in Word /\ o.numbers[3] \in Word
        /\ o.numbers[6] \in Word
    BY <1>1
  <2> QED
    BY <2>1, <2>2
<1>4. /\ p4 \in Seq(Byte) /\ Len(p4) = 1 /\ Unsigned(p4) = o.numbers[4]
      /\ p5 \in Seq(Byte) /\ Len(p5) = 1 /\ Unsigned(p5) = o.numbers[5]
  BY <1>1, ByteIs
<1>5. p7 \in Seq(Byte) /\ Len(p7) = 4 /\ Unsigned(p7) = o.numbers[7]
  BY <1>2, Le32Is
<1>6. o.name \in Seq(Byte) /\ p8 \in Seq(Byte) /\ Field(p8, SHORT_STRING, o.name)
  BY <1>1, ShortIs
<1>7. DeviceBytes(o) = Then(Then(Then(p1, p2), p3), Then(Then(Then(p4, p5), p6), Then(p7, p8)))
  <2>1. o.kind = "identity"
    BY <1>1
  <2> QED
    BY <2>1, Zenon DEF DeviceBytes, Then
<1> HIDE DEF p1, p2, p3, p4, p5, p6, p7, p8
<1>8. Fits8(b, 2, 2, 2, 1, 1, 2, 4, SHORT_STRING, p1, p2, p3, p4, p5, p6, p7, p8,
            p1, p2, p3, p4, p5, p6, p7, o.name)
  <2>1. /\ Field(p1, 2, p1) /\ Field(p2, 2, p2) /\ Field(p3, 2, p3) /\ Field(p4, 1, p4)
        /\ Field(p5, 1, p5) /\ Field(p6, 2, p6) /\ Field(p7, 4, p7)
    BY <1>3, <1>4, <1>5 DEF Field, SHORT_STRING
  <2>2. /\ Over(p1) /\ Over(p2) /\ Over(p3) /\ Over(p4)
        /\ Over(p5) /\ Over(p6) /\ Over(p7) /\ Over(p8)
    BY <1>3, <1>4, <1>5, <1>6 DEF Over
  <2>3. SHORT_STRING \in Nat
    BY DEF SHORT_STRING
  <2>4. Start(b, Then(Then(Then(p1, p2), p3), Then(Then(Then(p4, p5), p6), Then(p7, p8))))
    BY <1>7
  <2> QED
    BY <1>3, <1>4, <1>5, <1>6, <2>1, <2>2, <2>3, <2>4 DEF Fits8
<1>9. PICK t : t = Take(b, <<2, 2, 2, 1, 1, 2, 4, SHORT_STRING>>)
  OBVIOUS
<1>10. Got8(t, p1, p2, p3, p4, p5, p6, p7, o.name)
  BY <1>8, <1>9, Take8
<1>11. IdentityOf(b) = IF ~t.ok THEN Err
                       ELSE [ok |-> TRUE, kind |-> "identity",
                             numbers |-> [i \in 1..7 |-> Unsigned(t.fields[i])],
                             name |-> t.fields[8]]
  BY <1>9 DEF IdentityOf
<1>12. CASE t = Err
  BY <1>11, <1>12 DEF Err
<1>13. CASE t # Err
  <2>1. /\ t.ok = TRUE /\ t.fields[8] = o.name
        /\ t.fields[1] = p1 /\ t.fields[2] = p2 /\ t.fields[3] = p3 /\ t.fields[4] = p4
        /\ t.fields[5] = p5 /\ t.fields[6] = p6 /\ t.fields[7] = p7
    BY <1>10, <1>13, Zenon DEF Got8
  <2>2. \A i \in 1..7 : Unsigned(t.fields[i]) = o.numbers[i]
    <3>1. \A i \in 1..7 : i = 1 \/ i = 2 \/ i = 3 \/ i = 4 \/ i = 5 \/ i = 6 \/ i = 7
      OBVIOUS
    <3> QED
      BY <1>3, <1>4, <1>5, <2>1, <3>1
  <2>3. [i \in 1..7 |-> Unsigned(t.fields[i])] = o.numbers
    <3>1. o.numbers \in [1..7 -> Nat]
      <4>1. o.numbers \in Seq(Nat) /\ Len(o.numbers) = 7
        BY <1>1
      <4>2. PICK s : s = o.numbers
        OBVIOUS
      <4>3. s \in [1..Len(s) -> Nat]
        BY SMTT(60), <4>1, <4>2, LenProperties
      <4> QED
        BY <4>1, <4>2, <4>3
    <3>2. o.numbers = [i \in 1..7 |-> o.numbers[i]]
      BY SMTT(60), <3>1
    <3> QED
      BY <2>2, <3>2
  <2> QED
    BY <1>11, <2>1, <2>3
<1> QED
  BY <1>12, <1>13

LEMMA TrimBack ==
  ASSUME NEW text \in Seq(1..255), NEW n \in Nat
  PROVE  TrimZeros(text \o Zeros(n)) = text
<1> DEFINE s == text \o Zeros(n)
           l == Len(text)
           X == {0} \cup {i \in DOMAIN s : s[i] # 0}
<1>1. l \in Nat /\ text \in Seq(Byte) /\ Zeros(n) \in Seq(Byte) /\ Len(Zeros(n)) = n
  <2>1. 1..255 \subseteq Byte
    BY DEF Byte
  <2>2. l \in Nat
    BY LenProperties
  <2>3. text \in Seq(Byte)
    BY <2>1, SeqMonotonic
  <2>4. Zeros(n) \in Seq(Byte) /\ Len(Zeros(n)) = n
    BY Pieces
  <2> QED
    BY <2>2, <2>3, <2>4
<1>2. /\ s \in Seq(Byte) /\ Len(s) = l + n
      /\ \A i \in 1..(l + n) : s[i] = IF i <= l THEN text[i] ELSE Zeros(n)[i - l]
  <2>1. PICK z : z = Zeros(n)
    OBVIOUS
  <2>2. /\ text \o z \in Seq(Byte) /\ Len(text \o z) = Len(text) + Len(z)
        /\ \A i \in 1..(Len(text) + Len(z)) :
             (text \o z)[i] = IF i <= Len(text) THEN text[i] ELSE z[i - Len(text)]
    BY <1>1, <2>1, ConcatProperties
  <2>3. Len(z) = n /\ s = text \o z
    BY <1>1, <2>1
  <2> QED
    BY <2>1, <2>2, <2>3, Zenon
<1>3. \A i \in 1..l : text[i] # 0 /\ text[i] \in 1..255
  <2> TAKE i \in 1..l
  <2>1. PICK c : c = text[i]
    OBVIOUS
  <2>2. c \in 1..255
    BY <2>1, ElementOfSeq
  <2>3. c # 0
    BY <2>2
  <2> QED
    BY <2>1, <2>2, <2>3
<1>4. X = 0..l
  <2>1. DOMAIN s = 1..(l + n)
    BY <1>1, <1>2, LenProperties
  <2>2. \A i \in 1..(l + n) : s[i] # 0 <=> i <= l
    BY <1>1, <1>2, <1>3 DEF Zeros
  <2> HIDE DEF s
  <2> QED
    BY <1>1, <2>1, <2>2
<1>5. Max(X) = l
  <2>1. \A x \in 0..l : (\A y \in 0..l : x >= y) <=> x = l
    BY <1>1
  <2> HIDE DEF X, l
  <2>2. l \in 0..l
    BY <1>1
  <2> QED
    BY <1>4, <2>1, <2>2 DEF Max
<1>6. SubSeq(s, 1, l) = text
  <2> HIDE DEF l, s
  <2>1. \A i \in 1..l : s[i] = text[i] /\ s[i] \in 1..255
    <3> TAKE i \in 1..l
    <3>1. i \in 1..(l + n) /\ i <= l
      BY <1>1
    <3> QED
      BY <1>2, <1>3, <3>1
  <2>2. /\ SubSeq(s, 1, l) \in Seq(1..255)
        /\ Len(SubSeq(s, 1, l)) = IF 1 <= l THEN l - 1 + 1 ELSE 0
        /\ \A i \in 1..(l - 1 + 1) : SubSeq(s, 1, l)[i] = s[1 + i - 1]
    BY <1>1, <2>1, SubSeqProperties
  <2>3. l - 1 + 1 = l /\ \A i \in 1..l : 1 + i - 1 = i
    BY <1>1
  <2>4. Len(SubSeq(s, 1, l)) = l /\ \A i \in 1..l : SubSeq(s, 1, l)[i] = text[i]
    BY <1>1, <2>1, <2>2, <2>3
  <2>5. Len(SubSeq(s, 1, l)) = Len(text)
    BY <2>4 DEF l
  <2> QED
    BY <2>2, <2>4, <2>5, SeqEqual DEF l
<1> QED
  BY ZenonT(60), <1>5, <1>6 DEF TrimZeros

FaultFlags(o) == (IF o.valid THEN 1 ELSE 0) + (IF o.realTime THEN 2 ELSE 0)

LEMMA FaultFlagsAre ==
  ASSUME NEW o, o.valid \in BOOLEAN, o.realTime \in BOOLEAN
  PROVE  /\ FaultFlags(o) \in Byte
         /\ o.valid = (FaultFlags(o) % 2 = 1)
         /\ o.realTime = ((FaultFlags(o) \div 2) % 2 = 1)
<1>1. CASE o.valid /\ o.realTime
  <2>1. FaultFlags(o) = 3
    BY <1>1 DEF FaultFlags
  <2>2. 3 \in Byte /\ (3 % 2 = 1) = TRUE /\ ((3 \div 2) % 2 = 1) = TRUE
    BY DEF Byte
  <2>3. o.valid = TRUE /\ o.realTime = TRUE
    BY <1>1
  <2> QED
    BY <2>1, <2>2, <2>3
<1>2. CASE o.valid /\ ~o.realTime
  <2>1. FaultFlags(o) = 1
    BY <1>2 DEF FaultFlags
  <2>2. 1 \in Byte /\ (1 % 2 = 1) = TRUE /\ ((1 \div 2) % 2 = 1) = FALSE
    BY DEF Byte
  <2>3. o.valid = TRUE /\ o.realTime = FALSE
    BY <1>2
  <2> QED
    BY <2>1, <2>2, <2>3
<1>3. CASE ~o.valid /\ o.realTime
  <2>1. FaultFlags(o) = 2
    BY <1>3 DEF FaultFlags
  <2>2. 2 \in Byte /\ (2 % 2 = 1) = FALSE /\ ((2 \div 2) % 2 = 1) = TRUE
    BY DEF Byte
  <2>3. o.valid = FALSE /\ o.realTime = TRUE
    BY <1>3
  <2> QED
    BY <2>1, <2>2, <2>3
<1>4. CASE ~o.valid /\ ~o.realTime
  <2>1. FaultFlags(o) = 0
    BY <1>4 DEF FaultFlags
  <2>2. 0 \in Byte /\ (0 % 2 = 1) = FALSE /\ ((0 \div 2) % 2 = 1) = FALSE
    BY DEF Byte
  <2>3. o.valid = FALSE /\ o.realTime = FALSE
    BY <1>4
  <2> QED
    BY <2>1, <2>2, <2>3
<1> QED
  BY <1>1, <1>2, <1>3, <1>4

LEMMA PaddedText ==
  ASSUME NEW text \in Seq(1..255), Len(text) <= 16
  PROVE  LET s == text \o Zeros(16 - Len(text))
         IN  s \in Seq(Byte) /\ Len(s) = 16 /\ TrimZeros(s) = text
<1>1. PICK n : n = 16 - Len(text)
  OBVIOUS
<1>2. n \in Nat /\ Len(text) + n = 16
  BY <1>1, LenProperties
<1>3. text \in Seq(Byte)
  <2>1. 1..255 \subseteq Byte
    BY DEF Byte
  <2>2. \A i \in 1..Len(text) : text[i] \in Byte
    BY ZenonT(60), <2>1, ElementOfSeq
  <2>3. text \in [1..Len(text) -> Byte] /\ Len(text) \in Nat
    BY <2>2, LenProperties
  <2> QED
    BY <2>3, SeqDef
<1>4. Zeros(n) \in Seq(Byte) /\ Len(Zeros(n)) = n
  BY <1>2, Pieces
<1>5. text \o Zeros(n) \in Seq(Byte) /\ Len(text \o Zeros(n)) = Len(text) + Len(Zeros(n))
  BY ZenonT(60), <1>3, <1>4, ConcatProperties
<1>6. TrimZeros(text \o Zeros(n)) = text
  BY <1>2, TrimBack
<1> QED
  BY <1>1, <1>2, <1>4, <1>5, <1>6

LEMMA FaultExact ==
  ASSUME NEW o, FaultType(o), NEW b, Start(b, DeviceBytes(o))
  PROVE  LET q == FaultOf(b)
         IN  \/ q = Err
             \/ /\ q.ok = TRUE /\ q.kind = "fault" /\ q.code = o.code
                /\ q.port = o.port /\ q.device = o.device /\ q.text = o.text
                /\ q.timer = o.timer /\ q.valid = o.valid /\ q.realTime = o.realTime
<1>1. /\ o.kind = "fault" /\ o.code \in Word /\ o.port \in Byte /\ o.device \in Byte
      /\ o.text \in Seq(1..255) /\ Len(o.text) <= 16
      /\ o.timer \in Seq(Byte) /\ Len(o.timer) = 8
      /\ o.valid \in BOOLEAN /\ o.realTime \in BOOLEAN
  BY DEF FaultType
<1> DEFINE p1 == Le16(o.code)
           p2 == <<o.port>>
           p3 == <<o.device>>
           p4 == o.text \o Zeros(16 - Len(o.text))
           p5 == o.timer
           p6 == <<FaultFlags(o), 0>>
<1>2. p1 \in Seq(Byte) /\ Len(p1) = 2 /\ Unsigned(p1) = o.code
  BY <1>1, Le16Is
<1>3. /\ p2 \in Seq(Byte) /\ Len(p2) = 1 /\ p2[1] = o.port
      /\ p3 \in Seq(Byte) /\ Len(p3) = 1 /\ p3[1] = o.device
  BY <1>1, ByteIs
<1>4. p4 \in Seq(Byte) /\ Len(p4) = 16 /\ TrimZeros(p4) = o.text
  BY <1>1, PaddedText
<1>5. p6 \in Seq(Byte) /\ Len(p6) = 2 /\ p6[1] = FaultFlags(o)
  <2>1. 0 \in Byte
    BY SmallIsByte
  <2>2. FaultFlags(o) \in Byte
    BY <1>1, FaultFlagsAre
  <2> QED
    BY <2>1, <2>2, Pieces
<1>6. o.valid = (FaultFlags(o) % 2 = 1) /\ o.realTime = ((FaultFlags(o) \div 2) % 2 = 1)
  BY <1>1, FaultFlagsAre
<1>7. DeviceBytes(o) = Then(Then(Then(p1, p2), p3), Then(p4, Then(p5, p6)))
  BY <1>1 DEF DeviceBytes, Then, FaultFlags
<1>8. p5 \in Seq(Byte) /\ Len(p5) = 8
  BY <1>1
<1> HIDE DEF p1, p2, p3, p4, p5, p6
<1>9. Fits6(b, 2, 1, 1, 16, 8, 2, p1, p2, p3, p4, p5, p6, p1, p2, p3, p4, p5, p6)
  <2>1. /\ Field(p1, 2, p1) /\ Field(p2, 1, p2) /\ Field(p3, 1, p3) /\ Field(p4, 16, p4)
        /\ Field(p5, 8, p5) /\ Field(p6, 2, p6)
    BY <1>2, <1>3, <1>4, <1>5, <1>8 DEF Field, SHORT_STRING
  <2>2. Over(p1) /\ Over(p2) /\ Over(p3) /\ Over(p4) /\ Over(p5) /\ Over(p6)
    BY <1>2, <1>3, <1>4, <1>5, <1>8 DEF Over
  <2>3. Start(b, Then(Then(Then(p1, p2), p3), Then(p4, Then(p5, p6))))
    BY <1>7
  <2> QED
    BY <1>2, <1>3, <1>4, <1>5, <1>8, <2>1, <2>2, <2>3 DEF Fits6
<1>10. PICK t : t = Take(b, <<2, 1, 1, 16, 8, 2>>)
  OBVIOUS
<1>11. Got6(t, p1, p2, p3, p4, p5, p6)
  BY <1>9, <1>10, Take6
<1>12. FaultOf(b) = IF ~t.ok THEN Err
                    ELSE [ok |-> TRUE, kind |-> "fault", code |-> Unsigned(t.fields[1]),
                          port |-> t.fields[2][1], device |-> t.fields[3][1],
                          text |-> TrimZeros(t.fields[4]), timer |-> t.fields[5],
                          valid |-> t.fields[6][1] % 2 = 1,
                          realTime |-> (t.fields[6][1] \div 2) % 2 = 1]
  BY <1>10 DEF FaultOf
<1>13. CASE t = Err
  BY <1>12, <1>13 DEF Err
<1>14. CASE t # Err
  <2>1. /\ t.ok = TRUE
        /\ t.fields[1] = p1 /\ t.fields[2] = p2 /\ t.fields[3] = p3 /\ t.fields[4] = p4
        /\ t.fields[5] = p5 /\ t.fields[6] = p6
    BY <1>11, <1>14, Zenon DEF Got6
  <2>2. /\ Unsigned(t.fields[1]) = o.code /\ t.fields[2][1] = o.port
        /\ t.fields[3][1] = o.device /\ TrimZeros(t.fields[4]) = o.text
        /\ t.fields[5] = o.timer /\ t.fields[6][1] = FaultFlags(o)
    BY <1>2, <1>3, <1>4, <1>5, <2>1 DEF p5
  <2> QED
    BY <1>6, <1>12, <2>1, <2>2
<1> QED
  BY <1>13, <1>14

-----------------------------------------------------------------------------
(* Scaling attributes *)

\* s is x, which has l bytes, and then the two of a.
Longer(s, x, l, a) ==
  /\ Over(s) /\ Len(s) = l + 2
  /\ \A i \in 1..l : s[i] = x[i]
  /\ s[l + 1] = a[1] /\ s[l + 2] = a[2]

LEMMA Two ==
  ASSUME NEW x, Over(x), NEW a, Over(a), Len(a) = 2, NEW l \in Nat, Len(x) = l
  PROVE  Longer(Then(x, a), x, l, a)
<1>1. PICK s : s = x \o a
  OBVIOUS
<1>2. /\ s \in Seq(Byte) /\ Len(s) = Len(x) + Len(a)
      /\ \A i \in 1..(Len(x) + Len(a)) : s[i] = IF i <= Len(x) THEN x[i] ELSE a[i - Len(x)]
  BY <1>1, ConcatProperties DEF Over
<1>3. /\ s \in Seq(Byte) /\ Len(s) = l + 2
      /\ \A i \in 1..(l + 2) : s[i] = IF i <= l THEN x[i] ELSE a[i - l]
  BY <1>2
<1>4. (\A i \in 1..l : s[i] = x[i]) /\ s[l + 1] = a[1] /\ s[l + 2] = a[2]
  <2>1. \A i \in 1..l : i \in 1..(l + 2) /\ i <= l
    OBVIOUS
  <2>2. /\ l + 1 \in 1..(l + 2) /\ ~(l + 1 <= l) /\ (l + 1) - l = 1
        /\ l + 2 \in 1..(l + 2) /\ ~(l + 2 <= l) /\ (l + 2) - l = 2
    OBVIOUS
  <2> QED
    BY <1>3, <2>1, <2>2
<1> QED
  BY <1>1, <1>3, <1>4 DEF Over, Then, Longer

LEMMA LastTwo ==
  ASSUME NEW s \in Seq(Byte), NEW n \in Nat, Len(s) = n + 2, NEW d \in Seq(Byte), Len(d) = 2,
         s[n + 1] = d[1], s[n + 2] = d[2]
  PROVE  SubSeq(s, n + 1, n + 2) = d
<1>1. \A i \in (n + 1)..(n + 2) : s[i] \in Byte
  BY ElementOfSeq
<1>2. PICK u : u = SubSeq(s, n + 1, n + 2)
  OBVIOUS
<1>3. /\ u \in Seq(Byte)
      /\ Len(u) = IF n + 1 <= n + 2 THEN (n + 2) - (n + 1) + 1 ELSE 0
      /\ \A i \in 1..((n + 2) - (n + 1) + 1) : u[i] = s[(n + 1) + i - 1]
  BY <1>1, <1>2, SubSeqProperties
<1>4. Len(u) = 2 /\ u[1] = s[n + 1] /\ u[2] = s[n + 2]
  <2>1. PICK k : k = (n + 2) - (n + 1) + 1
    OBVIOUS
  <2>2. k = 2 /\ (n + 1) + 1 - 1 = n + 1 /\ (n + 1) + 2 - 1 = n + 2
    BY <2>1
  <2>3. Len(u) = k /\ \A i \in 1..k : u[i] = s[(n + 1) + i - 1]
    BY <1>3, <2>1, <2>2
  <2>4. 1 \in 1..k /\ 2 \in 1..k
    BY <2>2
  <2>5. u[1] = s[(n + 1) + 1 - 1] /\ u[2] = s[(n + 1) + 2 - 1]
    BY <2>3, <2>4
  <2> QED
    BY <2>2, <2>3, <2>5
<1>5. \A i \in 1..Len(u) : u[i] = d[i]
  BY <1>4
<1> QED
  BY <1>2, <1>3, <1>4, <1>5, SeqEqual

LEMMA Four ==
  ASSUME NEW a, Over(a), NEW b, Over(b), NEW c, Over(c), NEW d, Over(d),
         Len(a) = 2, Len(b) = 2, Len(c) = 2, Len(d) = 2,
         NEW s, s = Then(Then(Then(a, b), c), d)
  PROVE  /\ Len(s) = 8
         /\ s[1] = a[1] /\ s[2] = a[2] /\ s[3] = b[1] /\ s[4] = b[2]
         /\ s[5] = c[1] /\ s[6] = c[2] /\ SubSeq(s, 7, 8) = d
<1> DEFINE x == Then(a, b)
           y == Then(x, c)
<1>1. Over(x) /\ Len(x) = 4 /\ x[1] = a[1] /\ x[2] = a[2] /\ x[3] = b[1] /\ x[4] = b[2]
  <2>1. 2 \in Nat /\ 2 + 1 = 3 /\ 2 + 2 = 4 /\ 1 \in 1..2 /\ 2 \in 1..2
    OBVIOUS
  <2>2. /\ Over(x) /\ Len(x) = 2 + 2 /\ \A i \in 1..2 : x[i] = a[i]
        /\ x[2 + 1] = b[1] /\ x[2 + 2] = b[2]
    <3>1. Longer(x, a, 2, b)
      BY <2>1, Two
    <3> QED
      BY <3>1 DEF Longer
  <2> QED
    BY <2>1, <2>2
<1> HIDE DEF x
<1>2. /\ Over(y) /\ Len(y) = 6 /\ y[1] = a[1] /\ y[2] = a[2] /\ y[3] = b[1]
      /\ y[4] = b[2] /\ y[5] = c[1] /\ y[6] = c[2]
  <2>1. 4 \in Nat /\ 4 + 1 = 5 /\ 4 + 2 = 6
    OBVIOUS
  <2>2. /\ Over(y) /\ Len(y) = 4 + 2 /\ \A i \in 1..4 : y[i] = x[i]
        /\ y[4 + 1] = c[1] /\ y[4 + 2] = c[2]
    <3>1. Longer(y, x, 4, c)
      BY <1>1, <2>1, Two
    <3> QED
      BY <3>1 DEF Longer
  <2> HIDE DEF y
  <2> QED
    BY <1>1, <2>1, <2>2
<1>3. s = Then(y, d)
  BY DEF x
<1> HIDE DEF y
<1>4. /\ Over(s) /\ Len(s) = 8 /\ s[1] = a[1] /\ s[2] = a[2] /\ s[3] = b[1]
      /\ s[4] = b[2] /\ s[5] = c[1] /\ s[6] = c[2] /\ s[7] = d[1] /\ s[8] = d[2]
  <2>1. 6 \in Nat /\ 6 + 1 = 7 /\ 6 + 2 = 8
    OBVIOUS
  <2>2. /\ Over(Then(y, d)) /\ Len(Then(y, d)) = 6 + 2 /\ \A i \in 1..6 : Then(y, d)[i] = y[i]
        /\ Then(y, d)[6 + 1] = d[1] /\ Then(y, d)[6 + 2] = d[2]
    <3>1. Longer(Then(y, d), y, 6, d)
      BY <1>2, <2>1, Two
    <3> QED
      BY <3>1 DEF Longer
  <2>3. Over(s) /\ Len(s) = 8 /\ (\A i \in 1..6 : s[i] = y[i]) /\ s[7] = d[1] /\ s[8] = d[2]
    BY <1>3, <2>1, <2>2
  <2> QED
    BY <1>2, <2>3
<1>5. SubSeq(s, 7, 8) = d
  <2>1. PICK n : n = 6
    OBVIOUS
  <2>2. n \in Nat /\ n + 1 = 7 /\ n + 2 = 8
    BY <2>1
  <2>3. s \in Seq(Byte) /\ d \in Seq(Byte)
    BY <1>4 DEF Over
  <2>4. Len(s) = n + 2 /\ s[n + 1] = d[1] /\ s[n + 2] = d[2]
    BY <1>4, <2>2
  <2>5. SubSeq(s, n + 1, n + 2) = d
    BY <2>2, <2>3, <2>4, LastTwo
  <2> QED
    BY <2>2, <2>5
<1> QED
  BY <1>4, <1>5

LEMMA Mod16 ==
  ASSUME NEW n \in Int
  PROVE  n % 65536 \in Nat /\ n % 65536 < 65536
BY SMT

LEMMA WordIs == \A n \in Nat : n < 65536 => n \in Word
BY DEF Word

LEMMA SignedBack ==
  ASSUME NEW v \in SignedWord
  PROVE  v \in Int /\ (IF v % 65536 > 32767 THEN (v % 65536) - 65536 ELSE v % 65536) = v
BY SMT DEF SignedWord

Replies(o) ==
  ((ScalingReply(o, "multiplier") \o ScalingReply(o, "divisor")) \o ScalingReply(o, "base"))
    \o ScalingReply(o, "offset")

LEMMA RepliesAre ==
  ASSUME NEW o, o.scaling \in Scales
  PROVE  /\ \A a \in {"multiplier", "divisor", "base", "offset"} :
              ScalingReply(o, a) \in Seq(Byte) /\ Len(ScalingReply(o, a)) = 2
         /\ \A a \in {"multiplier", "divisor", "base"} :
              ScalingReply(o, a)[1] + 256 * ScalingReply(o, a)[2] = o.scaling[a]
         /\ Decode(ScalingReply(o, "offset"), [size |-> 2, signed |-> TRUE]).v
              = o.scaling.offset
<1>1. ASSUME NEW n \in Int
      PROVE  /\ Le16(n % 65536) \in Seq(Byte) /\ Len(Le16(n % 65536)) = 2
             /\ Unsigned(Le16(n % 65536)) = n % 65536
  <2>1. n % 65536 \in Word
    BY Mod16, WordIs
  <2> QED
    BY <2>1, Le16Is
<1>2. ASSUME NEW n \in Word
      PROVE  n % 65536 = n /\ Le16(n % 65536)[1] + 256 * Le16(n % 65536)[2] = n
  <2>1. n \in Nat /\ n < 65536 /\ n % 65536 = n
    <3>1. n \in Nat /\ n < 65536
      BY DEF Word
    <3> QED
      BY <3>1, SMT
  <2>2. Le16(n) = <<n % 256, (n \div 256) % 256>>
    BY DEF Le16
  <2>3. Le16(n)[1] = n % 256 /\ Le16(n)[2] = (n \div 256) % 256
    BY <2>2, SMT
  <2>4. (n % 256) + 256 * ((n \div 256) % 256) = n
    BY <2>1, Digits, SMT
  <2> QED
    BY <2>1, <2>3, <2>4, SMT
<1>3. /\ o.scaling.multiplier \in Word /\ o.scaling.divisor \in Word /\ o.scaling.base \in Word
      /\ o.scaling.offset \in SignedWord
  BY ScalesFields
<1>4. Word \subseteq Int /\ SignedWord \subseteq Int
  <2>1. Word \subseteq Int
    BY DEF Word
  <2>2. SignedWord \subseteq Int
    BY SignedBack
  <2> QED
    BY <2>1, <2>2
<1>5. ASSUME NEW a \in {"multiplier", "divisor", "base", "offset"}
      PROVE  /\ o.scaling[a] \in Int
             /\ ScalingReply(o, a) = Le16(o.scaling[a] % 65536)
  <2>1. o.scaling[a] \in Word \cup SignedWord
    BY <1>3
  <2>2. o.scaling[a] \in Int
    BY <1>4, <2>1
  <2>3. ScalingReply(o, a) = Le16(o.scaling[a] % 65536)
    BY DEF ScalingReply
  <2> QED
    BY <2>2, <2>3
<1>6. ASSUME NEW a \in {"multiplier", "divisor", "base", "offset"}
      PROVE  ScalingReply(o, a) \in Seq(Byte) /\ Len(ScalingReply(o, a)) = 2
  BY <1>1, <1>5
<1>7. ASSUME NEW a \in {"multiplier", "divisor", "base"}
      PROVE  ScalingReply(o, a)[1] + 256 * ScalingReply(o, a)[2] = o.scaling[a]
  <2>1. o.scaling[a] \in Word
    BY <1>3
  <2>2. ScalingReply(o, a) = Le16(o.scaling[a] % 65536)
    BY <1>5
  <2> QED
    BY <1>2, <2>1, <2>2
<1>8. Decode(ScalingReply(o, "offset"), [size |-> 2, signed |-> TRUE]).v = o.scaling.offset
  <2> DEFINE T == [size |-> 2, signed |-> TRUE]
             v == o.scaling.offset
             x == ScalingReply(o, "offset")
  <2>1. v \in SignedWord /\ v \in Int
    BY <1>3, <1>4
  <2>2. Len(x) = 2 /\ Unsigned(x) = v % 65536
    BY <1>1, <1>5, <2>1
  <2>3. T.size = 2 /\ Span(T.size) = 65536 /\ MaxOf(T) = 32767
    BY SpanIs, SMT DEF MaxOf, MinOf
  <2>4. (IF v % 65536 > 32767 THEN (v % 65536) - 65536 ELSE v % 65536) = v
    BY <2>1, SignedBack
  <2>5. Decode(x, T) = [ok |-> TRUE, v |-> IF Unsigned(x) > MaxOf(T) THEN Unsigned(x) - Span(T.size)
                                           ELSE Unsigned(x)]
    BY <2>2, <2>3 DEF Decode
  <2>6. Decode(x, T).v = IF Unsigned(x) > MaxOf(T) THEN Unsigned(x) - Span(T.size) ELSE Unsigned(x)
    BY <2>5
  <2> HIDE DEF x, T, v
  <2>7. Decode(x, T).v = v
    BY <2>2, <2>3, <2>4, <2>6, SMT
  <2> QED
    BY <2>7 DEF x, T, v
<1> QED
  BY <1>6, <1>7, <1>8

\* The replies put together give the device's scaling, whatever was held before.
LEMMA ScalingExact ==
  ASSUME NEW o, o.scaling \in Scales, NEW p, p.scaling \in Scales,
         p.scaling.precision = o.scaling.precision, NEW b, b = Replies(o)
  PROVE  WithScaling(p, b) = [p EXCEPT !.scaling = o.scaling]
<1> DEFINE R(a) == ScalingReply(o, a)
<1>1. /\ Len(b) = 8 /\ b[1] = R("multiplier")[1] /\ b[2] = R("multiplier")[2]
      /\ b[3] = R("divisor")[1] /\ b[4] = R("divisor")[2]
      /\ b[5] = R("base")[1] /\ b[6] = R("base")[2] /\ SubSeq(b, 7, 8) = R("offset")
  <2>1. PICK c1, c2, c3, c4 : c1 = R("multiplier") /\ c2 = R("divisor") /\ c3 = R("base")
                              /\ c4 = R("offset")
    OBVIOUS
  <2>2. /\ c1 \in Seq(Byte) /\ c2 \in Seq(Byte) /\ c3 \in Seq(Byte) /\ c4 \in Seq(Byte)
        /\ Len(c1) = 2 /\ Len(c2) = 2 /\ Len(c3) = 2 /\ Len(c4) = 2
    BY <2>1, RepliesAre
  <2>3. b = Then(Then(Then(c1, c2), c3), c4)
    BY <2>1 DEF Replies, Then
  <2>4. Over(c1) /\ Over(c2) /\ Over(c3) /\ Over(c4)
    BY <2>2 DEF Over
  <2>5. Len(c1) = 2 /\ Len(c2) = 2 /\ Len(c3) = 2 /\ Len(c4) = 2
    BY <2>2
  <2>6. /\ Len(b) = 8 /\ b[1] = c1[1] /\ b[2] = c1[2] /\ b[3] = c2[1] /\ b[4] = c2[2]
        /\ b[5] = c3[1] /\ b[6] = c3[2] /\ SubSeq(b, 7, 8) = c4
    BY <2>3, <2>4, <2>5, Four
  <2> QED
    BY <2>1, <2>6
<1>2. /\ Get16(b, 1) = o.scaling.multiplier /\ Get16(b, 3) = o.scaling.divisor
      /\ Get16(b, 5) = o.scaling.base
  BY <1>1, RepliesAre DEF Get16
<1>3. Decode(SubSeq(b, 7, 8), [size |-> 2, signed |-> TRUE]).v = o.scaling.offset
  BY ZenonT(60), <1>1, RepliesAre
<1>4. WithScaling(p, b) =
        [p EXCEPT !.scaling.multiplier = Get16(b, 1), !.scaling.divisor = Get16(b, 3),
                  !.scaling.base = Get16(b, 5),
                  !.scaling.offset = Decode(SubSeq(b, 7, 8), [size |-> 2, signed |-> TRUE]).v]
  BY <1>1 DEF WithScaling
<1>5. PICK m, d, e, f : /\ m = Get16(b, 1) /\ d = Get16(b, 3) /\ e = Get16(b, 5)
                        /\ f = Decode(SubSeq(b, 7, 8), [size |-> 2, signed |-> TRUE]).v
  OBVIOUS
<1>6. [p.scaling EXCEPT !.multiplier = m, !.divisor = d, !.base = e, !.offset = f] = o.scaling
  BY <1>2, <1>3, <1>5, ZenonT(60) DEF Scales
<1>7. WithScaling(p, b) =
        [p EXCEPT !.scaling.multiplier = m, !.scaling.divisor = d,
                  !.scaling.base = e, !.scaling.offset = f]
  BY <1>4, <1>5
<1>8. WithScaling(p, b) = [p EXCEPT !.scaling = [p.scaling EXCEPT !.multiplier = m, !.divisor = d,
                                                                  !.base = e, !.offset = f]]
  BY <1>7
<1> QED
  BY <1>6, <1>8

\* At most the bytes of x, and if as many then x.
Upto(s, x) == s \in Seq(Byte) /\ Len(s) <= Len(x) /\ (Len(s) = Len(x) => s = x)

LEMMA UptoNext ==
  ASSUME NEW s, NEW x \in Seq(Byte), Upto(s, x), NEW y \in Seq(Byte), Len(y) = 2,
         NEW n \in 0..2
  PROVE  Upto(s \o SubSeq(y, 1, n), x \o y)
<1>1. s \in Seq(Byte) /\ Len(s) <= Len(x) /\ (Len(s) = Len(x) => s = x)
  BY DEF Upto
<1>2. PICK z : z = SubSeq(y, 1, n)
  OBVIOUS
<1>3. z \in Seq(Byte) /\ Len(z) = n /\ (n = 2 => z = y)
  <2>1. \A i \in 1..n : y[i] \in Byte
    BY ElementOfSeq
  <2>2. /\ z \in Seq(Byte) /\ Len(z) = IF 1 <= n THEN n - 1 + 1 ELSE 0
        /\ \A i \in 1..(n - 1 + 1) : z[i] = y[1 + i - 1]
    BY <1>2, <2>1, SubSeqProperties
  <2>3. Len(z) = n /\ \A i \in 1..n : z[i] = y[i]
    <3>1. n - 1 + 1 = n /\ \A i \in 1..n : 1 + i - 1 = i
      OBVIOUS
    <3> QED
      BY <2>2, <3>1
  <2>4. n = 2 => z = y
    BY <2>2, <2>3, SeqEqual
  <2> QED
    BY <2>2, <2>3, <2>4
<1>4. /\ s \o z \in Seq(Byte) /\ Len(s \o z) = Len(s) + n
      /\ x \o y \in Seq(Byte) /\ Len(x \o y) = Len(x) + 2
  <2>1. s \o z \in Seq(Byte) /\ Len(s \o z) = Len(s) + Len(z)
    BY <1>1, <1>3, ConcatProperties
  <2>2. x \o y \in Seq(Byte) /\ Len(x \o y) = Len(x) + Len(y)
    BY ConcatProperties
  <2> QED
    BY <1>3, <2>1, <2>2
<1>5. Len(s) \in Nat /\ Len(x) \in Nat
  BY <1>1, LenProperties
<1>6. Len(s \o z) <= Len(x \o y) /\ (Len(s \o z) = Len(x \o y) => Len(s) = Len(x) /\ n = 2)
  BY <1>1, <1>4, <1>5
<1> QED
  BY <1>1, <1>2, <1>3, <1>4, <1>6 DEF Upto

-----------------------------------------------------------------------------
(* Limits in engineering units *)

IntegerType == [size : Size, signed : BOOLEAN]

LEMMA ScalingOfIs ==
  ASSUME NEW p, p.scaling \in Scales
  PROVE  ScalingOf(p) \in Scales
<1>1. 0 \in Byte /\ 1 \in Word /\ 0 \in SignedWord
  BY SmallIsByte, WordIs DEF SignedWord
<1>2. NoScaling \in Scales
  BY <1>1 DEF NoScaling, Scales
<1> QED
  BY <1>2 DEF ScalingOf

LEMMA Distribute ==
  ASSUME NEW v \in Int, NEW f \in Int, NEW m \in Int, NEW b \in Int, NEW d \in Int,
         d = 100 * m * b
  PROVE  100 * ((v + f) * m * b) = v * d + f * d
<1>1. 100 * ((v + f) * m * b) = (v + f) * d
  <2>1. PICK x \in Int : x = v + f
    OBVIOUS
  <2>2. 100 * (x * m * b) = x * (100 * m * b)
    BY <2>1, SMT
  <2> QED
    BY <2>1, <2>2
<1>2. (v + f) * d = v * d + f * d
  BY SMT
<1> QED
  BY <1>1, <1>2

\* What may be stored for a limit is in the type's range, and in engineering
\* units no neighbour in the range is closer to what was set.
LEMMA ActualsNearest ==
  ASSUME NEW p, p.scaling \in Scales, NEW eng \in Int, NEW T \in IntegerType,
         NEW v \in Actuals(p, eng, T)
  PROVE  /\ v \in MinOf(T)..MaxOf(T)
         /\ ScalingOf(p).multiplier * ScalingOf(p).base # 0 =>
              \A w \in {v - 1, v + 1} \cap MinOf(T)..MaxOf(T) :
                Abs(100 * ActualToEng(p, v) - eng * Unit(p))
                  <= Abs(100 * ActualToEng(p, w) - eng * Unit(p))
<1> DEFINE s == ScalingOf(p)
<1>1. PICK m \in Nat, b \in Nat, f \in Int, k \in Nat, c \in Int :
        /\ s.multiplier = m /\ s.base = b /\ s.offset = f /\ s.divisor = k
        /\ 10^s.precision = c
  <2>1. s \in Scales
    BY ScalingOfIs
  <2> HIDE DEF s
  <2>2. /\ s.multiplier \in Word /\ s.divisor \in Word /\ s.base \in Word
        /\ s.offset \in SignedWord /\ s.precision \in Byte
    BY <2>1, ScalesFields
  <2>3. Word \subseteq Nat /\ SignedWord \subseteq Int /\ Byte \subseteq Nat
    BY DEF Word, SignedWord, Byte
  <2>4. 10^s.precision \in Int
    <3>1. s.precision \in Nat
      BY <2>2, <2>3
    <3> QED
      BY <3>1
  <2> QED
    BY <2>2, <2>3, <2>4
<1>2. PICK d \in Nat : d = 100 * m * b
  OBVIOUS
<1>3. PICK n \in Int : n = eng * k * c
  OBVIOUS
<1>4. /\ MinOf(T) \in Int /\ MaxOf(T) \in Int /\ MinOf(T) <= 0 /\ 0 <= MaxOf(T)
  BY RangeOf DEF IntegerType
<1>5. Actuals(p, eng, T) = FromF64(IF d = 0 THEN n ELSE n - f * d, d, T)
  BY <1>1, <1>2, <1>3 DEF Actuals
<1>6. CASE d = 0
  <2>1. v \in {0, MaxOf(T), MinOf(T)}
    BY <1>5, <1>6 DEF FromF64
  <2>2. v \in MinOf(T)..MaxOf(T)
    BY <1>4, <2>1
  <2>3. m * b = 0
    BY <1>2, <1>6, SMT
  <2> QED
    BY <1>1, <2>2, <2>3
<1>7. CASE d # 0
  <2>1. PICK g \in Int : g = n - f * d
    BY <1>1, <1>2, <1>3
  <2>2. FromF64(g, d, T) = {Max({MinOf(T), Min({MaxOf(T), u})}) : u \in Rounded(g, d)}
    BY <1>7 DEF FromF64
  <2>3. PICK u \in Rounded(g, d) : v = Clamped(u, MinOf(T), MaxOf(T))
    BY <1>5, <1>7, <2>1, <2>2 DEF Clamped
  <2>4. /\ v \in MinOf(T)..MaxOf(T)
        /\ \A w \in {v - 1, v + 1} \cap MinOf(T)..MaxOf(T) :
             Abs(v * d - g) <= Abs(w * d - g)
    <3>1. d \in Nat \ {0} /\ MinOf(T) <= MaxOf(T)
      BY <1>4, <1>7
    <3> QED
      BY <1>4, <2>3, <3>1, ClampedNearest
  <2>5. ASSUME NEW w \in Int
        PROVE  100 * ActualToEng(p, w) - eng * Unit(p) = w * d - g
    <3>1. ActualToEng(p, w) = (w + f) * m * b
      BY <1>1 DEF ActualToEng
    <3>2. 100 * ActualToEng(p, w) = w * d + f * d
      BY <1>2, <3>1, Distribute
    <3>3. eng * Unit(p) = n
      <4>1. Unit(p) = k * c
        BY <1>1 DEF Unit
      <4>2. eng * (k * c) = eng * k * c
        BY SMT
      <4> QED
        BY <1>3, <4>1, <4>2
    <3>4. PICK x \in Int, y \in Int : x = w * d /\ y = f * d
      OBVIOUS
    <3>5. 100 * ActualToEng(p, w) = x + y /\ g = n - y
      BY <2>1, <3>2, <3>4
    <3>6. (x + y) - n = x - (n - y)
      BY <3>4
    <3> QED
      BY <3>3, <3>4, <3>5, <3>6
  <2>6. v \in Int
    BY <1>4, <2>4
  <2> QED
    BY <1>4, <2>4, <2>5, <2>6
<1> QED
  BY <1>6, <1>7

-----------------------------------------------------------------------------
(* The inductive invariant *)

ScalingAttributes == {"multiplier", "divisor", "base", "offset"}
TextFields        == {"name", "units", "help", "min", "max", "default"}

Params ==
  [ok : {TRUE}, kind : {"parameter"}, size : Nat, full : BOOLEAN,
   scalable : BOOLEAN, readOnly : BOOLEAN, type : Byte,
   name : Seq(Byte), units : Seq(Byte), help : Seq(Byte), value : Seq(Byte),
   min : Seq(Byte), max : Seq(Byte), default : Seq(Byte), scaling : Scales]

\* p is what the device o has, apart from the fields in own, with one of values.
Same(p, o, values, own) ==
  /\ p.size = o.size /\ p.scalable = o.scalable /\ p.readOnly = o.readOnly
  /\ p.type = o.type
  /\ p.scaling = IF ~o.scalable \/ ~p.full THEN NoScaling ELSE o.scaling
  /\ \A f \in TextFields \ own :
       p[f] = IF p.full THEN o[f] ELSE New(o.size, FALSE)[f]
  /\ \/ Len(p.value) # o.size
     \/ Unsigned(p.value) \in values

\* Limits the user has set.
Own == IF set.ok THEN {set.which} ELSE {}

\* While a read is going on there is no parameter yet, and the device's value
\* is one of those it had since.
AskInv ==
  /\ asked \in {"none", "size", "all"} \cup ScalingAttributes
  /\ asked # "none" =>
       object.kind = "parameter" /\ param = Err /\ object.value \in since

\* What it has read so far.
ReadingInv ==
  /\ asked = "size" => reading.full \in BOOLEAN
  /\ asked = "all" => \E full \in BOOLEAN : reading = New(object.size, full)
  /\ asked \in ScalingAttributes =>
       /\ object.scalable = TRUE
       /\ \E v \in since : /\ v \in Nat /\ v < Span(object.size)
                           /\ reading = Copy(object, TRUE, v)

\* Only replies that are all whole are as long as all replies.
ScalingInv ==
  LET R(attribute) == ScalingReply(object, attribute)
  IN  /\ asked \in {"none", "size", "all", "multiplier"} => scaling = <<>>
      /\ asked = "divisor" => Upto(scaling, R("multiplier"))
      /\ asked = "base" => Upto(scaling, R("multiplier") \o R("divisor"))
      /\ asked = "offset" =>
           Upto(scaling, (R("multiplier") \o R("divisor")) \o R("base"))

\* The scanner's copy.
ParamInv ==
  \/ param = Err
  \/ /\ object.kind = "identity" /\ param.ok = TRUE /\ param.kind = "identity"
     /\ param.numbers = object.numbers /\ param.name = object.name
  \/ /\ object.kind = "fault" /\ param.ok = TRUE /\ param.kind = "fault"
     /\ param.code = object.code /\ param.port = object.port
     /\ param.device = object.device /\ param.text = object.text
     /\ param.timer = object.timer /\ param.valid = object.valid
     /\ param.realTime = object.realTime
  \/ object.kind = "parameter" /\ param \in Params /\ Same(param, object, held, Own)
  \/ object.kind = "none" /\ param \in Params

\* A limit is still what was stored for the engineering value.
SetInv ==
  \/ set = Err
  \/ /\ set.ok = TRUE /\ set.which \in {"min", "max", "default"}
     /\ set.eng \in Int /\ set.T \in IntegerType /\ param \in Params
     /\ \E v \in Actuals(param, set.eng, set.T) :
          param[set.which] = Bytes(v, set.T.size)

ObjInv == ObjectType(object)

Inv == ObjInv /\ AskInv /\ ReadingInv /\ ScalingInv /\ ParamInv /\ SetInv

LEMMA NoScalingIs == NoScaling \in Scales
<1>1. 0 \in Byte /\ 1 \in Word /\ 0 \in SignedWord
  BY SmallIsByte, WordIs DEF SignedWord
<1> QED
  BY <1>1 DEF NoScaling, Scales

LEMMA TextsAre == ASSUME NEW t \in Texts PROVE t \in Seq(Byte)
BY DEF Texts

\* A copy is a parameter, and the one the device has.
LEMMA CopyIs ==
  ASSUME NEW o, ParameterType(o), NEW full \in BOOLEAN, NEW v \in Nat, v < Span(o.size)
  PROVE  /\ Copy(o, full, v) \in Params
         /\ Copy(o, full, v).scalable = o.scalable /\ Copy(o, full, v).full = full
         /\ Copy(o, full, v).scaling.precision
              = IF full /\ o.scalable THEN o.scaling.precision ELSE 0
<1>1. /\ o.size \in Size /\ o.scalable \in BOOLEAN /\ o.readOnly \in BOOLEAN /\ o.type \in Byte
      /\ o.name \in Seq(Byte) /\ o.units \in Seq(Byte) /\ o.help \in Seq(Byte)
      /\ o.min \in Seq(Byte) /\ o.max \in Seq(Byte) /\ o.default \in Seq(Byte)
      /\ o.scaling \in Scales
  BY ParameterFields, TextsAre
<1>2. o.size \in Nat /\ v \in Int
  BY <1>1 DEF Size
<1>3. Bytes(v, o.size) \in Seq(Byte) /\ Zeros(o.size) \in Seq(Byte) /\ <<>> \in Seq(Byte)
  <2>1. Bytes(v, o.size) \in Seq(Byte)
    BY <1>1, <1>2, BytesAre
  <2>2. Zeros(o.size) \in Seq(Byte)
    BY <1>2, Pieces
  <2> QED
    BY <2>1, <2>2, EmptySeq
<1> DEFINE s == [NoScaling EXCEPT !.precision = o.scaling.precision]
<1>4. s \in Scales /\ s.precision = o.scaling.precision /\ NoScaling.precision = 0
  <2>1. o.scaling.precision \in Byte
    BY <1>1, ScalesFields
  <2> QED
    BY <2>1, NoScalingIs DEF Scales, NoScaling
<1> DEFINE c == IF full /\ o.scalable THEN s ELSE NoScaling
<1>5. c \in Scales /\ c.precision = IF full /\ o.scalable THEN o.scaling.precision ELSE 0
  BY <1>4, NoScalingIs
<1>6. PICK n, u, h, i, a, d, y, z :
        /\ n = (IF full THEN o.name ELSE <<>>) /\ u = (IF full THEN o.units ELSE <<>>)
        /\ h = (IF full THEN o.help ELSE <<>>) /\ i = (IF full THEN o.min ELSE Zeros(o.size))
        /\ a = (IF full THEN o.max ELSE Zeros(o.size))
        /\ d = (IF full THEN o.default ELSE Zeros(o.size))
        /\ y = Bytes(v, o.size) /\ z = c
  OBVIOUS
<1>7. /\ n \in Seq(Byte) /\ u \in Seq(Byte) /\ h \in Seq(Byte) /\ i \in Seq(Byte)
      /\ a \in Seq(Byte) /\ d \in Seq(Byte) /\ y \in Seq(Byte)
  BY <1>1, <1>3, <1>6
<1>8. Copy(o, full, v) =
        [ok |-> TRUE, kind |-> "parameter", size |-> o.size, full |-> full,
         scalable |-> o.scalable, readOnly |-> o.readOnly, type |-> o.type,
         name |-> n, units |-> u, help |-> h, value |-> y,
         min |-> i, max |-> a, default |-> d, scaling |-> z]
  BY <1>6 DEF Copy
<1> HIDE DEF c, s
<1> QED
  BY <1>1, <1>2, <1>5, <1>6, <1>7, <1>8 DEF Params

\* What a read answers with is what the device has.
LEMMA CopySame ==
  ASSUME NEW o, ParameterType(o), NEW full \in BOOLEAN, NEW v \in Nat, v < Span(o.size),
         NEW values, v \in values, ~full \/ ~o.scalable
  PROVE  Same(Copy(o, full, v), o, values, {})
<1> DEFINE p == Copy(o, full, v)
<1>1. /\ p.size = o.size /\ p.scalable = o.scalable /\ p.readOnly = o.readOnly
      /\ p.type = o.type /\ p.full = full /\ p.value = Bytes(v, o.size)
      /\ p.scaling = NoScaling
  BY DEF Copy
<1>2. \A f \in TextFields : p[f] = IF full THEN o[f] ELSE New(o.size, FALSE)[f]
  <2>1. /\ p.name = (IF full THEN o.name ELSE New(o.size, FALSE).name)
        /\ p.units = (IF full THEN o.units ELSE New(o.size, FALSE).units)
        /\ p.help = (IF full THEN o.help ELSE New(o.size, FALSE).help)
        /\ p.min = (IF full THEN o.min ELSE New(o.size, FALSE).min)
        /\ p.max = (IF full THEN o.max ELSE New(o.size, FALSE).max)
        /\ p.default = (IF full THEN o.default ELSE New(o.size, FALSE).default)
    BY DEF Copy, New
  <2> QED
    BY <2>1 DEF TextFields
<1>3. Unsigned(Bytes(v, o.size)) = v
  <2>1. o.size \in Size /\ v \in Int
    BY ParameterFields
  <2> QED
    BY <2>1, BytesAre
<1> HIDE DEF p
<1> QED
  BY <1>1, <1>2, <1>3 DEF Same, p

\* With the four replies it has all of the device's scaling.
LEMMA ScaledSame ==
  ASSUME NEW o, ParameterType(o), NEW v \in Nat, v < Span(o.size), NEW values, v \in values
  PROVE  LET p == [Copy(o, TRUE, v) EXCEPT !.scaling = o.scaling]
         IN  p \in Params /\ (o.scalable => Same(p, o, values, {}))
<1> DEFINE q == Copy(o, TRUE, v)
           p == [q EXCEPT !.scaling = o.scaling]
<1>1. q \in Params
  BY CopyIs
<1>2. o.scaling \in Scales
  BY ParameterFields
<1>3. p \in Params /\ p.scaling = o.scaling
      /\ \A f \in DOMAIN q \ {"scaling"} : p[f] = q[f]
  <2> HIDE DEF q
  <2> QED
    BY <1>1, <1>2 DEF Params
<1>4. /\ q.size = o.size /\ q.scalable = o.scalable /\ q.readOnly = o.readOnly
      /\ q.type = o.type /\ q.full = TRUE /\ q.value = Bytes(v, o.size)
      /\ q.name = o.name /\ q.units = o.units /\ q.help = o.help
      /\ q.min = o.min /\ q.max = o.max /\ q.default = o.default
  BY DEF Copy
<1>5. {"size", "scalable", "readOnly", "type", "full", "value", "name", "units", "help",
       "min", "max", "default"} \subseteq DOMAIN q \ {"scaling"}
  BY <1>1 DEF Params
<1>6. /\ p.size = o.size /\ p.scalable = o.scalable /\ p.readOnly = o.readOnly
      /\ p.type = o.type /\ p.full = TRUE /\ p.value = Bytes(v, o.size)
      /\ p.name = o.name /\ p.units = o.units /\ p.help = o.help
      /\ p.min = o.min /\ p.max = o.max /\ p.default = o.default
  <2> HIDE DEF p, q
  <2> QED
    BY <1>3, <1>4, <1>5
<1>7. Unsigned(Bytes(v, o.size)) = v
  <2>1. o.size \in Size /\ v \in Int
    BY ParameterFields
  <2> QED
    BY <2>1, BytesAre
<1> HIDE DEF p, q
<1>8. \A f \in TextFields : p[f] = o[f]
  BY <1>6 DEF TextFields
<1>9. ASSUME o.scalable PROVE Same(p, o, values, {})
  BY <1>3, <1>6, <1>7, <1>8, <1>9 DEF Same
<1> QED
  BY <1>3, <1>9 DEF p, q

-----------------------------------------------------------------------------
(* The steps *)

LEMMA ParamsOk == ASSUME NEW p \in Params PROVE p.ok = TRUE /\ p.kind = "parameter" /\ p # Err
<1>1. p.ok = TRUE /\ p.kind = "parameter"
  BY DEF Params
<1>2. Err.ok = FALSE
  BY DEF Err
<1> QED
  BY <1>1, <1>2

\* Nothing but a change of the value.
LEMMA OtherValue ==
  ASSUME NEW o, ParameterType(o), NEW v \in Nat, v < Span(o.size),
         NEW o2, o2 = [o EXCEPT !.value = v]
  PROVE  /\ ParameterType(o2) /\ o2.value = v
         /\ o2.kind = o.kind /\ o2.size = o.size /\ o2.scalable = o.scalable
         /\ o2.scaling = o.scaling
         /\ \A full, w : Copy(o2, full, w) = Copy(o, full, w)
         /\ \A a : ScalingReply(o2, a) = ScalingReply(o, a)
         /\ \A p, values, own : Same(p, o, values, own) => Same(p, o2, values, own)
<1>1. o \in [kind : {"parameter"}, size : {1, 2, 4}, value : Nat, link : Texts,
             scalable : BOOLEAN, readOnly : BOOLEAN, type : Byte,
             name : Texts, units : Texts, help : Texts,
             min : Seq(Byte), max : Seq(Byte), default : Seq(Byte), scaling : Scales]
  BY DEF ParameterType
<1>2. /\ o2 \in [kind : {"parameter"}, size : {1, 2, 4}, value : Nat, link : Texts,
                scalable : BOOLEAN, readOnly : BOOLEAN, type : Byte,
                name : Texts, units : Texts, help : Texts,
                min : Seq(Byte), max : Seq(Byte), default : Seq(Byte), scaling : Scales]
      /\ o2.value = v /\ o2.size = o.size /\ o2.kind = o.kind
      /\ o2.scalable = o.scalable /\ o2.readOnly = o.readOnly /\ o2.type = o.type
      /\ o2.name = o.name /\ o2.units = o.units /\ o2.help = o.help
      /\ o2.min = o.min /\ o2.max = o.max /\ o2.default = o.default
      /\ o2.scaling = o.scaling
  BY <1>1
<1>3. ParameterType(o2)
  <2>1. /\ o2.value < Span(o2.size)
        /\ Len(o2.min) = o2.size /\ Len(o2.max) = o2.size /\ Len(o2.default) = o2.size
    BY <1>2, ParameterFields
  <2> QED
    BY <1>2, <2>1 DEF ParameterType
<1>4. ASSUME NEW full, NEW w PROVE Copy(o2, full, w) = Copy(o, full, w)
  BY <1>2, Zenon DEF Copy
<1>5. ASSUME NEW a PROVE ScalingReply(o2, a) = ScalingReply(o, a)
  <2>1. o2.scaling = o.scaling
    BY <1>2
  <2>2. o2.scaling[a] = o.scaling[a]
    BY <2>1
  <2> QED
    BY <2>2 DEF ScalingReply
<1>6. ASSUME NEW p, NEW values, NEW own, Same(p, o, values, own) PROVE Same(p, o2, values, own)
  <2>1. \A f \in TextFields : o2[f] = o[f]
    BY <1>2 DEF TextFields
  <2> QED
    BY ZenonT(60), <1>2, <1>6, <2>1 DEF Same
<1> QED
  BY <1>2, <1>3, <1>4, <1>5, <1>6

LEMMA ObjectKind ==
  ASSUME NEW o, ObjectType(o)
  PROVE  /\ o.kind = "parameter" => ParameterType(o)
         /\ o.kind = "identity" => IdentityType(o)
         /\ o.kind = "fault" => FaultType(o)
BY SMTT(60) DEF ObjectType, ParameterType, IdentityType, FaultType

LEMMA StepDevice ==
  ASSUME Inv, NEW v \in Values, DeviceChanges(v)
  PROVE  Inv'
<1>1. v \in Nat /\ v < Span(object.size) /\ object.kind = "parameter"
      /\ object' = [object EXCEPT !.value = v]
      /\ UNCHANGED <<param, asked, reading, scaling, set, held>>
  BY ParameterAssumption DEF DeviceChanges
<1>2. ParameterType(object)
  BY <1>1, ObjectKind DEF Inv, ObjInv
<1>3. /\ ParameterType(object') /\ object'.value = v
      /\ object'.kind = "parameter" /\ object'.size = object.size
      /\ object'.scalable = object.scalable /\ object'.scaling = object.scaling
      /\ \A full, w : Copy(object', full, w) = Copy(object, full, w)
      /\ \A a : ScalingReply(object', a) = ScalingReply(object, a)
      /\ \A p, values, own : Same(p, object, values, own) => Same(p, object', values, own)
  BY <1>1, <1>2, OtherValue
<1>4. since \subseteq since' /\ (asked # "none" => v \in since')
  BY DEF DeviceChanges
<1>5. ObjInv'
  BY <1>3 DEF ObjInv, ObjectType
<1>6. AskInv'
  BY <1>1, <1>3, <1>4 DEF Inv, AskInv
<1>7. ReadingInv'
  <2>1. ASSUME asked = "all" PROVE \E full \in BOOLEAN : reading = New(object'.size, full)
    BY <1>3, <2>1 DEF Inv, ReadingInv
  <2>2. ASSUME asked \in ScalingAttributes
        PROVE  /\ object'.scalable = TRUE
               /\ \E w \in since' : /\ w \in Nat /\ w < Span(object'.size)
                                    /\ reading = Copy(object', TRUE, w)
    BY <1>3, <1>4, <2>2 DEF Inv, ReadingInv
  <2>3. asked = "size" => reading.full \in BOOLEAN
    BY DEF Inv, ReadingInv
  <2> QED
    BY <1>1, <2>1, <2>2, <2>3 DEF ReadingInv
<1>8. ScalingInv'
  BY <1>1, <1>3 DEF Inv, ScalingInv
<1>9. ParamInv'
  <2>1. Own' = Own
    BY <1>1 DEF Own
  <2> QED
    BY <1>1, <1>3, <2>1 DEF Inv, ParamInv
<1>10. SetInv'
  BY <1>1 DEF Inv, SetInv
<1> QED
  BY <1>5, <1>6, <1>7, <1>8, <1>9, <1>10 DEF Inv

\* Without a parameter no limit has been set.
LEMMA NoneSet ==
  ASSUME Inv, param = Err
  PROVE  set = Err /\ Own = {}
<1>1. set = Err
  BY ParamsOk DEF Inv, SetInv
<1>2. Err.ok = FALSE
  BY DEF Err
<1> QED
  BY <1>1, <1>2 DEF Own

LEMMA StepReadObject ==
  ASSUME Inv, NEW n \in 0..Len(DeviceBytes(object)), ReadObject(n)
  PROVE  Inv'
<1> DEFINE b == SubSeq(DeviceBytes(object), 1, n)
<1>1. /\ object.kind \in {"identity", "fault"} /\ param = Err
      /\ param' = (IF object.kind = "identity" THEN IdentityOf(b) ELSE FaultOf(b))
      /\ UNCHANGED <<object, asked, reading, scaling, set, since, held>>
  BY DEF ReadObject
<1>2. Start(b, DeviceBytes(object))
  BY DEF Start
<1>3. asked = "none" /\ set = Err
  BY <1>1, NoneSet DEF Inv, AskInv
<1>4. ParamInv'
  <2>1. CASE object.kind = "identity"
    <3>1. IdentityType(object)
      BY <2>1, ObjectKind DEF Inv, ObjInv
    <3>2. param' = IdentityOf(b)
      BY <1>1, <2>1
    <3> HIDE DEF b
    <3>3. \/ param' = Err
          \/ /\ param'.ok = TRUE /\ param'.kind = "identity"
             /\ param'.numbers = object.numbers /\ param'.name = object.name
      BY <1>2, <3>1, <3>2, IdentityExact
    <3>4. object' = object
      BY <1>1
    <3> QED
      BY <2>1, <3>3, <3>4 DEF ParamInv
  <2>2. CASE object.kind = "fault"
    <3>1. FaultType(object)
      BY <2>2, ObjectKind DEF Inv, ObjInv
    <3>2. param' = FaultOf(b)
      BY <1>1, <2>2
    <3> HIDE DEF b
    <3>3. \/ param' = Err
          \/ /\ param'.ok = TRUE /\ param'.kind = "fault"
             /\ param'.code = object.code /\ param'.port = object.port
             /\ param'.device = object.device /\ param'.text = object.text
             /\ param'.timer = object.timer /\ param'.valid = object.valid
             /\ param'.realTime = object.realTime
      BY <1>2, <3>1, <3>2, FaultExact
    <3>4. object' = object
      BY <1>1
    <3> QED
      BY <2>2, <3>3, <3>4 DEF ParamInv
  <2> QED
    BY <1>1, <2>1, <2>2
<1>5. ObjInv' /\ AskInv' /\ ReadingInv' /\ ScalingInv'
  <2>1. ObjInv' /\ ScalingInv'
    BY <1>1 DEF Inv, ObjInv, ScalingInv
  <2>2. AskInv' /\ ReadingInv'
    BY <1>1, <1>3 DEF AskInv, ReadingInv, ScalingAttributes
  <2> QED
    BY <2>1, <2>2
<1>6. SetInv'
  BY <1>1, <1>3 DEF SetInv
<1> QED
  BY <1>4, <1>5, <1>6 DEF Inv

LEMMA StepRead ==
  ASSUME Inv, NEW full \in BOOLEAN, Read(full)
  PROVE  Inv'
<1>1. /\ object.kind = "parameter" /\ asked = "none" /\ param = Err
      /\ asked' = "size" /\ reading' = New(0, full) /\ since' = {object.value}
      /\ UNCHANGED <<object, param, scaling, set, held>>
  BY DEF Read
<1>2. ObjInv' /\ AskInv' /\ ReadingInv' /\ ScalingInv'
  <2>1. New(0, full).full \in BOOLEAN
    BY DEF New
  <2>2. ObjInv' /\ ReadingInv'
    BY <1>1, <2>1 DEF Inv, ObjInv, ReadingInv, ScalingAttributes
  <2>3. AskInv' /\ ScalingInv'
    BY <1>1 DEF Inv, AskInv, ScalingInv
  <2> QED
    BY <2>2, <2>3
<1>3. ParamInv' /\ SetInv'
  BY <1>1, NoneSet DEF ParamInv, SetInv
<1> QED
  BY <1>2, <1>3 DEF Inv

LEMMA StepReadSize ==
  ASSUME Inv, ReadSize
  PROVE  Inv'
<1>1. /\ asked = "size" /\ asked' = "all" /\ reading' = New(object.size, reading.full)
      /\ UNCHANGED <<object, param, scaling, set, since, held>>
  BY DEF ReadSize
<1>2. object.kind = "parameter" /\ param = Err /\ object.value \in since /\ reading.full \in BOOLEAN
  BY <1>1 DEF Inv, AskInv, ReadingInv
<1>3. ObjInv' /\ AskInv' /\ ReadingInv' /\ ScalingInv'
  <2>1. \E full \in BOOLEAN : reading' = New(object'.size, full)
    BY <1>1, <1>2
  <2>2. ReadingInv'
    BY <1>1, <2>1 DEF ReadingInv, ScalingAttributes
  <2>3. ObjInv' /\ AskInv' /\ ScalingInv'
    BY <1>1, <1>2 DEF Inv, ObjInv, AskInv, ScalingInv
  <2> QED
    BY <2>2, <2>3
<1>4. ParamInv' /\ SetInv'
  BY <1>1, <1>2, NoneSet DEF ParamInv, SetInv
<1> QED
  BY <1>3, <1>4 DEF Inv

\* The end of a read, with or without a parameter.
LEMMA StepAnswer ==
  ASSUME Inv, asked # "none", NEW p, Answer(p), UNCHANGED <<object, set>>,
         p = Err \/ (p \in Params /\ Same(p, object, since, {}))
  PROVE  Inv'
<1>1. /\ asked' = "none" /\ reading' = Err /\ scaling' = <<>> /\ since' = {}
      /\ object' = object /\ set' = set
      /\ IF p.ok THEN param' = p /\ held' = since ELSE UNCHANGED <<param, held>>
  BY DEF Answer
<1>2. object.kind = "parameter" /\ param = Err
  BY DEF Inv, AskInv
<1>3. set = Err /\ Own = {}
  BY <1>2, NoneSet
<1>4. Own' = {}
  BY <1>1, <1>3 DEF Own
<1>5. ParamInv'
  <2>1. CASE p = Err
    <3>1. p.ok = FALSE
      BY <2>1 DEF Err
    <3>2. param' = Err
      BY <1>1, <1>2, <3>1
    <3> QED
      BY <3>2 DEF ParamInv
  <2>2. CASE p \in Params /\ Same(p, object, since, {})
    <3>1. p.ok = TRUE
      BY <2>2, ParamsOk
    <3>2. param' = p /\ held' = since
      BY <1>1, <3>1
    <3>3. Same(param', object', held', Own')
      BY <1>1, <1>4, <2>2, <3>2, Zenon
    <3> QED
      BY <1>1, <1>2, <2>2, <3>2, <3>3, Zenon DEF ParamInv
  <2> QED
    BY <2>1, <2>2
<1>6. ObjInv' /\ AskInv' /\ ReadingInv' /\ ScalingInv' /\ SetInv'
  <2>1. ObjInv' /\ SetInv'
    BY <1>1, <1>3 DEF Inv, ObjInv, SetInv
  <2>2. AskInv' /\ ReadingInv' /\ ScalingInv'
    BY <1>1 DEF AskInv, ReadingInv, ScalingInv, ScalingAttributes
  <2> QED
    BY <2>1, <2>2
<1> QED
  BY <1>5, <1>6 DEF Inv

LEMMA StepFails ==
  ASSUME Inv, RequestFails
  PROVE  Inv'
<1>1. asked # "none" /\ Answer(Err) /\ UNCHANGED <<object, set>>
  BY DEF RequestFails
<1> QED
  BY <1>1, StepAnswer

LEMMA StepReadAll ==
  ASSUME Inv, NEW n \in 0..Len(DeviceBytes(object)), ReadAll(n)
  PROVE  Inv'
<1> DEFINE b == SubSeq(DeviceBytes(object), 1, n)
           p == Attributes(reading, b)
<1>1. asked = "all" /\ UNCHANGED <<object, set>>
  BY DEF ReadAll
<1>2. object.kind = "parameter" /\ param = Err /\ object.value \in since
  BY <1>1 DEF Inv, AskInv
<1>3. ParameterType(object)
  BY <1>2, ObjectKind DEF Inv, ObjInv
<1>4. object.value \in Nat /\ object.value < Span(object.size) /\ object.scalable \in BOOLEAN
  BY <1>3, ParameterFields
<1>5. PICK full \in BOOLEAN : reading = New(object.size, full)
  BY <1>1 DEF Inv, ReadingInv
<1>6. Start(b, DeviceBytes(object))
  BY DEF Start
<1>7. p = Err \/ p = Copy(object, full, object.value)
  <2> HIDE DEF b
  <2> QED
    BY <1>3, <1>5, <1>6, AttributesExact
<1>8. IF p.ok /\ p.full /\ p.scalable
      THEN asked' = "multiplier" /\ reading' = p /\ UNCHANGED <<param, scaling, since, held>>
      ELSE Answer(p)
  BY DEF ReadAll
<1> HIDE DEF b, p
<1>9. CASE p.ok /\ p.full /\ p.scalable
  <2>1. /\ asked' = "multiplier" /\ reading' = p /\ object' = object /\ set' = set
        /\ UNCHANGED <<param, scaling, since, held>>
    BY <1>1, <1>8, <1>9
  <2>2. p = Copy(object, full, object.value)
    <3>1. Err.ok = FALSE
      BY DEF Err
    <3> QED
      BY <1>7, <1>9, <3>1
  <2>3. full = TRUE /\ object.scalable = TRUE
    BY <1>3, <1>4, <1>9, <2>2, CopyIs
  <2>4. ReadingInv'
    BY <1>2, <1>4, <2>1, <2>2, <2>3 DEF ReadingInv
  <2>5. ObjInv' /\ AskInv' /\ ScalingInv'
    BY <1>1, <1>2, <2>1 DEF Inv, ObjInv, AskInv, ScalingInv, ScalingAttributes
  <2>6. ParamInv' /\ SetInv'
    BY <1>2, <2>1, NoneSet DEF ParamInv, SetInv
  <2> QED
    BY <2>4, <2>5, <2>6 DEF Inv
<1>10. CASE ~(p.ok /\ p.full /\ p.scalable)
  <2>1. Answer(p)
    BY <1>8, <1>10
  <2>2. p = Err \/ (p \in Params /\ Same(p, object, since, {}))
    <3>1. CASE p = Copy(object, full, object.value)
      <4>1. p \in Params /\ p.scalable = object.scalable /\ p.full = full
        BY <1>3, <1>4, <3>1, CopyIs
      <4>2. ~full \/ ~object.scalable
        BY <1>10, <4>1, ParamsOk
      <4>3. Same(p, object, since, {})
        BY <1>2, <1>3, <1>4, <3>1, <4>2, CopySame
      <4> QED
        BY <4>1, <4>3
    <3> QED
      BY <1>7, <3>1
  <2> QED
    BY <1>1, <2>1, <2>2, StepAnswer
<1> QED
  BY <1>9, <1>10

LEMMA AfterReply ==
  ASSUME NEW s, NEW x, Over(x), Upto(s, x), NEW o, o.scaling \in Scales,
         NEW a \in ScalingAttributes, NEW n \in 0..2
  PROVE  Upto(s \o SubSeq(ScalingReply(o, a), 1, n), x \o ScalingReply(o, a))
<1>1. ScalingReply(o, a) \in Seq(Byte) /\ Len(ScalingReply(o, a)) = 2
  BY RepliesAre DEF ScalingAttributes
<1>2. PICK y : y = ScalingReply(o, a)
  OBVIOUS
<1>3. x \in Seq(Byte)
  BY DEF Over
<1>4. Upto(s \o SubSeq(y, 1, n), x \o y)
  BY <1>1, <1>2, <1>3, UptoNext
<1> QED
  BY <1>2, <1>4

LEMMA StepReadScaling ==
  ASSUME Inv, NEW n \in 0..2, ReadScaling(n)
  PROVE  Inv'
<1> DEFINE R(a) == ScalingReply(object, a)
           replies == scaling \o SubSeq(ScalingReply(object, asked), 1, n)
<1>1. asked \in ScalingAttributes /\ UNCHANGED <<object, set>>
  BY DEF ReadScaling, ScalingAttributes
<1>2. object.kind = "parameter" /\ param = Err /\ object.value \in since
  BY <1>1 DEF Inv, AskInv, ScalingAttributes
<1>3. ParameterType(object)
  BY <1>2, ObjectKind DEF Inv, ObjInv
<1>4. object.scaling \in Scales
  BY <1>3, ParameterFields
<1>5. PICK v \in since : v \in Nat /\ v < Span(object.size) /\ reading = Copy(object, TRUE, v)
  BY <1>1 DEF Inv, ReadingInv
<1>6. object.scalable = TRUE
  BY <1>1 DEF Inv, ReadingInv
<1>7. /\ Over(R("multiplier")) /\ Over(R("multiplier") \o R("divisor"))
      /\ Over((R("multiplier") \o R("divisor")) \o R("base"))
  <2>1. R("multiplier") \in Seq(Byte) /\ R("divisor") \in Seq(Byte) /\ R("base") \in Seq(Byte)
    BY <1>4, RepliesAre
  <2> HIDE DEF R
  <2>2. R("multiplier") \o R("divisor") \in Seq(Byte)
    BY <2>1, Closed
  <2>3. (R("multiplier") \o R("divisor")) \o R("base") \in Seq(Byte)
    BY <2>1, <2>2, Closed
  <2> QED
    BY <2>1, <2>2, <2>3 DEF Over
<1>8. asked = "multiplier" => Upto(replies, R("multiplier"))
  <2> SUFFICES ASSUME asked = "multiplier" PROVE Upto(replies, R("multiplier"))
    OBVIOUS
  <2>1. scaling = <<>>
    BY DEF Inv, ScalingInv
  <2>2. Over(<<>>) /\ Upto(<<>>, <<>>)
    BY EmptySeq DEF Over, Upto
  <2>3. Upto(<<>> \o SubSeq(R(asked), 1, n), <<>> \o R(asked))
    BY <1>1, <1>4, <2>2, AfterReply
  <2>4. R(asked) \in Seq(Byte)
    BY <1>7 DEF Over
  <2>5. <<>> \o R(asked) = R(asked)
    BY <2>4, ConcatEmptySeq
  <2> QED
    BY <2>1, <2>3, <2>5
<1>9. asked = "divisor" => Upto(replies, R("multiplier") \o R("divisor"))
  <2> SUFFICES ASSUME asked = "divisor" PROVE Upto(replies, R("multiplier") \o R("divisor"))
    OBVIOUS
  <2>1. Upto(scaling, R("multiplier"))
    BY DEF Inv, ScalingInv
  <2>2. Upto(scaling \o SubSeq(R(asked), 1, n), R("multiplier") \o R(asked))
    BY <1>1, <1>4, <1>7, <2>1, AfterReply
  <2> QED
    BY <2>2
<1>10. asked = "base" => Upto(replies, (R("multiplier") \o R("divisor")) \o R("base"))
  <2> SUFFICES ASSUME asked = "base"
               PROVE  Upto(replies, (R("multiplier") \o R("divisor")) \o R("base"))
    OBVIOUS
  <2>1. Upto(scaling, R("multiplier") \o R("divisor"))
    BY DEF Inv, ScalingInv
  <2>2. Upto(scaling \o SubSeq(R(asked), 1, n), (R("multiplier") \o R("divisor")) \o R(asked))
    BY <1>1, <1>4, <1>7, <2>1, AfterReply
  <2> QED
    BY <2>2
<1>11. asked = "offset" => Upto(replies, Replies(object))
  <2> SUFFICES ASSUME asked = "offset" PROVE Upto(replies, Replies(object))
    OBVIOUS
  <2>1. Upto(scaling, (R("multiplier") \o R("divisor")) \o R("base"))
    BY DEF Inv, ScalingInv
  <2>2. Upto(scaling \o SubSeq(R(asked), 1, n),
             ((R("multiplier") \o R("divisor")) \o R("base")) \o R(asked))
    BY <1>1, <1>4, <1>7, <2>1, AfterReply
  <2> QED
    BY <2>2 DEF Replies
<1>12. IF asked # "offset"
       THEN asked' = NextAttribute[asked] /\ scaling' = replies
            /\ UNCHANGED <<reading, param, since, held>>
       ELSE Answer(WithScaling(reading, replies))
  BY DEF ReadScaling
<1>13. CASE asked # "offset"
  <2>1. /\ scaling' = replies /\ asked' = NextAttribute[asked]
        /\ UNCHANGED <<object, set, reading, param, since, held>>
    BY <1>1, <1>12, <1>13
  <2>2. /\ asked = "multiplier" => asked' = "divisor"
        /\ asked = "divisor" => asked' = "base"
        /\ asked = "base" => asked' = "offset"
    BY <2>1 DEF NextAttribute
  <2> HIDE DEF replies, R
  <2>3. ScalingInv'
    <3>1. R("multiplier")' = R("multiplier") /\ R("divisor")' = R("divisor")
          /\ R("base")' = R("base")
      BY <2>1 DEF R
    <3>2. asked = "multiplier" \/ asked = "divisor" \/ asked = "base"
      BY <1>1, <1>13 DEF ScalingAttributes
    <3>3. CASE asked = "multiplier"
      <4>1. asked' = "divisor" /\ Upto(scaling', ScalingReply(object', "multiplier"))
        BY <1>8, <2>1, <2>2, <3>3 DEF R
      <4> QED
        BY <4>1 DEF ScalingInv
    <3>4. CASE asked = "divisor"
      <4>1. asked' = "base"
            /\ Upto(scaling', ScalingReply(object', "multiplier") \o ScalingReply(object', "divisor"))
        BY <1>9, <2>1, <2>2, <3>4 DEF R
      <4> QED
        BY <4>1 DEF ScalingInv
    <3>5. CASE asked = "base"
      <4>1. asked' = "offset"
            /\ Upto(scaling', (ScalingReply(object', "multiplier") \o ScalingReply(object', "divisor"))
                                \o ScalingReply(object', "base"))
        BY <1>10, <2>1, <2>2, <3>5 DEF R
      <4> QED
        BY <4>1 DEF ScalingInv
    <3> QED
      BY <3>2, <3>3, <3>4, <3>5
  <2>4. asked' \in ScalingAttributes
    BY <1>1, <1>13, <2>2 DEF ScalingAttributes
  <2>5. ObjInv' /\ AskInv'
    BY <1>2, <2>1, <2>4 DEF Inv, ObjInv, AskInv
  <2>6. ReadingInv'
    <3>1. asked' # "size" /\ asked' # "all"
      BY <2>4 DEF ScalingAttributes
    <3> QED
      BY <1>5, <1>6, <2>1, <3>1 DEF ReadingInv
  <2>7. ParamInv' /\ SetInv'
    BY <1>2, <2>1, NoneSet DEF ParamInv, SetInv
  <2> QED
    BY <2>3, <2>5, <2>6, <2>7 DEF Inv
<1>14. CASE asked = "offset"
  <2> DEFINE p == WithScaling(reading, replies)
  <2>1. Answer(p)
    BY <1>12, <1>14
  <2>2. Upto(replies, Replies(object))
    BY <1>11, <1>14
  <2>3. Len(Replies(object)) = 8
    <3>1. PICK c1, c2, c3, c4 : /\ c1 = ScalingReply(object, "multiplier")
                                /\ c2 = ScalingReply(object, "divisor")
                                /\ c3 = ScalingReply(object, "base")
                                /\ c4 = ScalingReply(object, "offset")
      OBVIOUS
    <3>2. /\ Over(c1) /\ Over(c2) /\ Over(c3) /\ Over(c4)
          /\ Len(c1) = 2 /\ Len(c2) = 2 /\ Len(c3) = 2 /\ Len(c4) = 2
      BY <1>4, <3>1, RepliesAre DEF Over
    <3>3. Replies(object) = Then(Then(Then(c1, c2), c3), c4)
      BY <3>1 DEF Replies, Then
    <3> QED
      BY <3>2, <3>3, Four
  <2> HIDE DEF replies
  <2>4. CASE Len(replies) < 8
    <3>1. p = Err
      BY <2>4 DEF WithScaling
    <3> HIDE DEF p
    <3> QED
      BY <1>1, <2>1, <3>1, StepAnswer DEF ScalingAttributes
  <2>5. CASE ~(Len(replies) < 8)
    <3>1. replies = Replies(object)
      <4>1. Len(replies) \in Nat
        BY <2>2, LenProperties DEF Upto
      <4>2. Len(replies) <= Len(Replies(object))
            /\ (Len(replies) = Len(Replies(object)) => replies = Replies(object))
        BY <2>2, Zenon DEF Upto
      <4> HIDE DEF Replies
      <4>3. Len(replies) = Len(Replies(object))
        BY SMTT(60), <2>3, <2>5, <4>1, <4>2
      <4> QED
        BY <4>2, <4>3, Zenon
    <3>2. /\ reading \in Params /\ reading.scaling.precision = object.scaling.precision
      BY ZenonT(60), <1>3, <1>5, <1>6, CopyIs
    <3>3. reading.scaling \in Scales
      BY <3>2 DEF Params
    <3>4. p = [reading EXCEPT !.scaling = object.scaling]
      BY <1>4, <3>1, <3>2, <3>3, ScalingExact
    <3>5. p \in Params /\ Same(p, object, since, {})
      <4>1. p = [Copy(object, TRUE, v) EXCEPT !.scaling = object.scaling]
        BY <1>5, <3>4
      <4> HIDE DEF p
      <4> QED
        BY <1>3, <1>5, <1>6, <4>1, ScaledSame
    <3> HIDE DEF p
    <3> QED
      BY <1>1, <2>1, <3>5, StepAnswer DEF ScalingAttributes
  <2> QED
    BY <2>4, <2>5
<1> QED
  BY <1>13, <1>14

\* Engineering units depend on the scaling alone.
LEMMA SameScaling ==
  ASSUME NEW p, NEW q, q.scalable = p.scalable, q.scaling = p.scaling
  PROVE  \A eng, T : Actuals(q, eng, T) = Actuals(p, eng, T)
<1>1. ScalingOf(q) = ScalingOf(p)
  BY DEF ScalingOf
<1> QED
  BY <1>1, Zenon DEF Actuals

\* The parameter q is p with another value or limit.
Other(p, q, f, x) ==
  /\ q \in Params /\ q[f] = x
  /\ q.size = p.size /\ q.full = p.full /\ q.scalable = p.scalable
  /\ q.readOnly = p.readOnly /\ q.type = p.type /\ q.scaling = p.scaling
  /\ \A g \in (TextFields \cup {"value"}) \ {f} : q[g] = p[g]

LEMMA OtherField ==
  ASSUME NEW p \in Params, NEW f \in {"value", "min", "max", "default"}, NEW x \in Seq(Byte),
         NEW q, q = [p EXCEPT ![f] = x]
  PROVE  Other(p, q, f, x)
<1>1. /\ DOMAIN p = {"ok", "kind", "size", "full", "scalable", "readOnly", "type", "name",
                     "units", "help", "value", "min", "max", "default", "scaling"}
      /\ f \in DOMAIN p
  BY DEF Params
<1>2. q[f] = x /\ \A g \in DOMAIN p \ {f} : q[g] = p[g]
  BY <1>1
<1>3. q \in Params
  <2>1. CASE f = "value"
    BY <2>1 DEF Params
  <2>2. CASE f = "min"
    BY <2>2 DEF Params
  <2>3. CASE f = "max"
    BY <2>3 DEF Params
  <2>4. CASE f = "default"
    BY <2>4 DEF Params
  <2> QED
    BY <2>1, <2>2, <2>3, <2>4
<1>4. f # "size" /\ f # "full" /\ f # "scalable" /\ f # "readOnly" /\ f # "type" /\ f # "scaling"
  OBVIOUS
<1> QED
  BY <1>1, <1>2, <1>3, <1>4 DEF TextFields, Other

\* The first n bytes of a value, as an update takes them.
LEMMA ValueIs ==
  ASSUME NEW o, ParameterType(o), NEW n \in 0..4, n <= o.size,
         NEW x, x = SubSeq(Bytes(o.value, o.size), 1, n)
  PROVE  /\ x \in Seq(Byte)
         /\ Len(x) # o.size \/ Unsigned(x) = o.value
<1>1. o.size \in Size /\ o.size \in Nat /\ o.value \in Int /\ o.value \in Nat /\ o.value < Span(o.size)
  BY ParameterFields DEF Size
<1>2. PICK y : y = Bytes(o.value, o.size)
  OBVIOUS
<1>3. y \in Seq(Byte) /\ Len(y) = o.size /\ Unsigned(y) = o.value
  BY <1>1, <1>2, BytesAre
<1>4. \A i \in 1..n : y[i] \in Byte
  BY <1>1, <1>3, ElementOfSeq
<1>5. /\ x \in Seq(Byte) /\ Len(x) = IF 1 <= n THEN n - 1 + 1 ELSE 0
      /\ \A i \in 1..(n - 1 + 1) : x[i] = y[1 + i - 1]
  BY <1>2, <1>4, SubSeqProperties
<1>6. Len(x) = n /\ \A i \in 1..n : x[i] = y[i]
  <2>1. n - 1 + 1 = n /\ \A i \in 1..n : 1 + i - 1 = i
    OBVIOUS
  <2> QED
    BY <1>5, <2>1
<1>7. Len(x) = o.size => x = y
  BY <1>3, <1>5, <1>6, SeqEqual
<1> QED
  BY <1>3, <1>5, <1>7

LEMMA StepUpdate ==
  ASSUME Inv, NEW n \in 0..4, UpdateValue(n)
  PROVE  Inv'
<1> DEFINE x == SubSeq(Bytes(object.value, object.size), 1, n)
<1>1. /\ asked = "none" /\ param.ok /\ object.kind = "parameter" /\ n <= object.size
      /\ param' = [param EXCEPT !["value"] = x] /\ held' = {object.value}
      /\ UNCHANGED <<object, asked, reading, scaling, set, since>>
  BY DEF UpdateValue
<1>2. ParameterType(object)
  BY <1>1, ObjectKind DEF Inv, ObjInv
<1>3. param # Err
  BY <1>1 DEF Err
<1>4. param \in Params /\ Same(param, object, held, Own)
  BY <1>1, <1>3 DEF Inv, ParamInv
<1>5. x \in Seq(Byte) /\ (Len(x) # object.size \/ Unsigned(x) = object.value)
  BY <1>1, <1>2, ValueIs
<1> HIDE DEF x
<1>6. /\ param' \in Params /\ param'.value = x
      /\ param'.size = param.size /\ param'.full = param.full
      /\ param'.scalable = param.scalable /\ param'.readOnly = param.readOnly
      /\ param'.type = param.type /\ param'.scaling = param.scaling
      /\ \A g \in (TextFields \cup {"value"}) \ {"value"} : param'[g] = param[g]
  <2>1. Other(param, param', "value", x)
    BY <1>1, <1>4, <1>5, OtherField
  <2> QED
    BY <2>1 DEF Other
<1>7. \A g \in TextFields : param'[g] = param[g]
  BY <1>6 DEF TextFields
<1>8. ParamInv'
  <2>1. Own' = Own
    BY <1>1 DEF Own
  <2>2. Same(param', object, held', Own)
    <3>1. /\ param'.size = object.size /\ param'.scalable = object.scalable
          /\ param'.readOnly = object.readOnly /\ param'.type = object.type
          /\ param'.scaling = IF ~object.scalable \/ ~param'.full THEN NoScaling
                              ELSE object.scaling
      BY <1>4, <1>6 DEF Same
    <3>2. \A f \in TextFields \ Own :
             param'[f] = IF param'.full THEN object[f] ELSE New(object.size, FALSE)[f]
      BY <1>4, <1>6, <1>7, Zenon DEF Same
    <3>3. Len(param'.value) # object.size \/ Unsigned(param'.value) \in held'
      BY <1>1, <1>5, <1>6
    <3> QED
      BY <3>1, <3>2, <3>3 DEF Same
  <2> QED
    BY <1>1, <1>6, <2>1, <2>2 DEF ParamInv
<1>9. SetInv'
  <2>1. \A eng, T : Actuals(param', eng, T) = Actuals(param, eng, T)
    BY <1>6, SameScaling
  <2>2. \A f \in {"min", "max", "default"} : param'[f] = param[f]
    BY <1>7 DEF TextFields
  <2>3. set' = set
    BY <1>1
  <2> QED
    BY <1>6, <2>1, <2>2, <2>3 DEF Inv, SetInv
<1>10. ObjInv' /\ AskInv' /\ ReadingInv' /\ ScalingInv'
  BY <1>1 DEF Inv, ObjInv, AskInv, ReadingInv, ScalingInv, ScalingAttributes
<1> QED
  BY <1>8, <1>9, <1>10 DEF Inv

LEMMA StepOffline ==
  ASSUME Inv, NEW scales \in BOOLEAN, NEW s \in Scalings, Offline(scales, s)
  PROVE  Inv'
<1>1. /\ object.kind = "none" /\ param = Err
      /\ param' = [New(1, TRUE) EXCEPT !.scalable = scales, !.scaling = s]
      /\ UNCHANGED <<object, asked, reading, scaling, set, since, held>>
  BY DEF Offline
<1>2. s \in Scales
  BY ParameterAssumption
<1>3. param' \in Params
  <2>1. New(1, TRUE) \in Params
    <3>1. Zeros(1) \in Seq(Byte) /\ <<>> \in Seq(Byte) /\ 0 \in Byte
      <4>1. 1 \in Nat /\ 0 \in Nat /\ 0 <= 255
        OBVIOUS
      <4>2. Zeros(1) \in Seq(Byte) /\ 0 \in Byte
        BY <4>1, Pieces, SmallIsByte
      <4> QED
        BY <4>2, EmptySeq
    <3> QED
      BY <3>1, NoScalingIs DEF New, Params
  <2> HIDE DEF New
  <2> QED
    BY <1>1, <1>2, <2>1 DEF Params
<1>4. asked = "none" /\ set = Err
  BY <1>1, NoneSet DEF Inv, AskInv
<1>5. ParamInv' /\ SetInv'
  BY <1>1, <1>3, <1>4 DEF ParamInv, SetInv
<1>6. ObjInv' /\ AskInv' /\ ReadingInv' /\ ScalingInv'
  BY <1>1, <1>4 DEF Inv, ObjInv, AskInv, ReadingInv, ScalingInv, ScalingAttributes
<1> QED
  BY <1>5, <1>6 DEF Inv

LEMMA StepSetEng ==
  ASSUME Inv, NEW which \in {"min", "max", "default"}, NEW eng \in Settings, NEW T \in Types,
         SetEng(which, eng, T)
  PROVE  Inv'
<1>1. PICK v \in Actuals(param, eng, T) : param' = [param EXCEPT ![which] = Bytes(v, T.size)]
  BY DEF SetEng
<1>2. /\ asked = "none" /\ param.ok /\ param.kind = "parameter" /\ set = Err
      /\ set' = [ok |-> TRUE, which |-> which, eng |-> eng, T |-> T]
      /\ UNCHANGED <<object, asked, reading, scaling, since, held>>
  BY DEF SetEng
<1>3. eng \in Int /\ T \in IntegerType
  BY ParameterAssumption DEF IntegerType, Size
<1>4. param # Err
  BY <1>2 DEF Err
<1>5. /\ param \in Params /\ object.kind \in {"parameter", "none"}
      /\ object.kind = "parameter" => Same(param, object, held, Own)
  BY <1>2, <1>4 DEF Inv, ParamInv
<1>6. v \in Int /\ T.size \in Size
  <2>1. param.scaling \in Scales
    BY <1>5 DEF Params
  <2>2. v \in MinOf(T)..MaxOf(T)
    BY <1>3, <2>1, ActualsNearest
  <2>3. MinOf(T) \in Int /\ MaxOf(T) \in Int
    BY <1>3, RangeOf DEF IntegerType
  <2> QED
    BY <1>3, <2>2, <2>3 DEF IntegerType
<1>7. PICK x : x = Bytes(v, T.size)
  OBVIOUS
<1>8. x \in Seq(Byte)
  BY <1>6, <1>7, BytesAre
<1>9. /\ param' \in Params /\ param'[which] = x
      /\ param'.size = param.size /\ param'.full = param.full
      /\ param'.scalable = param.scalable /\ param'.readOnly = param.readOnly
      /\ param'.type = param.type /\ param'.scaling = param.scaling
      /\ \A g \in (TextFields \cup {"value"}) \ {which} : param'[g] = param[g]
  <2>1. param' = [param EXCEPT ![which] = x]
    BY <1>1, <1>7
  <2>2. which \in {"value", "min", "max", "default"}
    OBVIOUS
  <2>3. Other(param, param', which, x)
    BY <1>5, <1>8, <2>1, <2>2, OtherField
  <2> QED
    BY <2>3 DEF Other
<1>10. Own = {} /\ Own' = {which}
  <2>1. Err.ok = FALSE
    BY DEF Err
  <2>2. set'.ok = TRUE /\ set'.which = which
    BY <1>2
  <2> QED
    BY <1>2, <2>1, <2>2 DEF Own
<1>11. ParamInv'
  <2>1. ASSUME object.kind = "parameter" PROVE Same(param', object, held, {which})
    <3>1. param'.value = param.value
      BY <1>9
    <3>2. \A g \in TextFields \ {which} : param'[g] = param[g]
      BY <1>9
    <3>3. Same(param, object, held, {})
      BY <1>5, <1>10, <2>1
    <3> QED
      BY <1>9, <3>1, <3>2, <3>3 DEF Same
  <2> QED
    BY <1>2, <1>5, <1>9, <1>10, <2>1 DEF ParamInv
<1>12. SetInv'
  <2>1. v \in Actuals(param', eng, T)
    BY <1>9, SameScaling
  <2>2. set'.ok = TRUE /\ set'.which = which /\ set'.eng = eng /\ set'.T = T
    BY <1>2
  <2>3. param'[set'.which] = Bytes(v, set'.T.size)
    BY <1>7, <1>9, <2>2
  <2> QED
    BY <1>3, <1>9, <2>1, <2>2, <2>3 DEF SetInv
<1>13. ObjInv' /\ AskInv' /\ ReadingInv' /\ ScalingInv'
  BY <1>2 DEF Inv, ObjInv, AskInv, ReadingInv, ScalingInv, ScalingAttributes
<1> QED
  BY <1>11, <1>12, <1>13 DEF Inv

-----------------------------------------------------------------------------
(* The theorems *)

LEMMA InitInv == ParamInit => Inv
<1> SUFFICES ASSUME ParamInit PROVE Inv
  OBVIOUS
<1>1. /\ object \in Objects /\ param = Err /\ asked = "none" /\ scaling = <<>> /\ set = Err
  BY DEF ParamInit
<1>2. ObjInv
  BY <1>1, ParameterAssumption DEF ObjInv
<1> QED
  BY <1>1, <1>2 DEF Inv, AskInv, ReadingInv, ScalingInv, ParamInv, SetInv, ScalingAttributes

LEMMA StepInv == Inv /\ [ParamNext]_paramVars => Inv'
<1> SUFFICES ASSUME Inv, [ParamNext]_paramVars PROVE Inv'
  OBVIOUS
<1>1. CASE UNCHANGED paramVars
  <2>1. /\ object' = object /\ param' = param /\ asked' = asked /\ reading' = reading
        /\ scaling' = scaling /\ set' = set /\ since' = since /\ held' = held
    BY <1>1 DEF paramVars
  <2>2. ObjInv' /\ AskInv' /\ ReadingInv'
    BY <2>1 DEF Inv, ObjInv, AskInv, ReadingInv
  <2>3. ScalingInv'
    BY <2>1, Zenon DEF Inv, ScalingInv
  <2>4. ParamInv'
    <3>1. Own' = Own
      BY <2>1 DEF Own
    <3> QED
      BY <2>1, <3>1, Zenon DEF Inv, ParamInv
  <2>5. SetInv'
    BY <2>1, Zenon DEF Inv, SetInv
  <2> QED
    BY <2>2, <2>3, <2>4, <2>5 DEF Inv
<1>2. CASE \E v \in Values : DeviceChanges(v)
  BY <1>2, StepDevice
<1>3. CASE \E n \in 0..Len(DeviceBytes(object)) : ReadObject(n)
  BY <1>3, StepReadObject
<1>4. CASE \E full \in BOOLEAN : Read(full)
  BY <1>4, StepRead
<1>5. CASE ReadSize
  BY <1>5, StepReadSize
<1>6. CASE \E n \in 0..Len(DeviceBytes(object)) : ReadAll(n)
  BY <1>6, StepReadAll
<1>7. CASE \E n \in 0..2 : ReadScaling(n)
  BY <1>7, StepReadScaling
<1>8. CASE RequestFails
  BY <1>8, StepFails
<1>9. CASE \E n \in 0..4 : UpdateValue(n)
  BY <1>9, StepUpdate
<1>10. CASE \E scales \in BOOLEAN, s \in Scalings : Offline(scales, s)
  BY <1>10, StepOffline
<1>11. CASE \E which \in {"min", "max", "default"}, eng \in Settings, T \in Types :
              SetEng(which, eng, T)
  BY <1>11, StepSetEng
<1> QED
  BY <1>1, <1>2, <1>3, <1>4, <1>5, <1>6, <1>7, <1>8, <1>9, <1>10, <1>11 DEF ParamNext

\* A step of the drive is one on its objects or leaves them alone.
LEMMA ObjectSteps == [Next]_vars => [ParamNext]_paramVars
BY DEF Next, vars, Discover

LEMMA ExactMeans == Inv => ObjectExactOrError
<1> SUFFICES ASSUME Inv, param.ok PROVE ObjectExactOrError
  BY DEF ObjectExactOrError
<1>1. param # Err
  BY DEF Err
<1>2. CASE object.kind = "identity"
  <2>1. /\ param.kind = "identity" /\ param.numbers = object.numbers
        /\ param.name = object.name
    BY <1>1, <1>2 DEF Inv, ParamInv
  <2>2. DOMAIN object = {"kind", "numbers", "name"}
    BY <1>2, ObjectKind DEF Inv, ObjInv, IdentityType
  <2>3. \A f \in DOMAIN object : param[f] = object[f]
    BY <1>2, <2>1, <2>2
  <2> QED
    BY <1>2, <2>3 DEF ObjectExactOrError
<1>3. CASE object.kind = "fault"
  <2>1. /\ param.kind = "fault" /\ param.code = object.code /\ param.port = object.port
        /\ param.device = object.device /\ param.text = object.text
        /\ param.timer = object.timer /\ param.valid = object.valid
        /\ param.realTime = object.realTime
    BY <1>1, <1>3 DEF Inv, ParamInv
  <2>2. DOMAIN object = {"kind", "code", "port", "device", "text", "timer", "valid", "realTime"}
    BY <1>3, ObjectKind DEF Inv, ObjInv, FaultType
  <2>3. \A f \in DOMAIN object : param[f] = object[f]
    BY <1>3, <2>1, <2>2
  <2> QED
    BY <1>3, <2>3 DEF ObjectExactOrError
<1>4. CASE object.kind = "parameter"
  <2> DEFINE unscaled == ~object.scalable \/ ~param.full
             expected == [size |-> object.size, scalable |-> object.scalable,
                          readOnly |-> object.readOnly, type |-> object.type,
                          scaling |-> IF unscaled THEN NoScaling ELSE object.scaling]
  <2>1. Same(param, object, held, Own)
    BY <1>1, <1>4 DEF Inv, ParamInv
  <2>2. \A f \in DOMAIN expected : param[f] = expected[f]
    <3>1. /\ param.size = expected.size /\ param.scalable = expected.scalable
          /\ param.readOnly = expected.readOnly /\ param.type = expected.type
          /\ param.scaling = expected.scaling
      BY <2>1 DEF Same
    <3>2. DOMAIN expected = {"size", "scalable", "readOnly", "type", "scaling"}
      OBVIOUS
    <3> HIDE DEF expected
    <3> QED
      BY <3>1, <3>2
  <2>3. \A f \in {"name", "units", "help", "min", "max", "default"}
                   \ (IF set.ok THEN {set.which} ELSE {}) :
          param[f] = IF param.full THEN object[f] ELSE New(object.size, FALSE)[f]
    BY <2>1, Zenon DEF Same, TextFields, Own
  <2>4. Len(param.value) # object.size \/ Unsigned(param.value) \in held
    BY <2>1, Zenon DEF Same
  <2> QED
    BY <1>4, <2>2, <2>3, <2>4, Zenon DEF ObjectExactOrError
<1>5. CASE object.kind = "none"
  BY <1>5 DEF ObjectExactOrError
<1>6. object.kind \in {"identity", "fault", "parameter", "none"}
  BY DEF Inv, ObjInv, ObjectType, IdentityType, FaultType, ParameterType
<1> QED
  BY <1>2, <1>3, <1>4, <1>5, <1>6

LEMMA NearestMeans == Inv => EngNearest
<1> SUFFICES ASSUME Inv, set.ok PROVE EngNearest
  BY DEF EngNearest
<1> DEFINE eng == set.eng
           T   == set.T
           s   == ScalingOf(param)
           stored == Decode(param[set.which], T)
           miss(v) == Abs(100 * ActualToEng(param, v) - eng * Unit(param))
<1>1. set # Err
  BY DEF Err
<1>2. /\ eng \in Int /\ T \in IntegerType /\ param \in Params
      /\ \E v \in Actuals(param, eng, T) : param[set.which] = Bytes(v, T.size)
  BY <1>1 DEF Inv, SetInv
<1>3. PICK v \in Actuals(param, eng, T) : param[set.which] = Bytes(v, T.size)
  BY <1>2
<1>4. param.scaling \in Scales
  BY <1>2 DEF Params
<1>5. /\ v \in MinOf(T)..MaxOf(T)
      /\ s.multiplier * s.base # 0 =>
           \A w \in {v - 1, v + 1} \cap MinOf(T)..MaxOf(T) : miss(v) <= miss(w)
  <2> HIDE DEF eng, T
  <2> QED
    BY <1>2, <1>3, <1>4, ActualsNearest
<1>6. stored.ok = TRUE /\ stored.v = v
  <2>1. Decode(Bytes(v, T.size), T) = [ok |-> TRUE, v |-> v]
    BY <1>2, <1>5, DecodeBack DEF IntegerType
  <2> QED
    BY <1>3, <2>1
<1>7. s.multiplier * s.base # 0 =>
        \A w \in {stored.v - 1, stored.v + 1} \cap MinOf(T)..MaxOf(T) : miss(stored.v) <= miss(w)
  <2> HIDE DEF miss, s, stored, T, eng
  <2> QED
    BY <1>5, <1>6
<1> QED
  BY <1>6, <1>7, Zenon DEF EngNearest

\* However the replies are cut short and whatever the device changes between
\* them, reading a parameter, identity or fault object gives an error or what
\* the device has.
THEOREM ReadExactly == Spec => []ObjectExactOrError
<1>1. Init => Inv
  BY InitInv DEF Init
<1>2. Inv /\ [Next]_vars => Inv'
  BY StepInv, ObjectSteps
<1>3. Inv => ObjectExactOrError
  BY ExactMeans
<1> QED
  BY <1>1, <1>2, <1>3, PTL DEF Spec

\* A limit set in engineering units is stored as the value of its type that is
\* nearest to it, for any scaling and any limit.
THEOREM NearestStored == Spec => []EngNearest
<1>1. Init => Inv
  BY InitInv DEF Init
<1>2. Inv /\ [Next]_vars => Inv'
  BY StepInv, ObjectSteps
<1>3. Inv => EngNearest
  BY NearestMeans
<1> QED
  BY <1>1, <1>2, <1>3, PTL DEF Spec

-----------------------------------------------------------------------------
(***************************************************************************)
(* handle_fault_parameters on a drive that goes on faulting, for any       *)
(* number of new faults and of calls.  A new fault moves the others to     *)
(* higher numbers, never to lower ones: a fault that was in the queue when *)
(* the call began and now has a number already passed has been reported    *)
(* (Passed).                                                               *)
(***************************************************************************)

USE FaultAssumption DEF MAX_FAULT_NUMBER

-----------------------------------------------------------------------------
(* Sequences and parameters *)

\* The length of a queue of at most ten after one more.
LEMMA Room ==
  ASSUME NEW l \in Nat, l <= 10
  PROVE  \E n \in 1..10 : n <= l + 1 /\ n = Min({10, l + 1})
<1>1. Min({10, l + 1}) = IF 10 <= l + 1 THEN 10 ELSE l + 1
  BY Smaller
<1>2. CASE 10 <= l + 1
  BY <1>1, <1>2
<1>3. CASE ~(10 <= l + 1)
  <2>1. l + 1 \in 1..10 /\ Min({10, l + 1}) = l + 1
    BY <1>1, <1>3
  <2> QED
    BY <2>1
<1> QED
  BY <1>2, <1>3

\* The first elements of a sequence.
LEMMA Beginning ==
  ASSUME NEW S, NEW s \in Seq(S), NEW n \in Nat, n <= Len(s)
  PROVE  /\ SubSeq(s, 1, n) \in Seq(S) /\ Len(SubSeq(s, 1, n)) = n
         /\ \A i \in 1..n : SubSeq(s, 1, n)[i] = s[i]
OBVIOUS

\* The queue after a fault: the new one first, the others moved up by one,
\* the last one dropped if there is no room.
LEMMA Pushed ==
  ASSUME NEW S, NEW s \in Seq(S), NEW f \in S,
         NEW n \in 1..10, n <= Len(s) + 1
  PROVE  /\ SubSeq(<<f>> \o s, 1, n) \in Seq(S) /\ Len(SubSeq(<<f>> \o s, 1, n)) = n
         /\ SubSeq(<<f>> \o s, 1, n)[1] = f
         /\ \A i \in 1..n : i # 1 => /\ i - 1 \in 1..Len(s)
                                  /\ SubSeq(<<f>> \o s, 1, n)[i] = s[i - 1]
<1> DEFINE r == <<f>> \o s
<1>2. /\ r \in Seq(S) /\ Len(r) = Len(s) + 1 /\ r[1] = f
      /\ \A i \in 2..Len(r) : r[i] = s[i - 1]
  OBVIOUS
<1> HIDE DEF r
<1>3. n <= Len(r) /\ Len(r) \in Nat /\ n \in Nat
  BY <1>2
<1> DEFINE q == SubSeq(r, 1, n)
<1>4. q \in Seq(S) /\ Len(q) = n /\ \A i \in 1..n : q[i] = r[i]
  BY <1>2, <1>3, Beginning
<1> HIDE DEF q
<1>5. \A i \in 1..n : i # 1 => i \in 2..Len(r) /\ i - 1 \in 1..Len(s)
  BY <1>2, <1>3
<1>6. \A i \in 1..n : i # 1 => q[i] = s[i - 1]
  BY <1>2, <1>4, <1>5
<1>7. q[1] = f
  BY <1>2, <1>4
<1> QED
  BY <1>4, <1>5, <1>6, <1>7, Zenon DEF q, r

\* The drive's answers by the range of the parameter.
LEMMA CodeLow ==
  ASSUME NEW x \in Nat, NEW k, k = x - 6, x \in 7..9
  PROVE  ParameterValue(x) = IF k \in DOMAIN queue THEN queue[k] ELSE 0
BY DEF ParameterValue

LEMMA CodeHigh ==
  ASSUME NEW x \in Nat, NEW k, k = x - 600, x \in 604..610
  PROVE  ParameterValue(x) = IF k \in DOMAIN queue THEN queue[k] ELSE 0
BY DEF ParameterValue

LEMMA FrequencyParam ==
  ASSUME NEW x \in Nat, NEW k, k = x - 630, x \in 631..640
  PROVE  /\ ~(k \in DOMAIN queue) => ParameterValue(x) = 0
         /\ k \in DOMAIN queue /\ queue[k] = 0 => ParameterValue(x) = 0
         /\ k \in DOMAIN queue /\ queue[k] # 0 =>
              ParameterValue(x) = Recorded(queue[k])["frequency"]
BY DEF ParameterValue

LEMMA CurrentParam ==
  ASSUME NEW x \in Nat, NEW k, k = x - 640, x \in 641..650
  PROVE  /\ ~(k \in DOMAIN queue) => ParameterValue(x) = 0
         /\ k \in DOMAIN queue /\ queue[k] = 0 => ParameterValue(x) = 0
         /\ k \in DOMAIN queue /\ queue[k] # 0 =>
              ParameterValue(x) = Recorded(queue[k])["current"]
BY DEF ParameterValue

LEMMA VoltsParam ==
  ASSUME NEW x \in Nat, NEW k, k = x - 650, x \in 651..660
  PROVE  /\ ~(k \in DOMAIN queue) => ParameterValue(x) = 0
         /\ k \in DOMAIN queue /\ queue[k] = 0 => ParameterValue(x) = 0
         /\ k \in DOMAIN queue /\ queue[k] # 0 =>
              ParameterValue(x) = Recorded(queue[k])["volts"]
BY DEF ParameterValue

\* The code asked for at a number is that of the fault with this number, 0
\* past the end of the queue.
LEMMA CodeAt ==
  ASSUME NEW k \in 1..10, queue \in Seq(Nat \ {0})
  PROVE  ParameterValue(CODE_PARAMS[k]) = IF k \in 1..Len(queue) THEN queue[k] ELSE 0
<1>1. DOMAIN queue = 1..Len(queue)
  OBVIOUS
<1>2. CASE k \in 1..3
  <2> DEFINE x == k + 6
  <2>1. CODE_PARAMS[k] = x
    BY <1>2 DEF CODE_PARAMS
  <2>2. x \in Nat /\ x \in 7..9 /\ k = x - 6
    BY <1>2
  <2> HIDE DEF x
  <2>3. ParameterValue(x) = IF k \in DOMAIN queue THEN queue[k] ELSE 0
    BY <2>2, CodeLow
  <2> QED
    BY <1>1, <2>1, <2>3
<1>3. CASE k \in 4..10
  <2> DEFINE x == k + 600
  <2>1. CODE_PARAMS[k] = x
    BY <1>3 DEF CODE_PARAMS
  <2>2. x \in Nat /\ x \in 604..610 /\ k = x - 600
    BY <1>3
  <2> HIDE DEF x
  <2>3. ParameterValue(x) = IF k \in DOMAIN queue THEN queue[k] ELSE 0
    BY <2>2, CodeHigh
  <2> QED
    BY <1>1, <2>1, <2>3
<1> QED
  BY <1>2, <1>3

\* A detail asked for at a number is what the drive recorded with the fault
\* that has this number.
LEMMA DetailAt ==
  ASSUME NEW d \in DOMAIN DetailParams, NEW k \in 1..10, queue \in Seq(Nat \ {0})
  PROVE  /\ ParameterValue(DetailParams[d][k]) \in Nat
         /\ k \in 1..Len(queue) => ParameterValue(DetailParams[d][k]) = Recorded(queue[k])[d]
<1>1. DOMAIN queue = 1..Len(queue) /\ \A i \in 1..Len(queue) : queue[i] \in Nat \ {0}
  OBVIOUS
<1>2. \A f \in Nat : /\ Recorded(f)["volts"] \in Nat /\ Recorded(f)["current"] \in Nat
                     /\ Recorded(f)["frequency"] \in Nat
  BY DEF Recorded
<1>3. d = "volts" \/ d = "current" \/ d = "frequency"
  BY DEF DetailParams
<1>4. CASE d = "volts"
  <2> DEFINE x == 650 + k
  <2>1. DetailParams["volts"][k] = x
    BY DEF DetailParams, BUS_VOLTS_PARAMS
  <2>2. x \in Nat /\ x \in 651..660 /\ k = x - 650
    OBVIOUS
  <2> HIDE DEF x
  <2>3. /\ ~(k \in 1..Len(queue)) => ParameterValue(x) = 0
        /\ k \in 1..Len(queue) => ParameterValue(x) = Recorded(queue[k])["volts"]
    BY <1>1, <2>2, VoltsParam
  <2>4. ParameterValue(x) \in Nat
    BY <1>1, <1>2, <2>3
  <2> QED
    BY <1>4, <2>1, <2>3, <2>4
<1>5. CASE d = "current"
  <2> DEFINE x == 640 + k
  <2>1. DetailParams["current"][k] = x
    BY DEF DetailParams, CURRENT_PARAMS
  <2>2. x \in Nat /\ x \in 641..650 /\ k = x - 640
    OBVIOUS
  <2> HIDE DEF x
  <2>3. /\ ~(k \in 1..Len(queue)) => ParameterValue(x) = 0
        /\ k \in 1..Len(queue) => ParameterValue(x) = Recorded(queue[k])["current"]
    BY <1>1, <2>2, CurrentParam
  <2>4. ParameterValue(x) \in Nat
    BY <1>1, <1>2, <2>3
  <2> QED
    BY <1>5, <2>1, <2>3, <2>4
<1>6. CASE d = "frequency"
  <2> DEFINE x == 630 + k
  <2>1. DetailParams["frequency"][k] = x
    BY DEF DetailParams, FREQUENCY_PARAMS
  <2>2. x \in Nat /\ x \in 631..640 /\ k = x - 630
    OBVIOUS
  <2> HIDE DEF x
  <2>3. /\ ~(k \in 1..Len(queue)) => ParameterValue(x) = 0
        /\ k \in 1..Len(queue) => ParameterValue(x) = Recorded(queue[k])["frequency"]
    BY <1>1, <2>2, FrequencyParam
  <2>4. ParameterValue(x) \in Nat
    BY <1>1, <1>2, <2>3
  <2> QED
    BY <1>6, <2>1, <2>3, <2>4
<1> QED
  BY <1>3, <1>4, <1>5, <1>6

-----------------------------------------------------------------------------
(* Types *)

Detailed == [number: 1..10, code: Nat \ {0}, torn: BOOLEAN,
             volts: Nat, current: Nat, frequency: Nat]
Details == {"volts", "current", "frequency"}
Reading == {"code"} \cup Details

\* Every variable stays in its domain; the entry being read is the one after
\* those reported.
Typed ==
  /\ newest \in Nat
  /\ queue \in Seq(Nat \ {0}) /\ Len(queue) <= 10
  /\ \A i \in 1..Len(queue) : queue[i] <= newest
  /\ before \in Seq(Nat \ {0})
  /\ step \in Reading \cup {"idle", "clear"}
  /\ faults \in Seq(Detailed)
  /\ result \in {"none", "ok", "failed"}
  /\ step = "code" => entry \in [number: 1..10]
  /\ step \in Details => entry \in Detailed
  /\ step \in Reading => Len(faults) + 1 = entry.number
  /\ step # "idle" => result = "none" /\ cleared = {}

\* How a call ends or goes on to the clearing.
Ends ==
  /\ UNCHANGED <<entry, faults>>
  /\ \/ step' = "clear" /\ options.clear /\ faults # <<>> /\ result' = result
     \/ step' = "idle" /\ result' = "ok" /\ (faults = <<>> \/ ~options.clear)

\* What reading a code leads to.
LEMMA CodeOutcome ==
  ASSUME Typed, ReadCode
  PROVE  /\ UNCHANGED <<driveVars, options, calls, before, during, cleared>>
         /\ entry.number \in 1..10
         /\ \/ entry.number \notin 1..Len(queue) /\ Ends
            \/ /\ entry.number \in 1..Len(queue)
               /\ \E e \in Detailed :
                    /\ e.number = entry.number /\ e.code = queue[entry.number] /\ ~e.torn
                    /\ \/ options.details /\ entry' = e /\ step' = "volts"
                          /\ UNCHANGED <<faults, result>>
                       \/ ~options.details /\ Report(e)
<1> DEFINE k == entry.number
<1> DEFINE code == ParameterValue(CODE_PARAMS[k])
<1> DEFINE e == [number |-> k, code |-> code, torn |-> FALSE,
                 volts |-> 0, current |-> 0, frequency |-> 0]
<1>1. k \in 1..10 /\ queue \in Seq(Nat \ {0})
  BY DEF ReadCode, Typed
<1>2. code = IF k \in 1..Len(queue) THEN queue[k] ELSE 0
  BY <1>1, CodeAt
<1>3. UNCHANGED <<driveVars, options, calls, before, during, cleared>>
  BY DEF ReadCode
<1>4. /\ code = 0 => /\ UNCHANGED <<entry, faults>>
                     /\ \/ /\ faults # <<>> /\ options.clear
                           /\ step' = "clear" /\ result' = result
                        \/ ~(faults # <<>> /\ options.clear) /\ Return("ok")
      /\ code # 0 => \/ /\ options.details
                        /\ entry' = e /\ step' = "volts" /\ UNCHANGED <<faults, result>>
                     \/ ~options.details /\ Report(e)
  BY Zenon DEF ReadCode
<1> HIDE DEF code
<1>5. CASE k \in 1..Len(queue)
  <2>1. code = queue[k] /\ code \in Nat \ {0}
    BY <1>1, <1>2, <1>5
  <2>2. e \in Detailed /\ e.number = k /\ e.code = queue[k] /\ ~e.torn
    BY <1>1, <2>1 DEF Detailed
  <2> HIDE DEF e
  <2>3. \/ options.details /\ entry' = e /\ step' = "volts" /\ UNCHANGED <<faults, result>>
        \/ ~options.details /\ Report(e)
    BY <1>4, <2>1
  <2> QED
    BY <1>1, <1>3, <1>5, <2>2, <2>3
<1>6. CASE k \notin 1..Len(queue)
  <2>1. code = 0
    BY <1>2, <1>6
  <2>2. Ends
    BY <1>4, <2>1 DEF Ends, Return
  <2> QED
    BY <1>1, <1>3, <1>6, <2>2
<1> QED
  BY <1>5, <1>6

\* What reading a detail leads to: the value recorded with the fault that has
\* the number now is stored.
LEMMA DetailOutcome ==
  ASSUME Typed, ReadDetail
  PROVE  /\ UNCHANGED <<driveVars, options, calls, before, during, cleared>>
         /\ step \in Details /\ entry \in Detailed
         /\ \E e \in Detailed, v \in Nat :
              /\ entry.number \in 1..Len(queue) => v = Recorded(queue[entry.number])[step]
              /\ e = [entry EXCEPT ![step] = v]
              /\ \/ /\ step # "frequency"
                    /\ step' = (IF step = "volts" THEN "current" ELSE "frequency")
                    /\ entry' = e /\ UNCHANGED <<faults, result>>
                 \/ step = "frequency" /\ Report(e)
<1> DEFINE v == ParameterValue(DetailParams[step][entry.number])
<1> DEFINE e == [entry EXCEPT ![step] = v]
<1>1. DOMAIN DetailParams = Details /\ DOMAIN Following = {"volts", "current"}
  BY DEF DetailParams, Following, Details
<1>2. /\ step \in Details /\ entry \in Detailed /\ queue \in Seq(Nat \ {0})
      /\ entry.number \in 1..10
  BY <1>1 DEF ReadDetail, Typed, Detailed
<1>3. /\ v \in Nat
      /\ entry.number \in 1..Len(queue) => v = Recorded(queue[entry.number])[step]
  BY <1>1, <1>2, DetailAt
<1>4. /\ UNCHANGED <<driveVars, options, calls, before, during, cleared>>
      /\ step \in DOMAIN Following =>
           entry' = e /\ step' = Following[step] /\ UNCHANGED <<faults, result>>
      /\ step \notin DOMAIN Following => Report(e)
  BY Zenon DEF ReadDetail
<1> HIDE DEF v
<1>5. e \in Detailed
  BY <1>2, <1>3 DEF Detailed, Details
<1>6. step # "frequency" =>
        step \in DOMAIN Following
          /\ Following[step] = (IF step = "volts" THEN "current" ELSE "frequency")
  BY <1>1, <1>2 DEF Following, Details
<1>7. step = "frequency" => step \notin DOMAIN Following
  BY <1>1
<1>8. e = [entry EXCEPT ![step] = v]
  OBVIOUS
<1> HIDE DEF e
<1>9. \/ /\ step # "frequency"
         /\ step' = (IF step = "volts" THEN "current" ELSE "frequency")
         /\ entry' = e /\ UNCHANGED <<faults, result>>
      \/ step = "frequency" /\ Report(e)
  BY <1>4, <1>6, <1>7
<1> QED
  BY <1>2, <1>3, <1>4, <1>5, <1>8, <1>9

\* What a report leads to.
LEMMA ReportOutcome ==
  ASSUME Typed, step \in Reading, NEW e \in Detailed, Report(e)
  PROVE  /\ faults' \in Seq(Detailed) /\ Len(faults') = Len(faults) + 1
         /\ \A i \in 1..Len(faults) : faults'[i] = faults[i]
         /\ faults'[Len(faults) + 1] = e
         /\ Codes' = Codes \cup {e.code}
         /\ entry' = [number |-> e.number + 1]
         /\ \/ e.number < 10 /\ step' = "code" /\ result' = result
            \/ e.number = 10 /\ step' = "clear" /\ options.clear /\ result' = result
            \/ e.number = 10 /\ step' = "idle" /\ ~options.clear /\ result' = "ok"
<1>1. /\ faults \in Seq(Detailed) /\ faults' = Append(faults, e)
      /\ entry' = [number |-> e.number + 1]
  BY DEF Typed, Report
<1>2. /\ faults' \in Seq(Detailed) /\ Len(faults') = Len(faults) + 1
      /\ \A i \in 1..Len(faults) : faults'[i] = faults[i]
      /\ faults'[Len(faults) + 1] = e
      /\ Len(faults) \in Nat
      /\ DOMAIN faults = 1..Len(faults) /\ DOMAIN faults' = 1..Len(faults')
  BY <1>1
<1>3. Codes' = Codes \cup {e.code}
  <2>1. 1..Len(faults') = 1..Len(faults) \cup {Len(faults) + 1}
    BY <1>2
  <2>2. \A c : c \in Codes' <=> \E i \in 1..Len(faults') : c = faults'[i].code
    BY <1>2 DEF Codes
  <2>3. \A c : c \in Codes <=> \E i \in 1..Len(faults) : c = faults[i].code
    BY <1>2 DEF Codes
  <2> QED
    BY <1>2, <2>1, <2>2, <2>3
<1>4. e.number \in 1..10
  BY DEF Detailed
<1>5. \/ e.number < 10 /\ step' = "code" /\ result' = result
      \/ e.number = 10 /\ step' = "clear" /\ options.clear /\ result' = result
      \/ e.number = 10 /\ step' = "idle" /\ ~options.clear /\ result' = "ok"
  BY <1>4 DEF Report, Return
<1> QED
  BY <1>1, <1>2, <1>3, <1>5

-----------------------------------------------------------------------------

LEMMA InitTyped == FaultInit => Typed
<1> SUFFICES ASSUME FaultInit PROVE Typed
  OBVIOUS
<1>1. PICK n \in QueueLengths : queue = [i \in 1..n |-> n + 1 - i] /\ newest = n
  BY DEF FaultInit
<1>2. n \in 0..10
  OBVIOUS
<1>3. /\ queue \in [1..n -> Nat \ {0}]
      /\ \A i \in 1..n : queue[i] <= newest
  BY <1>1, <1>2
<1>4. queue \in Seq(Nat \ {0}) /\ Len(queue) = n
  BY <1>2, <1>3
<1>5. before \in Seq(Nat \ {0}) /\ faults \in Seq(Detailed)
  BY DEF FaultInit
<1> QED
  BY <1>1, <1>2, <1>3, <1>4, <1>5 DEF FaultInit, Typed, Reading, Details

\* A fault that occurs while one is read marks it as torn.
LEMMA TornEntry ==
  ASSUME Typed, FaultOccurs
  PROVE  /\ step = "code" => entry' = entry
         /\ step \in Details => /\ entry' = [entry EXCEPT !.torn = TRUE]
                               /\ entry' \in Detailed /\ entry'.torn
                               /\ entry'.number = entry.number /\ entry'.code = entry.code
<1>1. ASSUME step = "code" PROVE entry' = entry
  <2>1. "torn" \notin DOMAIN entry
    BY <1>1 DEF Typed
  <2> QED
    BY <2>1 DEF FaultOccurs
<1>2. ASSUME step \in Details
      PROVE  /\ entry' = [entry EXCEPT !.torn = TRUE]
             /\ entry' \in Detailed /\ entry'.torn
             /\ entry'.number = entry.number /\ entry'.code = entry.code
  <2>1. entry \in Detailed /\ "torn" \in DOMAIN entry
    BY <1>2 DEF Typed, Detailed
  <2>2. entry' = [entry EXCEPT !.torn = TRUE]
    BY <2>1 DEF FaultOccurs
  <2> QED
    BY <2>1, <2>2 DEF Detailed
<1> QED
  BY <1>1, <1>2

\* The queue after a new fault.
LEMMA NewFault ==
  ASSUME Typed, FaultOccurs
  PROVE  /\ newest' = newest + 1 /\ during' = during \cup {newest + 1}
         /\ queue' \in Seq(Nat \ {0}) /\ Len(queue') \in 1..10
         /\ Len(queue') <= Len(queue) + 1
         /\ queue'[1] = newest + 1
         /\ \A i \in 1..Len(queue') :
              i # 1 => i - 1 \in 1..Len(queue) /\ queue'[i] = queue[i - 1]
         /\ UNCHANGED <<step, options, faults, result, calls, before, cleared>>
<1>1. PICK f \in Nat \ {0} : f = newest + 1
  BY DEF Typed
<1>2. PICK s \in Seq(Nat \ {0}) : s = queue /\ Len(s) <= 10
  BY DEF Typed
<1>3. newest' = f /\ during' = during \cup {f}
      /\ UNCHANGED <<step, options, faults, result, calls, before, cleared>>
  BY <1>1 DEF FaultOccurs
<1>4. PICK n \in 1..10 : n <= Len(s) + 1 /\ n = Min({10, Len(s) + 1})
  <2>1. PICK l \in Nat : l = Len(s) /\ l <= 10
    BY <1>2
  <2> QED
    BY <2>1, Room
<1>5. PICK q : q = queue' /\ q = SubSeq(<<f>> \o s, 1, n)
  BY <1>1, <1>2, <1>4 DEF FaultOccurs
<1>6. /\ q \in Seq(Nat \ {0}) /\ Len(q) = n
      /\ q[1] = f
      /\ \A i \in 1..Len(q) : i # 1 => i - 1 \in 1..Len(s) /\ q[i] = s[i - 1]
  <2>1. /\ SubSeq(<<f>> \o s, 1, n) \in Seq(Nat \ {0}) /\ Len(SubSeq(<<f>> \o s, 1, n)) = n
        /\ SubSeq(<<f>> \o s, 1, n)[1] = f
        /\ \A i \in 1..n : i # 1 => /\ i - 1 \in 1..Len(s)
                                 /\ SubSeq(<<f>> \o s, 1, n)[i] = s[i - 1]
    <3>1. PICK S : S = Nat \ {0}
      OBVIOUS
    <3>2. s \in Seq(S) /\ f \in S /\ n <= Len(s) + 1
      BY <1>4, <3>1
    <3>3. /\ SubSeq(<<f>> \o s, 1, n) \in Seq(S) /\ Len(SubSeq(<<f>> \o s, 1, n)) = n
          /\ SubSeq(<<f>> \o s, 1, n)[1] = f
          /\ \A i \in 1..n : i # 1 => /\ i - 1 \in 1..Len(s)
                                   /\ SubSeq(<<f>> \o s, 1, n)[i] = s[i - 1]
      BY <3>2, Pushed
    <3> QED
      BY <3>1, <3>3, Zenon
  <2> QED
    BY <1>5, <2>1, Zenon
<1> QED
  BY <1>1, <1>2, <1>3, <1>4, <1>5, <1>6

LEMMA StepTyped == Typed /\ [FaultNext]_faultVars => Typed'
<1> SUFFICES ASSUME Typed, [FaultNext]_faultVars PROVE Typed'
  OBVIOUS
<1>1. CASE FaultOccurs
  <2>1. \A i \in 1..Len(queue') : queue'[i] <= newest'
    <3>1. ASSUME NEW i \in 1..Len(queue') PROVE queue'[i] <= newest'
      <4>1. CASE i = 1
        BY <1>1, <4>1, NewFault DEF Typed
      <4>2. CASE i # 1
        <5>1. i - 1 \in 1..Len(queue) /\ queue'[i] = queue[i - 1] /\ newest' = newest + 1
          BY <1>1, <4>2, NewFault
        <5>2. queue[i - 1] \in Nat /\ queue[i - 1] <= newest /\ newest \in Nat
          BY <5>1 DEF Typed
        <5> QED
          BY <5>1, <5>2
      <4> QED
        BY <4>1, <4>2
    <3> QED
      BY <3>1
  <2>2. /\ step' = "code" => entry' \in [number: 1..10]
        /\ step' \in Details => entry' \in Detailed
        /\ step' \in Reading => entry'.number = entry.number
    BY <1>1, TornEntry DEF Typed, FaultOccurs, Reading
  <2>3. /\ newest' \in Nat /\ queue' \in Seq(Nat \ {0}) /\ Len(queue') <= 10
        /\ UNCHANGED <<step, faults, result, before, cleared>>
    <3>1. newest' = newest + 1 /\ newest \in Nat
      BY <1>1, NewFault DEF Typed
    <3>2. /\ queue' \in Seq(Nat \ {0}) /\ Len(queue') \in 1..10
          /\ UNCHANGED <<step, faults, result, before, cleared>>
      BY <1>1, NewFault, Zenon
    <3>3. Len(queue') <= 10
      <4>1. \A n \in 1..10 : n <= 10
        OBVIOUS
      <4> QED
        BY <3>2, <4>1, Zenon
    <3> QED
      BY <3>1, <3>2, <3>3
  <2> QED
    BY <2>1, <2>2, <2>3 DEF Typed
<1>2. ASSUME NEW clear \in BOOLEAN, NEW details \in BOOLEAN, Call(clear, details)
      PROVE  Typed'
  <2>1. /\ UNCHANGED driveVars /\ step' = "code" /\ entry' = [number |-> 1]
        /\ faults' = <<>> /\ result' = "none" /\ before' = queue /\ cleared' = {}
    BY <1>2 DEF Call
  <2>2. faults' \in Seq(Detailed) /\ Len(faults') = 0
    BY <2>1
  <2>3. entry' \in [number: 1..10] /\ entry'.number = 1
    BY <2>1
  <2> QED
    BY <2>1, <2>2, <2>3 DEF Typed, driveVars, Reading, Details
<1>3. ASSUME step \in Reading, NEW e \in Detailed, Report(e), e.number = entry.number,
             UNCHANGED <<driveVars, before, cleared>>
      PROVE  Typed'
  <2>1. entry'.number = e.number + 1 /\ (e.number < 10 => entry' \in [number: 1..10])
    <3>1. entry' = [number |-> e.number + 1] /\ e.number \in 1..10
      BY <1>3, ReportOutcome DEF Detailed
    <3>2. e.number < 10 => e.number + 1 \in 1..10
      BY <3>1
    <3> QED
      BY <3>1, <3>2
  <2>2. Len(faults') + 1 = entry'.number
    BY <1>3, <2>1, ReportOutcome DEF Typed, Detailed
  <2> QED
    BY <1>3, <2>1, <2>2, ReportOutcome DEF Typed, driveVars, Reading, Details
<1>4. CASE ReadCode
  <2>1. step = "code"
    BY <1>4 DEF ReadCode
  <2>2. CASE Ends
    BY <1>4, <2>1, <2>2, CodeOutcome DEF Ends, Typed, driveVars, Reading, Details
  <2>3. ASSUME NEW e \in Detailed, e.number = entry.number,
               options.details, entry' = e, step' = "volts", UNCHANGED <<faults, result>>
        PROVE  Typed'
    BY <1>4, <2>1, <2>3, CodeOutcome DEF Typed, driveVars, Reading, Details
  <2> QED
    BY <1>3, <1>4, <2>1, <2>2, <2>3, CodeOutcome DEF Reading
<1>5. CASE ReadDetail
  <2>1. PICK e \in Detailed, v \in Nat :
          /\ e = [entry EXCEPT ![step] = v]
          /\ \/ /\ step # "frequency"
                /\ step' = (IF step = "volts" THEN "current" ELSE "frequency")
                /\ entry' = e /\ UNCHANGED <<faults, result>>
             \/ step = "frequency" /\ Report(e)
    BY <1>5, DetailOutcome
  <2>2. /\ step \in Details /\ entry \in Detailed
        /\ UNCHANGED <<driveVars, options, calls, before, during, cleared>>
    BY <1>5, DetailOutcome
  <2>3. e.number = entry.number
    BY <2>1, <2>2 DEF Details, Detailed
  <2>4. CASE step # "frequency"
    BY <2>1, <2>2, <2>3, <2>4 DEF Typed, driveVars, Reading, Details
  <2> QED
    BY <1>3, <2>1, <2>2, <2>3, <2>4 DEF Reading
<1>6. CASE ReadFails
  BY <1>6 DEF ReadFails, Return, Typed, driveVars, Reading, Details
<1>7. ASSUME NEW acted \in BOOLEAN, NEW res \in {"ok", "failed"}, ClearQueue(acted, res)
      PROVE  Typed'
  <2>1. queue' = <<>> \/ queue' = queue
    BY <1>7 DEF ClearQueue
  <2>2. queue' \in Seq(Nat \ {0}) /\ Len(queue') <= 10
        /\ \A i \in 1..Len(queue') : queue'[i] <= newest
    <3>1. CASE queue' = <<>>
      <4>1. Len(queue') = 0
        BY <3>1
      <4>2. queue' \in Seq(Nat \ {0})
        BY <3>1
      <4> QED
        BY <4>1, <4>2
    <3>2. CASE queue' = queue
      BY <3>2 DEF Typed
    <3> QED
      BY <2>1, <3>1, <3>2
  <2> QED
    BY <1>7, <2>2 DEF ClearQueue, Return, Typed, Reading, Details
<1>8. CASE UNCHANGED faultVars
  BY <1>8 DEF faultVars, driveVars, callVars, Typed
<1> QED
  BY <1>1, <1>2, <1>4, <1>5, <1>6, <1>7, <1>8 DEF FaultNext

-----------------------------------------------------------------------------
(* No fault is missed *)

\* Of the first n faults in the queue, those not newer than fault b are in S.
Passed(b, n, S) == \A i \in 1..Len(queue) : queue[i] <= b /\ i <= n => queue[i] \in S

\* Fault b was the last one when the call began: what was in the queue then
\* and has a number that was read is reported, or about to be.
Since(b) ==
  /\ b <= newest /\ during = (b + 1)..newest
  /\ \A i \in 1..Len(before) : before[i] <= b
  /\ cleared \subseteq Codes \cup during
  /\ step = "code" => Passed(b, entry.number - 1, Codes)
  /\ step \in Details => Passed(b, entry.number, Codes \cup {entry.code})
  /\ step = "clear" \/ result = "ok" => Passed(b, Len(queue), Codes)

MissedInv == \E b \in Nat : Since(b)

LEMMA InitMissed == FaultInit => MissedInv
<1> SUFFICES ASSUME FaultInit PROVE MissedInv
  OBVIOUS
<1>1. newest \in Nat /\ during = {} /\ Len(before) = 0 /\ step = "idle" /\ result = "none"
      /\ cleared = {}
  BY DEF FaultInit
<1>2. during = (newest + 1)..newest
  BY <1>1
<1>3. Since(newest)
  BY <1>1, <1>2 DEF Since, Details
<1> QED
  BY <1>1, <1>3 DEF MissedInv

\* A new fault has a higher number than any before and moves no fault down.
LEMMA PassedStays ==
  ASSUME Typed, FaultOccurs, NEW b \in Nat, b <= newest, NEW n \in Int, NEW S,
         Passed(b, n, S)
  PROVE  /\ Passed(b, n, S)'
         /\ n = Len(queue) => Passed(b, Len(queue), S)'
<1>1. ASSUME NEW i \in 1..Len(queue'), queue'[i] <= b, i <= n \/ n = Len(queue)
      PROVE  queue'[i] \in S
  <2>1. queue'[1] = newest + 1 /\ newest \in Nat
    BY NewFault DEF Typed
  <2>2. i # 1
    BY <1>1, <2>1
  <2>3. i - 1 \in 1..Len(queue) /\ queue'[i] = queue[i - 1]
    BY <2>2, NewFault
  <2>4. i - 1 <= n /\ queue[i - 1] <= b
    BY <1>1, <2>3
  <2> QED
    BY <2>3, <2>4 DEF Passed
<1> QED
  BY <1>1 DEF Passed

\* After a report everything up to the number of the entry is reported.
LEMMA ReportMissed ==
  ASSUME Typed, step \in Reading, NEW b \in Nat, Since(b), NEW e \in Detailed, Report(e),
         UNCHANGED <<driveVars, options, calls, before, during, cleared>>,
         Passed(b, e.number, Codes \cup {e.code})
  PROVE  Since(b)'
<1>1. queue' = queue /\ newest' = newest /\ Codes' = Codes \cup {e.code}
  BY ReportOutcome DEF driveVars
<1>2. e.number \in 1..10 /\ Len(queue) \in Nat /\ Len(queue) <= 10
  BY DEF Detailed, Typed
<1>3. step' = "code" => entry'.number - 1 = e.number
  BY <1>2, ReportOutcome
<1>4. CASE step' = "code"
  <2>1. Passed(b, e.number, Codes)'
    BY <1>1 DEF Passed
  <2>2. Passed(b, entry.number - 1, Codes)'
    BY <1>3, <1>4, <2>1 DEF Passed
  <2>3. result' = "none"
    BY <1>4, ReportOutcome DEF Typed, Reading, Details
  <2> QED
    BY <1>1, <1>4, <2>2, <2>3 DEF Since, Details
<1>5. CASE e.number = 10 /\ step' \in {"clear", "idle"}
  <2>1. Passed(b, Len(queue), Codes)'
    BY <1>1, <1>2, <1>5 DEF Passed
  <2> QED
    BY <1>1, <1>5, <2>1 DEF Since, Details
<1> QED
  BY <1>4, <1>5, ReportOutcome

LEMMA StepMissed == Typed /\ MissedInv /\ [FaultNext]_faultVars => MissedInv'
<1> SUFFICES ASSUME Typed, NEW b \in Nat, Since(b), [FaultNext]_faultVars
             PROVE  MissedInv'
  BY DEF MissedInv
<1>a. newest \in Nat /\ Len(queue) \in Nat
  BY DEF Typed
<1>1. CASE FaultOccurs
  <2>1. /\ newest' = newest + 1 /\ during' = during \cup {newest + 1}
        /\ UNCHANGED <<step, faults, result, before, cleared>>
    BY <1>1, NewFault
  <2>2. b <= newest' /\ during' = (b + 1)..newest'
    BY <1>a, <2>1 DEF Since
  <2>3. Codes' = Codes
    BY <2>1 DEF Codes
  <2>4. cleared' \subseteq Codes' \cup during'
    BY <2>1, <2>3 DEF Since
  <2>5. step' = "code" => Passed(b, entry.number - 1, Codes)'
    <3>1. ASSUME step = "code" PROVE Passed(b, entry.number - 1, Codes)'
      <4>1. PICK n \in Int : n = entry.number - 1
        BY <3>1 DEF Typed
      <4>2. PICK S : S = Codes
        OBVIOUS
      <4>3. Passed(b, n, S)'
        BY <1>1, <3>1, <4>1, <4>2, PassedStays DEF Since
      <4>4. entry' = entry
        BY <1>1, <3>1, TornEntry
      <4> QED
        BY <2>3, <4>1, <4>2, <4>3, <4>4 DEF Passed
    <3> QED
      BY <2>1, <3>1
  <2>6. step' \in Details => Passed(b, entry.number, Codes \cup {entry.code})'
    <3>1. ASSUME step \in Details
          PROVE  Passed(b, entry.number, Codes \cup {entry.code})'
      <4>1. PICK n \in Int : n = entry.number
        BY <3>1 DEF Typed, Detailed
      <4>2. PICK S : S = Codes \cup {entry.code}
        OBVIOUS
      <4>3. Passed(b, n, S)'
        BY <1>1, <3>1, <4>1, <4>2, PassedStays DEF Since
      <4>4. entry'.number = entry.number /\ entry'.code = entry.code
        BY <1>1, <3>1, TornEntry
      <4> QED
        BY <2>3, <4>1, <4>2, <4>3, <4>4 DEF Passed
    <3> QED
      BY <2>1, <3>1
  <2>7. step' = "clear" \/ result' = "ok" => Passed(b, Len(queue), Codes)'
    <3>1. ASSUME step = "clear" \/ result = "ok" PROVE Passed(b, Len(queue), Codes)'
      <4>1. PICK n \in Int : n = Len(queue)
        BY <1>a
      <4>2. PICK S : S = Codes
        OBVIOUS
      <4>3. Passed(b, Len(queue), S)'
        BY <1>1, <3>1, <4>1, <4>2, PassedStays DEF Since
      <4> QED
        BY <2>3, <4>2, <4>3 DEF Passed
    <3> QED
      BY <2>1, <3>1
  <2>8. \A i \in 1..Len(before') : before'[i] <= b
    BY <2>1 DEF Since
  <2>9. Since(b)'
    BY <2>2, <2>4, <2>5, <2>6, <2>7, <2>8 DEF Since
  <2> QED
    BY <2>9 DEF MissedInv
<1>2. ASSUME NEW clear \in BOOLEAN, NEW details \in BOOLEAN, Call(clear, details)
      PROVE  MissedInv'
  <2>1. /\ UNCHANGED driveVars /\ step' = "code" /\ entry' = [number |-> 1]
        /\ result' = "none" /\ before' = queue /\ during' = {} /\ cleared' = {}
    BY <1>2 DEF Call
  <2>2. PICK n \in Nat : n = newest
    BY <1>a
  <2>3. n <= newest' /\ during' = (n + 1)..newest'
    BY <2>1, <2>2 DEF driveVars
  <2>4. \A i \in 1..Len(before') : before'[i] <= n
    BY <2>1, <2>2 DEF Typed
  <2>5. Passed(n, entry.number - 1, Codes)'
    BY <2>1 DEF Passed
  <2>6. Since(n)'
    BY <2>1, <2>3, <2>4, <2>5 DEF Since, Details
  <2> QED
    BY <2>6 DEF MissedInv
<1>3. CASE ReadCode
  <2>1. /\ UNCHANGED <<driveVars, options, calls, before, during, cleared>>
        /\ step = "code" /\ result = "none" /\ entry.number \in 1..10
    BY <1>3, CodeOutcome DEF ReadCode, Typed
  <2>2. Passed(b, entry.number - 1, Codes)
    BY <2>1 DEF Since
  <2>3. CASE entry.number \notin 1..Len(queue) /\ Ends
    <3>1. Passed(b, Len(queue), Codes)
      BY <1>a, <2>1, <2>2, <2>3 DEF Passed
    <3>2. Since(b)'
      BY <2>1, <2>3, <3>1 DEF Ends, Since, Passed, Codes, Details, driveVars
    <3> QED
      BY <3>2 DEF MissedInv
  <2>4. ASSUME NEW e \in Detailed, entry.number \in 1..Len(queue),
               e.number = entry.number, e.code = queue[entry.number]
        PROVE  Passed(b, e.number, Codes \cup {e.code})
    BY <1>a, <2>1, <2>2, <2>4 DEF Passed
  <2>5. ASSUME NEW e \in Detailed, Passed(b, e.number, Codes \cup {e.code}), Report(e)
        PROVE  MissedInv'
    BY <2>1, <2>5, ReportMissed DEF MissedInv, Reading
  <2>6. ASSUME NEW e \in Detailed, Passed(b, e.number, Codes \cup {e.code}),
               entry' = e, step' = "volts", UNCHANGED <<faults, result>>
        PROVE  MissedInv'
    <3>1. Passed(b, entry.number, Codes \cup {entry.code})'
      BY <2>1, <2>6 DEF Passed, Codes, driveVars
    <3>2. Since(b)'
      BY <2>1, <2>6, <3>1 DEF Since, Codes, Details, driveVars
    <3> QED
      BY <3>2 DEF MissedInv
  <2> QED
    BY <1>3, <2>3, <2>4, <2>5, <2>6, CodeOutcome
<1>4. CASE ReadDetail
  <2>1. PICK e \in Detailed, v \in Nat :
          /\ e = [entry EXCEPT ![step] = v]
          /\ \/ /\ step # "frequency"
                /\ step' = (IF step = "volts" THEN "current" ELSE "frequency")
                /\ entry' = e /\ UNCHANGED <<faults, result>>
             \/ step = "frequency" /\ Report(e)
    BY <1>4, DetailOutcome
  <2>2. /\ step \in Details /\ entry \in Detailed /\ result = "none"
        /\ UNCHANGED <<driveVars, options, calls, before, during, cleared>>
    BY <1>4, DetailOutcome DEF Typed, Details
  <2>3. e.number = entry.number /\ e.code = entry.code
    BY <2>1, <2>2 DEF Details, Detailed
  <2>4. Passed(b, e.number, Codes \cup {e.code})
    BY <2>2, <2>3 DEF Since
  <2>5. CASE step = "frequency" /\ Report(e)
    BY <2>2, <2>4, <2>5, ReportMissed DEF MissedInv, Reading
  <2>6. CASE step # "frequency" /\ entry' = e /\ UNCHANGED <<faults, result>>
              /\ step' \in {"current", "frequency"}
    <3>1. Passed(b, entry.number, Codes \cup {entry.code})'
      BY <2>2, <2>4, <2>6 DEF Passed, Codes, driveVars
    <3>2. Since(b)'
      BY <2>2, <2>6, <3>1 DEF Since, Codes, Details, driveVars
    <3> QED
      BY <3>2 DEF MissedInv
  <2> QED
    BY <2>1, <2>5, <2>6
<1>5. CASE ReadFails
  <2>1. /\ UNCHANGED <<queue, newest, faults, before, during, cleared>>
        /\ step' = "idle" /\ result' = "failed"
    BY <1>5 DEF ReadFails, Return, driveVars
  <2>2. Since(b)'
    BY <2>1 DEF Since, Codes, Details
  <2> QED
    BY <2>2 DEF MissedInv
<1>6. ASSUME NEW acted \in BOOLEAN, NEW res \in {"ok", "failed"}, ClearQueue(acted, res)
      PROVE  MissedInv'
  <2>1. /\ step = "clear" /\ step' = "idle" /\ cleared = {}
        /\ UNCHANGED <<newest, faults, before, during>>
        /\ \/ queue' = <<>> /\ cleared' = ToSet(queue)
           \/ UNCHANGED <<queue, cleared>>
    BY <1>6 DEF ClearQueue, Return, Typed
  <2>2. Codes' = Codes
    BY <2>1 DEF Codes
  <2>3. Passed(b, Len(queue), Codes)
    BY <2>1 DEF Since
  <2>4. ToSet(queue) \subseteq Codes \cup during
    <3>1. ASSUME NEW i \in 1..Len(queue) PROVE queue[i] \in Codes \cup during
      <4>1. queue[i] \in Nat /\ queue[i] <= newest
        BY DEF Typed
      <4>2. CASE queue[i] <= b
        BY <1>a, <2>3, <4>2 DEF Passed
      <4>3. CASE ~(queue[i] <= b)
        BY <1>a, <4>1, <4>3 DEF Since
      <4> QED
        BY <4>2, <4>3
    <3>2. DOMAIN queue = 1..Len(queue)
      BY DEF Typed
    <3> QED
      BY <3>1, <3>2 DEF ToSet
  <2>5. cleared' \subseteq Codes' \cup during'
    BY <2>1, <2>2, <2>4
  <2>6. Passed(b, Len(queue), Codes)'
    <3>1. CASE queue' = <<>>
      <4>1. Len(queue') = 0
        BY <3>1
      <4> QED
        BY <4>1 DEF Passed
    <3>2. CASE queue' = queue
      BY <2>2, <2>3, <3>2 DEF Passed
    <3> QED
      BY <2>1, <3>1, <3>2
  <2>7. Since(b)'
    BY <2>1, <2>5, <2>6 DEF Since, Details
  <2> QED
    BY <2>7 DEF MissedInv
<1>7. CASE UNCHANGED faultVars
  <2>1. Since(b)'
    BY <1>7 DEF faultVars, driveVars, callVars, Since, Passed, Codes
  <2> QED
    BY <2>1 DEF MissedInv
<1> QED
  BY <1>1, <1>2, <1>3, <1>4, <1>5, <1>6, <1>7 DEF FaultNext

LEMMA MissedMeans == Typed /\ MissedInv => NoFaultMissed
<1> SUFFICES ASSUME Typed, NEW b \in Nat, Since(b) PROVE NoFaultMissed
  BY DEF MissedInv
<1>1. cleared \subseteq Codes \cup during
  BY DEF Since
<1>2. ASSUME result = "ok", NEW c \in ToSet(before) \cap ToSet(queue) PROVE c \in Codes
  <2>1. DOMAIN queue = 1..Len(queue) /\ DOMAIN before = 1..Len(before)
        /\ Len(queue) \in Nat
    BY DEF Typed
  <2>2. PICK i \in 1..Len(queue) : c = queue[i]
    BY <2>1 DEF ToSet
  <2>3. c <= b
    BY <2>1 DEF ToSet, Since
  <2> QED
    BY <1>2, <2>1, <2>2, <2>3 DEF Since, Passed
<1> QED
  BY <1>1, <1>2 DEF NoFaultMissed

\* A step of the drive is one on its fault queue or leaves it alone.
LEMMA FaultSteps == [Next]_vars => [FaultNext]_faultVars
BY DEF Next, vars, Discover

\* No fault is lost, however many occur while the queue is read, with or
\* without details, and wherever a call fails: what the drive's queue is
\* cleared of was reported or occurred after the call began, and a call that
\* succeeds has reported whatever was there when it began and still is.
THEOREM NeverMissed == Spec => []NoFaultMissed
<1>1. Init => Typed /\ MissedInv
  BY InitTyped, InitMissed DEF Init
<1>2. Typed /\ MissedInv /\ [Next]_vars => (Typed /\ MissedInv)'
  BY StepTyped, StepMissed, FaultSteps
<1>3. Typed /\ MissedInv => NoFaultMissed
  BY MissedMeans
<1> QED
  BY <1>1, <1>2, <1>3, PTL DEF Spec

-----------------------------------------------------------------------------
(* What is reported is what the drive recorded *)

Faithful(e) ==
  ~e.torn /\ options.details =>
    /\ e.volts = Recorded(e.code).volts
    /\ e.current = Recorded(e.code).current
    /\ e.frequency = Recorded(e.code).frequency

RecordInv == \A i \in 1..Len(faults) : faults[i].number = i /\ Faithful(faults[i])

\* Until a fault occurs, the entry being read keeps its number.
EntryInv ==
  step \in Details /\ ~entry.torn =>
    /\ entry.number \in 1..Len(queue) /\ entry.code = queue[entry.number]
    /\ step # "volts" => entry.volts = Recorded(entry.code).volts
    /\ step = "frequency" => entry.current = Recorded(entry.code).current

\* Without a new fault the call reads the queue as it was.
CopyInv ==
  during = {} =>
    /\ step \in Reading \cup {"clear"} => queue = before
    /\ step \in Details => ~entry.torn
    /\ \A i \in 1..Len(faults) : i \in 1..Len(before) /\ faults[i].code = before[i]
    /\ step = "clear" => Len(faults) = Len(before)
    /\ result = "ok" => Len(faults) = Len(before) /\ (options.clear => queue = <<>>)

ExactInv == RecordInv /\ EntryInv /\ CopyInv

LEMMA InitExact == FaultInit => ExactInv
<1> SUFFICES ASSUME FaultInit PROVE ExactInv
  OBVIOUS
<1>1. Len(faults) = 0 /\ step = "idle" /\ result = "none"
  BY DEF FaultInit
<1> QED
  BY <1>1 DEF ExactInv, RecordInv, EntryInv, CopyInv, Reading, Details

LEMMA ReportExact ==
  ASSUME Typed, ExactInv, step \in Reading, NEW e \in Detailed, Report(e),
         e.number = entry.number, Faithful(e),
         during = {} => e.number \in 1..Len(queue) /\ e.code = queue[e.number],
         UNCHANGED <<driveVars, options, calls, before, during, cleared>>
  PROVE  ExactInv'
<1>1. /\ faults' \in Seq(Detailed) /\ Len(faults') = Len(faults) + 1
      /\ \A i \in 1..Len(faults) : faults'[i] = faults[i]
      /\ faults'[Len(faults) + 1] = e
      /\ Len(faults) + 1 = e.number /\ e.number \in 1..10 /\ Len(faults) \in Nat
      /\ queue' = queue /\ options' = options /\ before' = before /\ during' = during
      /\ Len(queue) \in Nat /\ Len(queue) <= 10
  <2>1. /\ faults' \in Seq(Detailed) /\ Len(faults') = Len(faults) + 1
        /\ \A i \in 1..Len(faults) : faults'[i] = faults[i]
        /\ faults'[Len(faults) + 1] = e
    BY ReportOutcome
  <2>2. Len(faults) + 1 = e.number /\ e.number \in 1..10
    BY DEF Typed, Detailed
  <2>3. Len(faults) \in Nat /\ Len(queue) \in Nat /\ Len(queue) <= 10
    BY DEF Typed
  <2> QED
    BY <2>1, <2>2, <2>3 DEF driveVars
<1>2. \A i \in 1..Len(faults') : i \in 1..Len(faults) \/ i = Len(faults) + 1
  BY <1>1
<1>4. RecordInv'
  <2>1. ASSUME NEW i \in 1..Len(faults') PROVE faults'[i].number = i /\ Faithful(faults[i])'
    <3>1. CASE i \in 1..Len(faults)
      BY <1>1, <3>1 DEF ExactInv, RecordInv, Faithful
    <3>2. CASE i = Len(faults) + 1
      BY <1>1, <3>2 DEF Faithful
    <3> QED
      BY <1>2, <3>1, <3>2
  <2> QED
    BY <2>1 DEF RecordInv
<1>5. step' \notin Details /\ (step' = "clear" \/ result' = "ok" => e.number = 10)
      /\ (result' = "ok" => ~options.clear)
  BY ReportOutcome DEF Details, Typed, Reading
<1>6. EntryInv'
  BY <1>5 DEF EntryInv
<1>7. ASSUME during' = {}
      PROVE  /\ queue' = before'
             /\ \A i \in 1..Len(faults') : i \in 1..Len(before') /\ faults'[i].code = before'[i]
             /\ e.number = 10 => Len(faults') = Len(before')
  <2>1. /\ queue = before
        /\ \A i \in 1..Len(faults) : i \in 1..Len(before) /\ faults[i].code = before[i]
        /\ e.number \in 1..Len(queue) /\ e.code = queue[e.number]
    BY <1>1, <1>7 DEF ExactInv, CopyInv
  <2>2. ASSUME NEW i \in 1..Len(faults')
        PROVE  i \in 1..Len(before') /\ faults'[i].code = before'[i]
    <3>1. CASE i \in 1..Len(faults)
      BY <1>1, <2>1, <3>1
    <3>2. CASE i = Len(faults) + 1
      BY <1>1, <2>1, <3>2
    <3> QED
      BY <1>2, <3>1, <3>2
  <2> QED
    BY <1>1, <2>1, <2>2
<1>8. CopyInv'
  BY <1>1, <1>5, <1>7 DEF CopyInv
<1> QED
  BY <1>4, <1>6, <1>8 DEF ExactInv

LEMMA StepExact == Typed /\ ExactInv /\ [FaultNext]_faultVars => ExactInv'
<1> SUFFICES ASSUME Typed, ExactInv, [FaultNext]_faultVars PROVE ExactInv'
  OBVIOUS
<1>1. CASE FaultOccurs
  <2>1. /\ during' # {}
        /\ UNCHANGED <<step, options, faults, result>>
    BY <1>1, NewFault
  <2>2. RecordInv'
    BY <2>1 DEF ExactInv, RecordInv, Faithful
  <2>3. EntryInv'
    BY <1>1, <2>1, TornEntry DEF EntryInv
  <2> QED
    BY <2>1, <2>2, <2>3 DEF ExactInv, CopyInv
<1>2. ASSUME NEW clear \in BOOLEAN, NEW details \in BOOLEAN, Call(clear, details)
      PROVE  ExactInv'
  <2>1. /\ queue' = queue /\ step' = "code" /\ faults' = <<>> /\ result' = "none"
        /\ before' = queue
    BY <1>2 DEF Call, driveVars
  <2>2. Len(faults') = 0
    BY <2>1
  <2> QED
    BY <2>1, <2>2 DEF ExactInv, RecordInv, EntryInv, CopyInv, Details
<1>3. CASE ReadCode
  <2>1. /\ UNCHANGED <<driveVars, options, calls, before, during, cleared>>
        /\ step = "code" /\ result = "none" /\ entry.number \in 1..10
        /\ Len(faults) + 1 = entry.number
    BY <1>3, CodeOutcome DEF ReadCode, Typed, Reading
  <2>2. CASE entry.number \notin 1..Len(queue) /\ Ends
    <3>1. step' \notin Reading /\ faults' = faults
      BY <2>2 DEF Ends, Reading, Details
    <3>2. RecordInv' /\ EntryInv'
      BY <2>1, <3>1 DEF ExactInv, RecordInv, EntryInv, Faithful, Reading
    <3>3. ASSUME during' = {}
          PROVE  /\ queue' = before'
                 /\ \A i \in 1..Len(faults') : i \in 1..Len(before') /\ faults'[i].code = before'[i]
                 /\ Len(faults') = Len(before')
      <4>1. /\ queue = before
            /\ \A i \in 1..Len(faults) : i \in 1..Len(before) /\ faults[i].code = before[i]
        BY <2>1, <3>3 DEF ExactInv, CopyInv, Reading
      <4>2. Len(faults) = Len(before)
        <5>1. Len(faults) \in Nat /\ Len(before) \in Nat /\ Len(faults) >= Len(before)
          BY <2>1, <2>2, <4>1 DEF Typed
        <5>2. Len(faults) # 0 => Len(faults) \in 1..Len(before)
          BY <4>1, <5>1
        <5> QED
          BY <5>1, <5>2
      <4> QED
        BY <2>1, <3>1, <4>1, <4>2 DEF driveVars
    <3>4. ASSUME during' = {}, result' = "ok", options'.clear PROVE queue' = <<>>
      <4>1. faults = <<>> /\ queue' \in Seq(Nat \ {0})
        BY <2>1, <2>2, <3>4 DEF Ends, Typed, driveVars
      <4>2. Len(queue') = 0
        BY <3>1, <3>3, <3>4, <4>1
      <4> QED
        BY <4>1, <4>2
    <3>5. CopyInv'
      BY <3>1, <3>3, <3>4 DEF CopyInv, Reading, Details
    <3> QED
      BY <3>2, <3>5 DEF ExactInv
  <2>3. ASSUME NEW e \in Detailed, entry.number \in 1..Len(queue), ~e.torn,
               e.number = entry.number, e.code = queue[entry.number],
               entry' = e, step' = "volts", UNCHANGED <<faults, result>>
        PROVE  ExactInv'
    <3>1. RecordInv'
      BY <2>1, <2>3 DEF ExactInv, RecordInv, Faithful
    <3>2. EntryInv'
      BY <2>1, <2>3 DEF EntryInv, driveVars
    <3>3. CopyInv'
      BY <2>1, <2>3 DEF ExactInv, CopyInv, driveVars, Reading, Details
    <3> QED
      BY <3>1, <3>2, <3>3 DEF ExactInv
  <2>4. ASSUME NEW e \in Detailed, entry.number \in 1..Len(queue),
               e.number = entry.number, e.code = queue[entry.number],
               ~options.details, Report(e)
        PROVE  ExactInv'
    BY <2>1, <2>4, ReportExact DEF Faithful, Reading
  <2> QED
    BY <1>3, <2>2, <2>3, <2>4, CodeOutcome
<1>4. CASE ReadDetail
  <2>1. PICK e \in Detailed, v \in Nat :
          /\ entry.number \in 1..Len(queue) => v = Recorded(queue[entry.number])[step]
          /\ e = [entry EXCEPT ![step] = v]
          /\ \/ /\ step # "frequency"
                /\ step' = (IF step = "volts" THEN "current" ELSE "frequency")
                /\ entry' = e /\ UNCHANGED <<faults, result>>
             \/ step = "frequency" /\ Report(e)
    BY <1>4, DetailOutcome
  <2>2. /\ step \in Details /\ entry \in Detailed /\ result = "none"
        /\ UNCHANGED <<driveVars, options, calls, before, during, cleared>>
    BY <1>4, DetailOutcome DEF Typed, Details
  <2>3. /\ e.number = entry.number /\ e.code = entry.code /\ e.torn = entry.torn
        /\ step # "volts" => e.volts = entry.volts
        /\ step # "current" => e.current = entry.current
    BY <2>1, <2>2 DEF Details, Detailed
  <2>4. ASSUME ~e.torn
        PROVE  /\ e.number \in 1..Len(queue) /\ e.code = queue[e.number]
               /\ e.volts = Recorded(e.code).volts
               /\ step # "volts" => e.current = Recorded(e.code).current
               /\ step = "frequency" => e.frequency = Recorded(e.code).frequency
    <3>1. ~entry.torn
      BY <2>3, <2>4
    <3>2. /\ e.number \in 1..Len(queue) /\ e.code = queue[e.number]
          /\ step # "volts" => e.volts = Recorded(e.code).volts
          /\ step = "frequency" => e.current = Recorded(e.code).current
      BY <2>2, <2>3, <3>1 DEF ExactInv, EntryInv
    <3>3. v = Recorded(e.code)[step]
      BY <2>1, <2>3, <3>2
    <3>4. step = "volts" => e.volts = v
      BY <2>1, <2>2 DEF Detailed
    <3>5. step = "current" => e.current = v
      BY <2>1, <2>2 DEF Detailed
    <3>6. step = "frequency" => e.frequency = v
      BY <2>1, <2>2 DEF Detailed
    <3> QED
      BY <2>2, <3>2, <3>3, <3>4, <3>5, <3>6 DEF Details, Recorded
  <2>5. during = {} => ~e.torn
    BY <2>2, <2>3 DEF ExactInv, CopyInv
  <2>6. CASE step = "frequency" /\ Report(e)
    <3>1. Faithful(e)
      BY <2>4, <2>6 DEF Faithful
    <3> QED
      BY <2>2, <2>3, <2>4, <2>5, <2>6, <3>1, ReportExact DEF Reading
  <2>7. CASE step # "frequency" /\ entry' = e /\ UNCHANGED <<faults, result>>
             /\ step' = (IF step = "volts" THEN "current" ELSE "frequency")
    <3>1. RecordInv'
      BY <2>2, <2>7 DEF ExactInv, RecordInv, Faithful
    <3>2. EntryInv'
      BY <2>2, <2>4, <2>7 DEF EntryInv, driveVars, Details
    <3>3. CopyInv'
      BY <2>2, <2>5, <2>7 DEF ExactInv, CopyInv, driveVars, Reading, Details
    <3> QED
      BY <3>1, <3>2, <3>3 DEF ExactInv
  <2> QED
    BY <2>1, <2>6, <2>7
<1>5. CASE ReadFails
  <2>1. /\ UNCHANGED <<queue, options, faults, before, during>>
        /\ step' = "idle" /\ result' = "failed"
    BY <1>5 DEF ReadFails, Return, driveVars
  <2> QED
    BY <2>1 DEF ExactInv, RecordInv, EntryInv, CopyInv, Faithful, Reading, Details
<1>6. ASSUME NEW acted \in BOOLEAN, NEW res \in {"ok", "failed"}, ClearQueue(acted, res)
      PROVE  ExactInv'
  <2>1. /\ step = "clear" /\ step' = "idle" /\ result' = res
        /\ UNCHANGED <<options, faults, before, during>>
        /\ res = "ok" => queue' = <<>>
    BY <1>6 DEF ClearQueue, Return
  <2> QED
    BY <2>1 DEF ExactInv, RecordInv, EntryInv, CopyInv, Faithful, Reading, Details
<1>7. CASE UNCHANGED faultVars
  BY <1>7 DEF faultVars, driveVars, callVars, ExactInv, RecordInv, EntryInv, CopyInv, Faithful
<1> QED
  BY <1>1, <1>2, <1>3, <1>4, <1>5, <1>6, <1>7 DEF FaultNext

LEMMA FaultsMeans == Typed /\ ExactInv => FaultsExact
<1> SUFFICES ASSUME Typed, ExactInv PROVE FaultsExact
  OBVIOUS
<1>1. DOMAIN faults = 1..Len(faults) /\ before \in Seq(Nat \ {0})
  BY DEF Typed
<1>2. ASSUME NEW i \in DOMAIN faults
      PROVE  /\ faults[i].number = i
             /\ ~faults[i].torn /\ options.details =>
                  [volts |-> faults[i].volts, current |-> faults[i].current,
                   frequency |-> faults[i].frequency] = Recorded(faults[i].code)
  BY <1>1 DEF ExactInv, RecordInv, Faithful, Recorded
<1>3. ASSUME result = "ok", during = {}
      PROVE  /\ [i \in DOMAIN faults |-> faults[i].code] = before
             /\ options.clear => queue = <<>>
  <2>1. /\ Len(faults) = Len(before) /\ (options.clear => queue = <<>>)
        /\ \A i \in 1..Len(faults) : faults[i].code = before[i]
    BY <1>3 DEF ExactInv, CopyInv
  <2>2. before = [i \in 1..Len(before) |-> before[i]]
    BY <1>1
  <2> QED
    BY <1>1, <2>1, <2>2
<1> QED
  BY <1>2, <1>3 DEF FaultsExact

\* Whenever faults occur, the details reported with a code are what the drive
\* recorded with that fault, unless a fault occurred between their requests;
\* and a call that no new fault disturbs returns the queue as it was, in
\* order, and clears it if asked to.
THEOREM ReportedExactly == Spec => []FaultsExact
<1>1. Init => Typed /\ ExactInv
  BY InitTyped, InitExact DEF Init
<1>2. Typed /\ ExactInv /\ [Next]_vars => (Typed /\ ExactInv)'
  BY StepTyped, StepExact, FaultSteps
<1>3. Typed /\ ExactInv => FaultsExact
  BY FaultsMeans
<1> QED
  BY <1>1, <1>2, <1>3, PTL DEF Spec

=============================================================================
