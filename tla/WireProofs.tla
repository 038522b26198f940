----------------------------- MODULE WireProofs -----------------------------
(***************************************************************************)
(* Wire for texts of any length, cut into reads of any length: a client    *)
(* that waits is heard as it has said, and no reply to it is overwritten;  *)
(* and nothing is taken in short, whatever a client sends.                 *)
(***************************************************************************)
EXTENDS Wire, LeastNumber, SequenceTheorems, TLAPS

Size == 0 .. Modulus - 1

(* The number v after one more digit. *)
With(v, b) == (10 * v + b - Zero) % Modulus

(* f[i] is the number after the first i digits of d. *)
Follows(p, f, d) == \A i \in 1 .. p : f[i] = With(f[i - 1], d[i])
Numbers(n, d, f) == f \in [0 .. Len(d) -> Size] /\ f[0] = n /\ Follows(Len(d), f, d)

LEMMA StepType ==
  ASSUME NEW v \in Size, NEW b \in Digit
  PROVE  With(v, b) \in Size
<1>1. 10 * v + b - Zero \in Nat
  BY WireAssumption DEF Size, Digit, Zero
<1> QED
  BY <1>1, WireAssumption DEF Size, With

LEMMA NumbersExist ==
  ASSUME NEW n \in Size, NEW d \in Seq(Digit)
  PROVE  \E f : Numbers(n, d, f)
<1> DEFINE P(k) == \E f \in [0 .. k -> Size] : f[0] = n /\ \A i \in 1 .. k : f[i] = With(f[i - 1], d[i])
           T == {k \in 0 .. Len(d) : ~P(k)}
<1>1. P(0)
  <2> DEFINE g == [i \in 0 .. 0 |-> n]
  <2>1. g \in [0 .. 0 -> Size] /\ g[0] = n
    OBVIOUS
  <2>2. \A i \in 1 .. 0 : g[i] = With(g[i - 1], d[i])
    OBVIOUS
  <2> HIDE DEF g
  <2> QED
    BY <2>1, <2>2
<1>2. ASSUME NEW k \in 0 .. Len(d), k < Len(d), P(k) PROVE P(k + 1)
  <2>1. PICK f \in [0 .. k -> Size] : f[0] = n /\ \A i \in 1 .. k : f[i] = With(f[i - 1], d[i])
    BY <1>2
  <2> DEFINE g == [i \in 0 .. k + 1 |-> IF i = k + 1 THEN With(f[k], d[k + 1]) ELSE f[i]]
  <2>2. f[k] \in Size /\ d[k + 1] \in Digit
    BY <1>2
  <2>3. With(f[k], d[k + 1]) \in Size
    BY <2>2, StepType
  <2>4. g \in [0 .. k + 1 -> Size]
    BY <2>3, <1>2
  <2>5. g[0] = n /\ \A i \in 1 .. k + 1 : g[i] = With(g[i - 1], d[i])
    BY <2>1, <1>2
  <2> QED
    BY <2>4, <2>5
<1> HIDE DEF P
<1>3. T = {}
  <2> SUFFICES ASSUME T # {} PROVE FALSE
    OBVIOUS
  <2>0. T \in SUBSET Nat
    BY LenProperties
  <2>1. PICK k \in T : \A y \in T : k <= y
    BY <2>0, Least
  <2>2. k # 0 /\ k - 1 \in 0 .. Len(d) /\ k - 1 < Len(d) /\ k - 1 \notin T
    BY <2>1, <1>1
  <2>3. P(k)
    BY <2>2, <1>2
  <2> QED
    BY <2>1, <2>3
<1>4. P(Len(d))
  BY <1>3
<1> QED
  BY <1>4 DEF P, Numbers

LEMMA NumberIs ==
  ASSUME NEW n \in Size, NEW d \in Seq(Digit)
  PROVE  \E f : Numbers(n, d, f) /\ Number(n, d) = f[Len(d)]
<1> DEFINE E(f) == f = [i \in 0 .. Len(d) |->
                          IF i = 0 THEN n ELSE With(f[i - 1], d[i])]
           g == CHOOSE f : E(f)
<1>1. PICK f : Numbers(n, d, f)
  BY NumbersExist
<1>2. E(f)
  BY <1>1 DEF Numbers
<1>3. E(g)
  BY <1>2
<1>4. Number(n, d) = g[Len(d)]
  BY DEF Number, With
<1> HIDE DEF g
<1>5. g = f
  <2> DEFINE T == {k \in 0 .. Len(d) : g[k] # f[k]}
  <2>1. T = {}
    <3> SUFFICES ASSUME T # {} PROVE FALSE
      OBVIOUS
    <3>0. T \in SUBSET Nat
      BY LenProperties
    <3>1. PICK k \in T : \A y \in T : k <= y
      BY <3>0, Least
    <3>2. k # 0 /\ k - 1 \in 0 .. Len(d) /\ k - 1 \notin T
      BY <3>1, <1>2, <1>3
    <3> QED
      BY <3>1, <3>2, <1>2, <1>3
  <2> QED
    BY <2>1, <1>2, <1>3
<1> QED
  BY <1>1, <1>4, <1>5

LEMMA NumberType ==
  ASSUME NEW n \in Size, NEW d \in Seq(Digit)
  PROVE  Number(n, d) \in Size
<1>1. Len(d) \in 0 .. Len(d)
  OBVIOUS
<1> QED
  BY <1>1, NumberIs DEF Numbers

LEMMA NumberNone ==
  ASSUME NEW n \in Size
  PROVE  Number(n, <<>>) = n
<1>1. <<>> \in Seq(Digit) /\ Len(<<>>) = 0
  OBVIOUS
<1> QED
  BY <1>1, NumberIs DEF Numbers

LEMMA NumbersSame ==
  ASSUME NEW p \in Nat, NEW f, NEW g, NEW d, f[0] = g[0],
         Follows(p, f, d), Follows(p, g, d)
  PROVE  \A i \in 0 .. p : f[i] = g[i]
<1> DEFINE T == {k \in 0 .. p : f[k] # g[k]}
<1> SUFFICES ASSUME T # {} PROVE FALSE
  OBVIOUS
<1>1. T \in SUBSET Nat
  OBVIOUS
<1>2. PICK k \in T : \A y \in T : k <= y
  BY <1>1, Least
<1>3. k # 0 /\ k - 1 \in 0 .. p /\ k - 1 \notin T
  BY <1>2
<1> QED
  BY <1>2, <1>3 DEF Follows

(* The number is the same when its digits come in two reads.               *)
LEMMA NumberComposes ==
  ASSUME NEW n \in Size, NEW a \in Seq(Digit), NEW b \in Seq(Digit)
  PROVE  Number(n, a \o b) = Number(Number(n, a), b)
<1> DEFINE m == Number(n, a)
           p == Len(a)
           q == Len(b)
           ab == a \o b
<1>1. ab \in Seq(Digit) /\ m \in Size
  BY NumberType
<1>2. PICK f : Numbers(n, ab, f) /\ Number(n, ab) = f[Len(ab)]
  BY <1>1, NumberIs
<1>3. PICK g : Numbers(n, a, g) /\ m = g[p]
  BY NumberIs
<1>4. PICK h : Numbers(m, b, h) /\ Number(m, b) = h[q]
  BY <1>1, NumberIs
<1>5. /\ p \in Nat /\ q \in Nat /\ Len(ab) = p + q
      /\ \A i \in 1 .. p : ab[i] = a[i] /\ i \in 1 .. Len(ab)
      /\ \A i \in 1 .. q : ab[p + i] = b[i] /\ p + i \in 1 .. Len(ab)
  OBVIOUS
<1> HIDE DEF ab
<1>6. f[p] = g[p]
  <2>1. f[0] = g[0] /\ Follows(p, g, a) /\ Follows(Len(ab), f, ab)
    BY <1>2, <1>3 DEF Numbers
  <2>2. Follows(p, f, a)
    BY <1>5, <2>1 DEF Follows
  <2>3. \A i \in 0 .. p : f[i] = g[i]
    BY <1>5, <2>1, <2>2, NumbersSame
  <2> QED
    BY <1>5, <2>3
<1>7. f[p + q] = h[q]
  <2> DEFINE k == [i \in 0 .. q |-> f[p + i]]
  <2>1. h[0] = m /\ Follows(q, h, b) /\ Follows(Len(ab), f, ab)
    BY <1>2, <1>4 DEF Numbers
  <2>2. k[0] = h[0]
    BY <1>3, <1>5, <1>6, <2>1
  <2>3. ASSUME NEW i \in 1 .. q PROVE k[i] = With(k[i - 1], b[i])
    <3>1. p + i \in 1 .. Len(ab) /\ ab[p + i] = b[i]
      BY <1>5
    <3>2. f[p + i] = With(f[p + i - 1], ab[p + i])
      BY <2>1, <3>1 DEF Follows
    <3>3. k[i] = f[p + i] /\ k[i - 1] = f[p + (i - 1)] /\ p + (i - 1) = p + i - 1
      BY <1>5
    <3> HIDE DEF k
    <3> QED
      BY <3>1, <3>2, <3>3
  <2>4. q \in 0 .. q /\ k[q] = f[p + q]
    BY <1>5
  <2> HIDE DEF k
  <2>5. Follows(q, k, b)
    BY <2>3 DEF Follows
  <2>6. \A i \in 0 .. q : k[i] = h[i]
    BY <1>5, <2>1, <2>2, <2>5, NumbersSame
  <2> QED
    BY <2>4, <2>6
<1>8. Number(n, ab) = Number(m, b)
  BY <1>2, <1>4, <1>5, <1>7
<1> QED
  BY <1>8 DEF ab

-----------------------------------------------------------------------------
(* What a read cuts off. *)

LEMMA Whole ==
  ASSUME NEW s \in Seq(Byte), NEW b, b = SubSeq(s, 1, Len(b)), Len(b) \in 0 .. Len(s)
  PROVE  /\ b \in Seq(Byte)
         /\ SubSeq(s, Len(b) + 1, Len(s)) \in Seq(Byte)
         /\ s = b \o SubSeq(s, Len(b) + 1, Len(s))
<1> DEFINE k == Len(b)
<1>1. Len(s) \in Nat /\ \A i \in 1 .. Len(s) : s[i] \in Byte
  BY LenProperties, ElementOfSeq
<1>2. \A i \in 1 .. k : s[i] \in Byte
  BY <1>1
<1>3. \A i \in k + 1 .. Len(s) : s[i] \in Byte
  BY <1>1
<1>4. SubSeq(s, 1, k) \in Seq(Byte) /\ SubSeq(s, k + 1, Len(s)) \in Seq(Byte)
  BY <1>1, <1>2, <1>3, SubSeqProperties
<1>5. SubSeq(s, 1, k) \o SubSeq(s, k + 1, Len(s)) = SubSeq(s, 1, Len(s))
  <2>1. 1 \in 1 .. Len(s) + 1 /\ k \in 1 - 1 .. Len(s) /\ Len(s) \in k .. Len(s)
    BY <1>1
  <2> HIDE DEF k
  <2> QED
    BY <2>1, ConcatAdjacentSubSeq
<1> QED
  BY <1>4, <1>5, SubSeqFull

LEMMA DigitsAreBytes == Seq(Digit) \subseteq Seq(Byte) /\ <<Space>> \in Seq(Byte) /\ Space \notin Digit
<1>1. Digit \subseteq Byte
  BY DEF Digit, Byte, Zero
<1>2. \A s \in Seq(Digit) : s \in Seq(Byte)
  BY <1>1, SeqMonotonic
<1> QED
  BY <1>2 DEF Byte, Space, Digit, Zero

(* A number, a space and a text in one.  *)
LEMMA Separating ==
  ASSUME NEW a \in Seq(Digit), NEW t \in Seq(Byte)
  PROVE  LET s == a \o <<Space>> \o t
         IN  /\ s \in Seq(Byte) /\ Len(s) = Len(a) + 1 + Len(t)
             /\ \A i \in 1 .. Len(a) : s[i] = a[i] /\ s[i] \in Digit
             /\ s[Len(a) + 1] = Space
             /\ \A i \in 1 .. Len(t) : s[Len(a) + 1 + i] = t[i]
<1>1. a \in Seq(Byte) /\ <<Space>> \in Seq(Byte)
  BY DigitsAreBytes
<1>2. \A i \in 1 .. Len(a) : a[i] \in Digit
  BY ElementOfSeq
<1> QED
  BY <1>1, <1>2

LEMMA LeadingIs ==
  ASSUME NEW s \in Seq(Byte), NEW k \in 0 .. Len(s), \A i \in 1 .. k : s[i] \in Digit,
         k < Len(s) => s[k + 1] \notin Digit
  PROVE  Leading(s) = k
<1>1. \A n \in 0 .. Len(s) :
        (/\ \A i \in 1 .. n : s[i] \in Digit
         /\ n < Len(s) => s[n + 1] \notin Digit) => n = k
  BY LenProperties
<1> QED
  BY <1>1 DEF Leading

LEMMA DigitsOnly ==
  ASSUME NEW a \in Seq(Digit)
  PROVE  Leading(a) = Len(a) /\ ~Separated(a) /\ SubSeq(a, 1, Leading(a)) = a
<1>1. a \in Seq(Byte) /\ Len(a) \in Nat /\ \A i \in 1 .. Len(a) : a[i] \in Digit
  BY DigitsAreBytes, ElementOfSeq
<1>2. Leading(a) = Len(a)
  BY <1>1, LeadingIs
<1> QED
  BY <1>1, <1>2, SubSeqFull DEF Separated

LEMMA NumberAndText ==
  ASSUME NEW a \in Seq(Digit), NEW t \in Seq(Byte)
  PROVE  LET s == a \o <<Space>> \o t
         IN  Separated(s) /\ SubSeq(s, 1, Leading(s)) = a /\ After(s) = t
<1> DEFINE s == a \o <<Space>> \o t
           p == Len(a)
           q == Len(t)
<1>1. /\ p \in Nat /\ q \in Nat
      /\ s \in Seq(Byte) /\ Len(s) = p + 1 + q
      /\ \A i \in 1 .. p : s[i] = a[i] /\ s[i] \in Digit
      /\ s[p + 1] = Space
      /\ \A i \in 1 .. q : s[p + 1 + i] = t[i]
  BY Separating, LenProperties
<1> HIDE DEF s
<1>2. Leading(s) = p
  <2>1. /\ p \in 0 .. Len(s)
        /\ \A i \in 1 .. p : s[i] \in Digit
        /\ p < Len(s) => s[p + 1] \notin Digit
    BY <1>1, DigitsAreBytes
  <2> HIDE DEF p
  <2> QED
    BY <1>1, <2>1, LeadingIs
<1>3. Separated(s)
  BY <1>1, <1>2 DEF Separated
<1>4. SubSeq(s, 1, p) = a
  <2>1. \A i \in 1 .. p : s[i] \in Digit
    BY <1>1
  <2>2. SubSeq(s, 1, p) \in Seq(Digit) /\ Len(SubSeq(s, 1, p)) = p
        /\ \A i \in 1 .. p : SubSeq(s, 1, p)[i] = s[i]
    BY <1>1, <2>1, SubSeqProperties
  <2> QED
    BY <1>1, <2>2, SeqEqual
<1>5. SubSeq(s, p + 2, p + 1 + q) = t
  <2> DEFINE u == SubSeq(s, p + 2, p + 1 + q)
  <2>1. \A i \in p + 2 .. p + 1 + q : s[i] \in Byte
    BY <1>1, ElementOfSeq
  <2>2. u \in Seq(Byte) /\ Len(u) = q
    BY <1>1, <2>1, SubSeqProperties
  <2>3. \A i \in 1 .. q : u[i] = t[i]
    BY <1>1
  <2> QED
    BY <2>2, <2>3, SeqEqual
<1> QED
  BY <1>1, <1>2, <1>3, <1>4, <1>5 DEF After, s

LEMMA Joined ==
  ASSUME NEW s \in Seq(Byte), NEW t \in Seq(Byte)
  PROVE  s \o t \in Seq(Byte)
  BY ConcatProperties

LEMMA Together ==
  ASSUME NEW s \in Seq(Byte), NEW t \in Seq(Byte), NEW u \in Seq(Byte)
  PROVE  (s \o t) \o u = s \o (t \o u)
<1>1. /\ s \o t \in Seq(Byte) /\ t \o u \in Seq(Byte)
      /\ (s \o t) \o u \in Seq(Byte) /\ s \o (t \o u) \in Seq(Byte)
  BY Joined
<1>2. Len((s \o t) \o u) = Len(s \o (t \o u))
  BY <1>1
<1>3. \A i \in 1 .. Len((s \o t) \o u) : ((s \o t) \o u)[i] = (s \o (t \o u))[i]
  BY <1>1
<1> QED
  BY <1>1, <1>2, <1>3, SeqEqual

LEMMA Cancelled ==
  ASSUME NEW s \in Seq(Byte), NEW t \in Seq(Byte), NEW u \in Seq(Byte), s \o t = s \o u
  PROVE  t = u
<1>1. Len(t) = Len(u)
  OBVIOUS
<1>2. \A i \in 1 .. Len(t) : t[i] = (s \o t)[Len(s) + i] /\ u[i] = (s \o u)[Len(s) + i]
  BY <1>1
<1>3. \A i \in 1 .. Len(t) : t[i] = u[i]
  BY <1>2
<1> QED
  BY <1>1, <1>3, SeqEqual

(* A read that ends among the digits, and one that goes past them. *)
AmongDigits(bytes, rest, a, t) ==
  \E b \in Seq(Digit) : a = bytes \o b /\ rest = b \o <<Space>> \o t
PastDigits(bytes, rest, a, t) ==
  \E u \in Seq(Byte) : bytes = a \o <<Space>> \o u /\ t = u \o rest

LEMMA CutShort ==
  ASSUME NEW bytes \in Seq(Byte), NEW rest \in Seq(Byte), NEW a \in Seq(Digit),
         NEW t \in Seq(Byte), bytes \o rest = a \o <<Space>> \o t, Len(bytes) <= Len(a)
  PROVE  bytes \in Seq(Digit) /\ AmongDigits(bytes, rest, a, t)
<1> DEFINE k == Len(bytes)
           p == Len(a)
           whole == a \o <<Space>> \o t
           b == SubSeq(a, k + 1, p)
<1>1. /\ k \in Nat /\ p \in Nat /\ a \in Seq(Byte) /\ <<Space>> \in Seq(Byte)
      /\ \A i \in 1 .. p : whole[i] = a[i] /\ a[i] \in Digit
  BY LenProperties, DigitsAreBytes, Separating, ElementOfSeq
<1>2. \A i \in 1 .. k : bytes[i] = (bytes \o rest)[i]
  OBVIOUS
<1>3. \A i \in 1 .. k : bytes[i] = a[i] /\ a[i] \in Digit
  BY <1>1, <1>2
<1>4. SubSeq(a, 1, k) \in Seq(Digit) /\ b \in Seq(Digit)
  <2>1. \A i \in k + 1 .. p : a[i] \in Digit
    BY <1>1
  <2> QED
    BY <1>1, <1>3, <2>1, SubSeqProperties
<1>5. bytes = SubSeq(a, 1, k)
  <2>1. SubSeq(a, 1, k) \in Seq(Byte) /\ Len(SubSeq(a, 1, k)) = k
        /\ \A i \in 1 .. k : SubSeq(a, 1, k)[i] = a[i]
    BY <1>1, <1>4, DigitsAreBytes
  <2> QED
    BY <1>3, <2>1, SeqEqual
<1>6. a = bytes \o b
  <2>1. 1 \in 1 .. p + 1 /\ k \in 1 - 1 .. p /\ p \in k .. p
    BY <1>1
  <2>2. SubSeq(a, 1, k) \o SubSeq(a, k + 1, p) = SubSeq(a, 1, p)
    BY <2>1, ConcatAdjacentSubSeq
  <2> QED
    BY <1>5, <2>2, SubSeqFull
<1>7. rest = b \o <<Space>> \o t
  <2>1. b \in Seq(Byte)
    BY <1>4, DigitsAreBytes
  <2> HIDE DEF b
  <2>2. b \o <<Space>> \in Seq(Byte) /\ b \o <<Space>> \o t \in Seq(Byte)
    BY <1>1, <2>1, Joined
  <2>3. (bytes \o b) \o <<Space>> = bytes \o (b \o <<Space>>)
    BY <1>1, <2>1, Together
  <2>4. (bytes \o (b \o <<Space>>)) \o t = bytes \o (b \o <<Space>> \o t)
    BY <2>2, Together
  <2>5. bytes \o rest = bytes \o (b \o <<Space>> \o t)
    BY <1>6, <2>3, <2>4
  <2> QED
    BY <2>2, <2>5, Cancelled
<1> QED
  BY <1>4, <1>5, <1>6, <1>7 DEF AmongDigits

LEMMA CutLong ==
  ASSUME NEW bytes \in Seq(Byte), NEW rest \in Seq(Byte), NEW a \in Seq(Digit),
         NEW t \in Seq(Byte), bytes \o rest = a \o <<Space>> \o t, Len(bytes) > Len(a)
  PROVE  PastDigits(bytes, rest, a, t)
<1> DEFINE k == Len(bytes)
           p == Len(a)
           c == a \o <<Space>>
           u == SubSeq(bytes, p + 2, k)
<1>1. /\ k \in Nat /\ p \in Nat /\ k >= p + 1
      /\ c \in Seq(Byte) /\ Len(c) = p + 1
      /\ \A i \in 1 .. k : bytes[i] \in Byte
  <2>1. a \in Seq(Byte) /\ <<Space>> \in Seq(Byte) /\ Len(<<Space>>) = 1
    BY DigitsAreBytes
  <2> QED
    BY <2>1, LenProperties, ConcatProperties, ElementOfSeq
<1>2. \A i \in 1 .. p + 1 : bytes[i] = c[i]
  <2>1. \A i \in 1 .. p + 1 : (bytes \o rest)[i] = bytes[i]
    BY <1>1
  <2> HIDE DEF c
  <2>2. \A i \in 1 .. p + 1 : (c \o t)[i] = c[i]
    BY <1>1
  <2> QED
    BY <2>1, <2>2 DEF c
<1>3. SubSeq(bytes, 1, p + 1) = c
  <2> HIDE DEF c
  <2>1. \A i \in 1 .. p + 1 : bytes[i] \in Byte
    BY <1>1
  <2>2. SubSeq(bytes, 1, p + 1) \in Seq(Byte) /\ Len(SubSeq(bytes, 1, p + 1)) = p + 1
        /\ \A i \in 1 .. p + 1 : SubSeq(bytes, 1, p + 1)[i] = bytes[i]
    BY <1>1, <2>1, SubSeqProperties
  <2> QED
    BY <1>1, <1>2, <2>2, SeqEqual
<1>4. u \in Seq(Byte)
  <2>1. \A i \in p + 2 .. k : bytes[i] \in Byte
    BY <1>1
  <2> QED
    BY <1>1, <2>1, SubSeqProperties
<1>5. bytes = c \o u
  <2>1. 1 \in 1 .. k + 1 /\ p + 1 \in 1 - 1 .. k /\ k \in p + 1 .. k
    BY <1>1
  <2>2. SubSeq(bytes, 1, p + 1) \o SubSeq(bytes, (p + 1) + 1, k) = SubSeq(bytes, 1, k)
    BY <2>1, ConcatAdjacentSubSeq
  <2>3. (p + 1) + 1 = p + 2
    BY <1>1
  <2> QED
    BY <1>3, <2>2, <2>3, SubSeqFull
<1> HIDE DEF c, u
<1>6. t = u \o rest
  <2>0. c \in Seq(Byte) /\ u \in Seq(Byte) /\ u \o rest \in Seq(Byte)
    BY <1>1, <1>4, Joined
  <2>1. (c \o u) \o rest = c \o (u \o rest)
    BY <2>0, Together
  <2>2. c \o t = c \o (u \o rest)
    BY <1>5, <2>1 DEF c
  <2> QED
    BY <2>0, <2>2, Cancelled
<1>7. bytes = a \o <<Space>> \o u
  BY <1>5 DEF c
<1> QED
  BY <1>4, <1>6, <1>7 DEF PastDigits

-----------------------------------------------------------------------------
(* The types, and what is taken in short. *)

LEMMA LeadingType ==
  ASSUME NEW s \in Seq(Byte)
  PROVE  /\ Leading(s) \in 0 .. Len(s)
         /\ \A i \in 1 .. Leading(s) : s[i] \in Digit
<1> DEFINE T == {n \in 0 .. Len(s) : n < Len(s) => s[n + 1] \notin Digit}
<1>1. T \in SUBSET Nat /\ Len(s) \in T /\ Len(s) \in Nat
  BY LenProperties
<1>2. PICK k \in T : \A y \in T : k <= y
  BY <1>1, Least
<1>3. \A i \in 1 .. k : s[i] \in Digit
  <2> TAKE i \in 1 .. k
  <2>1. i - 1 \in 0 .. Len(s) /\ i - 1 < k
    BY <1>1, <1>2
  <2>2. k \in Nat /\ ~(k <= i - 1)
    BY <1>1, <1>2, <2>1
  <2>3. i - 1 \notin T
    BY <1>2, <2>2
  <2> QED
    BY <2>1, <2>3
<1>4. \E n \in 0 .. Len(s) :
        /\ \A i \in 1 .. n : s[i] \in Digit
        /\ n < Len(s) => s[n + 1] \notin Digit
  BY <1>2, <1>3
<1> QED
  BY <1>4 DEF Leading

LEMMA NumberInType ==
  ASSUME size \in Size, NEW bytes \in Seq(Byte)
  PROVE  NumberIn(bytes) \in Size
<1>1. Len(bytes) \in Nat /\ Leading(bytes) \in 0 .. Len(bytes)
      /\ \A i \in 1 .. Leading(bytes) : bytes[i] \in Digit
  BY LeadingType, LenProperties
<1>2. SubSeq(bytes, 1, Leading(bytes)) \in Seq(Digit)
  BY <1>1, SubSeqProperties
<1> QED
  BY <1>2, NumberType DEF NumberIn

LEMMA AfterType ==
  ASSUME NEW bytes \in Seq(Byte)
  PROVE  After(bytes) \in Seq(Byte)
<1>1. Len(bytes) \in Nat /\ Leading(bytes) \in 0 .. Len(bytes)
      /\ \A i \in 1 .. Len(bytes) : bytes[i] \in Byte
  BY LeadingType, LenProperties, ElementOfSeq
<1>2. \A i \in Leading(bytes) + 2 .. Len(bytes) : bytes[i] \in Byte
  BY <1>1
<1> QED
  BY <1>1, <1>2, SubSeqProperties DEF After

LEMMA UptoType ==
  ASSUME NEW n \in Nat, NEW text \in Seq(Byte)
  PROVE  /\ Upto(n, text) \in Seq(Byte)
         /\ Len(Upto(n, text)) <= n
         /\ Len(text) <= n => Upto(n, text) = text
<1>1. Len(text) \in Nat /\ \A i \in 1 .. Len(text) : text[i] \in Byte
  BY LenProperties, ElementOfSeq
<1> DEFINE k == IF Len(text) < n THEN Len(text) ELSE n
<1>2. k \in Nat /\ k <= n /\ k <= Len(text) /\ (Len(text) <= n => k = Len(text))
  BY <1>1
<1>3. Upto(n, text) = SubSeq(text, 1, k)
  BY DEF Upto
<1> HIDE DEF k
<1>4. \A i \in 1 .. k : text[i] \in Byte
  BY <1>1, <1>2
<1>5. SubSeq(text, 1, k) \in Seq(Byte) /\ Len(SubSeq(text, 1, k)) = k
  BY <1>2, <1>4, SubSeqProperties
<1> QED
  BY <1>2, <1>3, <1>5, SubSeqFull

InputOK ==
  /\ kind \in Kind /\ phase \in Phase
  /\ size \in Size /\ taken \in Seq(Byte)
  /\ left \in 0 .. MaxFiles
  /\ kind # "request" /\ phase # "closed" => left > 0

ClientOK ==
  /\ patient \in BOOLEAN /\ said \in Seq(Message) /\ expects \in Kind \cup {"none"}
  /\ writes \in Seq(Kind) /\ garbled \in BOOLEAN

HeardOK == heard \in Seq(Message)

Types == InputOK /\ ClientOK /\ HeardOK /\ stream \in Seq(Byte) /\ open \in BOOLEAN

LEMMA TypesAreOK == Types => TypeOK
  BY DEF Types, InputOK, ClientOK, HeardOK, TypeOK, Size

LEMMA ReplyTypes ==
  ASSUME ClientOK, NEW next \in Kind, Reply(next)
  PROVE  ClientOK'
<1>1. garbled' \in BOOLEAN
  BY DEF Reply
<1>2. patient' = patient /\ said' = said
  BY DEF Reply
<1>3. \/ expects' = next /\ writes' = writes
      \/ writes' = Append(writes, next) /\ expects' = expects
      \/ writes' = writes /\ expects' = expects
  BY DEF Reply
<1>4. expects \in Kind \cup {"none"} /\ writes \in Seq(Kind) /\ Append(writes, next) \in Seq(Kind)
  BY AppendProperties DEF ClientOK
<1>5. expects' \in Kind \cup {"none"} /\ writes' \in Seq(Kind)
  BY <1>3, <1>4
<1> QED
  BY <1>1, <1>2, <1>5 DEF ClientOK

LEMMA SilentTypes ==
  ASSUME ClientOK, Silent
  PROVE  ClientOK'
  BY DEF ClientOK, Silent, client, output

LEMMA HearTypes ==
  ASSUME HeardOK, kind \in Kind, NEW n \in Size, NEW text \in Seq(Byte), Hear(n, text)
  PROVE  HeardOK'
<1> DEFINE m == [kind |-> kind, size |-> n, text |-> text]
<1>1. m \in Message
  BY WireAssumption DEF Message, Size
<1>2. heard \in Seq(Message) /\ heard' = Append(heard, m)
  BY DEF HeardOK, Hear
<1> HIDE DEF m
<1> QED
  BY <1>1, <1>2, AppendProperties DEF HeardOK

LEMMA ContinueTypes ==
  ASSUME InputOK, HeardOK, phase # "closed", NEW where \in {"number", "text"}, NEW n \in Size,
         NEW text \in Seq(Byte), Continue(where, n, text)
  PROVE  InputOK' /\ HeardOK'
  BY DEF InputOK, HeardOK, Continue, Phase

LEMMA AwaitTypes ==
  ASSUME NEW k \in Kind, Await(k), left' \in 0 .. MaxFiles, k # "request" => left' > 0
  PROVE  InputOK'
  BY WireAssumption DEF InputOK, Await, Phase, Size

LEMMA LeaveTypes ==
  ASSUME InputOK, Leave
  PROVE  InputOK'
  BY WireAssumption DEF InputOK, Leave, Phase, Size

LEMMA RequestReceivedTypes ==
  ASSUME InputOK, ClientOK, HeardOK, kind = "request", phase # "closed",
         NEW n \in Size, NEW text \in Seq(Byte), RequestReceived(n, text)
  PROVE  InputOK' /\ ClientOK' /\ HeardOK'
<1>1. CASE Len(text) < n /\ Continue("text", n, text) /\ Silent
  BY <1>1, ContinueTypes, SilentTypes
<1>2. CASE Len(text) >= n /\ Hear(n, text) /\ ExecuteRequest
  <2>1. HeardOK'
    BY <1>2, HearTypes DEF InputOK
  <2>2. CASE Reply("request") /\ kind' = kind /\ phase' = "welcome" /\ size' = 0
             /\ taken' = <<>> /\ UNCHANGED left
    <3>1. ClientOK'
      BY <2>2, ReplyTypes DEF Kind
    <3>2. InputOK'
      BY <2>2, WireAssumption DEF InputOK, Phase, Size
    <3> QED
      BY <2>1, <3>1, <3>2
  <2>3. CASE \E k \in 1 .. MaxFiles : Reply("header") /\ Await("header") /\ left' = k
    <3>1. ClientOK'
      BY <2>3, ReplyTypes DEF Kind
    <3>2. Await("header") /\ left' \in 0 .. MaxFiles /\ left' > 0
      BY <2>3, WireAssumption
    <3>3. InputOK'
      BY <3>2, AwaitTypes DEF Kind
    <3> QED
      BY <2>1, <3>1, <3>3
  <2>4. CASE Silent /\ Leave
    BY <2>1, <2>4, SilentTypes, LeaveTypes
  <2> QED
    BY <1>2, <2>2, <2>3, <2>4 DEF ExecuteRequest
<1> QED
  BY <1>1, <1>2 DEF RequestReceived

LEMMA HeaderReceivedTypes ==
  ASSUME InputOK, ClientOK, HeardOK, kind = "header", phase # "closed",
         NEW n \in Size, NEW name \in Seq(Byte), Len(name) <= n, HeaderReceived(n, name)
  PROVE  InputOK' /\ ClientOK' /\ HeardOK'
<1>1. CASE Len(name) < n /\ Continue("text", n, name) /\ Silent
  BY <1>1, ContinueTypes, SilentTypes
<1>2. CASE Len(name) >= n /\ Hear(n, name) /\ UNCHANGED left
           /\ \E k \in Kind : Reply(k) /\ Await(k)
  <2>1. Len(name) = n
    BY <1>2, LenProperties, WireAssumption DEF Size
  <2>2. HeardOK'
    BY <1>2, <2>1, HearTypes DEF InputOK
  <2>3. ClientOK'
    BY <1>2, ReplyTypes
  <2>4. left' \in 0 .. MaxFiles /\ left' > 0
    BY <1>2 DEF InputOK
  <2>5. InputOK'
    BY <1>2, <2>4, AwaitTypes
  <2> QED
    BY <2>2, <2>3, <2>5
<1> QED
  BY <1>1, <1>2 DEF HeaderReceived, Kind

LEMMA LastReplyTypes ==
  ASSUME ClientOK, NEW next \in Kind, LastReply(next)
  PROVE  ClientOK'
<1>1. garbled' \in BOOLEAN /\ patient' = patient /\ said' = said /\ writes' = writes
  BY DEF LastReply
<1>2. expects' = next \/ expects' = expects
  BY DEF LastReply
<1> QED
  BY <1>1, <1>2 DEF ClientOK

LEMMA FileAddedTypes ==
  ASSUME InputOK, kind = "file", phase # "closed", FileAdded
  PROVE  InputOK'
<1>1. CASE left = 1 /\ Leave
  BY <1>1, LeaveTypes
<1>2. CASE left > 1 /\ Await("header") /\ left' = left - 1
  <2>1. left' \in 0 .. MaxFiles /\ left' > 0
    BY <1>2, WireAssumption DEF InputOK
  <2> QED
    BY <1>2, <2>1, AwaitTypes DEF Kind
<1> QED
  BY <1>1, <1>2 DEF FileAdded, LastAdded, NextAdded

(* What the bytes of a read are, and what they leave. *)
LEMMA ArrivalIs ==
  ASSUME stream \in Seq(Byte), NEW bytes \in Arrivals
  PROVE  /\ bytes = SubSeq(stream, 1, Len(bytes)) /\ Len(bytes) \in 1 .. Len(stream)
         /\ bytes \in Seq(Byte) /\ SubSeq(stream, Len(bytes) + 1, Len(stream)) \in Seq(Byte)
         /\ stream = bytes \o SubSeq(stream, Len(bytes) + 1, Len(stream))
<1>1. Len(stream) \in Nat
  BY LenProperties
<1>2. PICK n \in 1 .. Len(stream) : bytes = SubSeq(stream, 1, n)
  BY <1>1, WireAssumption DEF Arrivals
<1>3. Len(bytes) = n
  BY <1>1, <1>2
<1>4. bytes = SubSeq(stream, 1, Len(bytes)) /\ Len(bytes) \in 1 .. Len(stream)
  BY <1>2, <1>3
<1>5. Len(bytes) \in 0 .. Len(stream)
  BY <1>1, <1>4
<1> QED
  BY <1>4, <1>5, Whole

LEMMA ReadTypes ==
  ASSUME Types, NEW bytes \in Arrivals, Read(bytes)
  PROVE  Types'
<1>1. /\ stream \in Seq(Byte) /\ size \in Size /\ taken \in Seq(Byte)
      /\ InputOK /\ ClientOK /\ HeardOK
  BY DEF Types, InputOK
<1>2. bytes \in Seq(Byte) /\ SubSeq(stream, Len(bytes) + 1, Len(stream)) \in Seq(Byte)
  BY <1>1, ArrivalIs
<1>3. NumberIn(bytes) \in Size /\ After(bytes) \in Seq(Byte) /\ taken \o bytes \in Seq(Byte)
  BY <1>1, <1>2, NumberInType, AfterType, Joined
<1>4. <<>> \in Seq(Byte) /\ Size \subseteq Nat
  BY WireAssumption DEF Size
<1>5. stream' \in Seq(Byte) /\ open' \in BOOLEAN
  BY <1>2 DEF Types, Read, Reads, GetRequestSize, GetRequest, GetHeaderSize, GetFileHeader,
              GetFileSize, AddFile, FileAdded, LastAdded, NextAdded
<1> SUFFICES InputOK' /\ ClientOK' /\ HeardOK'
  BY <1>5 DEF Types
<1>6. CASE GetRequestSize(bytes)
  <2>1. kind = "request" /\ phase # "closed"
    BY <1>6 DEF GetRequestSize, Reads
  <2>2. CASE Continue("number", NumberIn(bytes), <<>>) /\ Silent
    BY <1>1, <1>3, <1>4, <2>1, <2>2, ContinueTypes, SilentTypes
  <2>3. CASE RequestReceived(NumberIn(bytes), After(bytes))
    BY <1>1, <1>3, <2>1, <2>3, RequestReceivedTypes
  <2>4. CASE Leave /\ Silent /\ UNCHANGED heard
    BY <1>1, <2>4, LeaveTypes, SilentTypes DEF HeardOK
  <2> QED
    BY <1>6, <2>2, <2>3, <2>4 DEF GetRequestSize
<1>7. CASE GetRequest(bytes)
  <2>1. kind = "request" /\ phase # "closed" /\ RequestReceived(size, Upto(size, taken \o bytes))
    BY <1>7 DEF GetRequest, Reads
  <2>2. Upto(size, taken \o bytes) \in Seq(Byte)
    BY <1>1, <1>3, <1>4, UptoType
  <2> QED
    BY <1>1, <2>1, <2>2, RequestReceivedTypes
<1>8. CASE GetHeaderSize(bytes)
  <2>1. kind = "header" /\ phase # "closed"
    BY <1>8 DEF GetHeaderSize, Reads
  <2>2. CASE Continue("number", NumberIn(bytes), <<>>) /\ Silent
    BY <1>1, <1>3, <1>4, <2>1, <2>2, ContinueTypes, SilentTypes
  <2>3. CASE HeaderReceived(NumberIn(bytes), Upto(NumberIn(bytes), After(bytes)))
    <3>1. /\ Upto(NumberIn(bytes), After(bytes)) \in Seq(Byte)
          /\ Len(Upto(NumberIn(bytes), After(bytes))) <= NumberIn(bytes)
      BY <1>3, <1>4, UptoType
    <3> QED
      BY <1>1, <1>3, <2>1, <2>3, <3>1, HeaderReceivedTypes
  <2> QED
    BY <1>8, <2>2, <2>3 DEF GetHeaderSize
<1>9. CASE GetFileHeader(bytes)
  <2>1. kind = "header" /\ phase # "closed" /\ HeaderReceived(size, Upto(size, taken \o bytes))
    BY <1>9 DEF GetFileHeader, Reads
  <2>2. Upto(size, taken \o bytes) \in Seq(Byte) /\ Len(Upto(size, taken \o bytes)) <= size
    BY <1>1, <1>3, <1>4, UptoType
  <2> QED
    BY <1>1, <2>1, <2>2, HeaderReceivedTypes
<1>10. CASE GetFileSize(bytes)
  <2>1. kind = "file" /\ phase # "closed"
    BY <1>10 DEF GetFileSize, Reads
  <2>2. CASE Continue("number", NumberIn(bytes), <<>>) /\ Silent
    BY <1>1, <1>3, <1>4, <2>1, <2>2, ContinueTypes, SilentTypes
  <2>3. CASE Continue("text", NumberIn(bytes), After(bytes)) /\ Silent
    BY <1>1, <1>3, <2>1, <2>3, ContinueTypes, SilentTypes
  <2>4. CASE Len(After(bytes)) >= NumberIn(bytes) /\ Hear(NumberIn(bytes), After(bytes))
             /\ Silent /\ FileAdded
    <3>1. kind \in Kind /\ kind # "header"
      BY <2>1 DEF Kind
    <3>2. HeardOK'
      BY <1>1, <1>3, <2>4, <3>1, HearTypes
    <3> QED
      BY <1>1, <2>1, <2>4, <3>2, SilentTypes, FileAddedTypes
  <2> QED
    BY <1>10, <2>2, <2>3, <2>4 DEF GetFileSize
<1>11. CASE AddFile(bytes)
  <2>1. kind = "file" /\ phase # "closed"
    BY <1>11 DEF AddFile, Reads
  <2>2. CASE Continue("text", size, taken \o bytes) /\ Silent
    BY <1>1, <1>3, <2>1, <2>2, ContinueTypes, SilentTypes
  <2>3. CASE Len(taken \o bytes) = size /\ Hear(size, taken \o bytes)
             /\ (Reply("header") \/ LastReply("header")) /\ FileAdded
    <3>1. kind \in Kind /\ "header" \in Kind
      BY <2>1 DEF Kind
    <3>2. HeardOK'
      BY <1>1, <1>3, <2>3, <3>1, HearTypes
    <3> QED
      BY <1>1, <2>1, <2>3, <3>1, <3>2, ReplyTypes, LastReplyTypes, FileAddedTypes
  <2> QED
    BY <1>11, <2>2, <2>3 DEF AddFile, FileAdded
<1> QED
  BY <1>6, <1>7, <1>8, <1>9, <1>10, <1>11 DEF Read

LEMMA SayTypes ==
  ASSUME Types, NEW k \in Kind, NEW digits \in Numeral, NEW text \in Text, Say(k, digits, text)
  PROVE  Types'
<1>1. digits \in Seq(Digit) /\ text \in Seq(Byte)
  BY WireAssumption
<1>2. Number(0, digits) \in Size /\ Size \subseteq Nat
  BY <1>1, NumberType, WireAssumption DEF Size
<1> DEFINE m == [kind |-> k, size |-> Number(0, digits), text |-> text]
<1>3. m \in Message
  BY <1>1, <1>2 DEF Message
<1>4. said' \in Seq(Message)
  <2> HIDE DEF m
  <2>1. said' = Append(said, m) /\ said \in Seq(Message)
    BY DEF Say, Types, ClientOK, m
  <2> QED
    BY <1>3, <2>1, AppendProperties
<1>5. stream' \in Seq(Byte)
  <2>1. digits \in Seq(Byte) /\ <<Space>> \in Seq(Byte) /\ stream \in Seq(Byte)
    BY <1>1, DigitsAreBytes DEF Types
  <2>2. stream \o digits \in Seq(Byte)
    BY <2>1, Joined
  <2>3. stream \o digits \o <<Space>> \in Seq(Byte)
    BY <2>1, <2>2, Joined
  <2>4. stream \o digits \o <<Space>> \o text \in Seq(Byte)
    BY <1>1, <2>3, Joined
  <2> QED
    BY <2>4 DEF Say
<1>6. ClientOK'
  BY <1>4 DEF Say, Types, ClientOK, output
<1>7. InputOK' /\ HeardOK' /\ open' \in BOOLEAN
  BY DEF Say, Types, InputOK, HeardOK, input
<1> QED
  BY <1>5, <1>6, <1>7 DEF Types

LEMMA NextTypes ==
  ASSUME Types, [Next]_vars
  PROVE  Types'
<1>1. CASE \E k \in Kind, digits \in Numeral, text \in Text : Say(k, digits, text)
  BY <1>1, SayTypes
<1>3. CASE SocketTakes
  <2>1. writes \in Seq(Kind) /\ writes # <<>>
    BY <1>3 DEF SocketTakes, Types, ClientOK
  <2>2. Head(writes) \in Kind /\ Tail(writes) \in Seq(Kind)
    BY <2>1
  <2>3. ClientOK'
    BY <1>3, <2>2 DEF SocketTakes, Types, ClientOK
  <2>4. InputOK' /\ HeardOK' /\ stream' \in Seq(Byte) /\ open' \in BOOLEAN
    BY <1>3 DEF SocketTakes, Types, InputOK, HeardOK, input
  <2> QED
    BY <2>3, <2>4 DEF Types
<1>4. CASE \E bytes \in Arrivals : Read(bytes)
  BY <1>4, ReadTypes
<1>5. CASE Welcomed
  <2>1. Await("request") /\ left' \in 0 .. MaxFiles /\ "request" \in Kind
    BY <1>5 DEF Welcomed, Types, InputOK, Kind
  <2>2. InputOK'
    BY <2>1, AwaitTypes
  <2>3. ClientOK' /\ HeardOK' /\ stream' \in Seq(Byte) /\ open' \in BOOLEAN
    BY <1>5 DEF Welcomed, Types, ClientOK, HeardOK, client, output
  <2> QED
    BY <2>2, <2>3 DEF Types
<1>6. CASE PeerGone \/ SocketClosed
  <2>1. InputOK'
    BY <1>6, LeaveTypes DEF PeerGone, SocketClosed, Types
  <2>2. UNCHANGED <<patient, said, expects, writes, garbled, heard>>
        /\ stream' = <<>> /\ open' \in {open, FALSE}
    BY <1>6 DEF PeerGone, SocketClosed, client, output
  <2>3. ClientOK'
    BY <2>2 DEF Types, ClientOK
  <2>4. HeardOK'
    BY <2>2 DEF Types, HeardOK
  <2>5. stream' \in Seq(Byte)
    BY <2>2
  <2>6. open' \in BOOLEAN
    BY <2>2 DEF Types
  <2> QED
    BY <2>1, <2>3, <2>4, <2>5, <2>6 DEF Types
<1>7. CASE UNCHANGED vars
  BY <1>7 DEF vars, Types, InputOK, ClientOK, HeardOK
<1> QED
  BY <1>1, <1>3, <1>4, <1>5, <1>6, <1>7 DEF Next, Server

LEMMA InitTypes ==
  ASSUME Init
  PROVE  Types
<1>1. <<>> \in Seq(Byte) /\ <<>> \in Seq(Message) /\ <<>> \in Seq(Kind) /\ Len(<<>>) = 0
  OBVIOUS
<1>2. InputOK
  <2>1. size \in Size /\ left \in 0 .. MaxFiles
    BY WireAssumption DEF Init, Size
  <2> QED
    BY <1>1, <2>1 DEF Init, InputOK, Kind, Phase
<1>3. ClientOK
  <2>1. patient \in BOOLEAN /\ garbled \in BOOLEAN
    BY DEF Init
  <2>2. said \in Seq(Message) /\ writes \in Seq(Kind) /\ expects \in Kind
    BY <1>1 DEF Init, Kind
  <2> QED
    BY <2>1, <2>2 DEF ClientOK
<1>4. HeardOK
  <2>1. heard \in Seq(Message) /\ Len(heard) = 0
    BY <1>1 DEF Init
  <2> QED
    BY <2>1 DEF HeardOK
<1> QED
  BY <1>1, <1>2, <1>3, <1>4 DEF Init, Types

(* The types of Wire, for texts and reads of any length. *)
THEOREM WireTypes == Spec => []TypeOK
  BY InitTypes, NextTypes, TypesAreOK, PTL DEF Spec

-----------------------------------------------------------------------------
(* A client that waits: the server has nothing of it, is in the number of  *)
(* its last message or in the text of it, or listens no more.              *)

Latest(m) ==
  /\ said = Append(heard, m)
  /\ m.kind = kind /\ m.size = Len(m.text)
  /\ expects = "none" /\ writes = <<>>

Ready ==
  /\ said = heard /\ stream = <<>> /\ size = 0
  /\ phase = "number" \/ (phase = "welcome" /\ kind = "request")
  /\ \/ writes = <<>> /\ expects = kind
     \/ writes = <<kind>> /\ expects = "none"
     \/ writes = <<>> /\ expects = "none" /\ (open => kind = "header")

Ahead(m) == \E b \in Seq(Digit) : stream = b \o <<Space>> \o m.text /\ Number(size, b) = m.size

InNumber(m) ==
  /\ Latest(m) /\ Ahead(m)
  /\ phase = "number" \/ (phase = "welcome" /\ kind = "request" /\ size = 0)

InText(m) ==
  /\ Latest(m)
  /\ phase = "text" /\ size = m.size
  /\ taken \o stream = m.text /\ Len(taken) < size

Agreed == said = heard \/ \E m \in Message : said = Append(heard, m)
Over == phase = "closed" /\ Agreed

Listening == Ready \/ (\E m \in Message : InNumber(m) \/ InText(m)) \/ Over
Waits == patient => ~garbled /\ Listening

LEMMA AgreedIs ==
  ASSUME Types, Agreed
  PROVE  /\ Len(heard) \in {Len(said) - 1, Len(said)}
         /\ heard = SubSeq(said, 1, Len(heard))
<1>1. heard \in Seq(Message) /\ said \in Seq(Message) /\ Len(heard) \in Nat
  BY LenProperties DEF Types, HeardOK, ClientOK
<1>2. CASE said = heard
  BY <1>1, <1>2, SubSeqFull
<1>3. ASSUME NEW m \in Message, said = Append(heard, m)
      PROVE  Len(heard) = Len(said) - 1 /\ heard = SubSeq(said, 1, Len(heard))
  <2> DEFINE n == Len(heard)
  <2>1. Len(said) = n + 1 /\ \A i \in 1 .. n : said[i] = heard[i] /\ said[i] \in Message
    BY <1>1, <1>3, ElementOfSeq
  <2>2. SubSeq(said, 1, n) \in Seq(Message) /\ Len(SubSeq(said, 1, n)) = n
        /\ \A i \in 1 .. n : SubSeq(said, 1, n)[i] = said[i]
    BY <1>1, <2>1, SubSeqProperties
  <2> QED
    BY <1>1, <2>1, <2>2, SeqEqual
<1> QED
  BY <1>2, <1>3 DEF Agreed

LEMMA ListeningAgrees == Listening => Agreed
  BY DEF Listening, Ready, InNumber, InText, Latest, Over, Agreed

LEMMA WaitsAgrees ==
  ASSUME Types, Waits
  PROVE  HeardAsSaid /\ RepliesIntact
  BY AgreedIs, ListeningAgrees DEF Waits, HeardAsSaid, RepliesIntact

(* The bytes of a text that have come, and those that have not. *)
LEMMA PartOrWhole ==
  ASSUME NEW t \in Seq(Byte), NEW u \in Seq(Byte), NEW rest \in Seq(Byte), t = u \o rest
  PROVE  /\ Len(u) <= Len(t)
         /\ Len(u) >= Len(t) => rest = <<>> /\ u = t
         /\ Len(u) < Len(t) => rest # <<>>
<1>1. Len(t) = Len(u) + Len(rest) /\ Len(u) \in Nat /\ Len(rest) \in Nat
  BY LenProperties
<1>2. ASSUME Len(u) >= Len(t) PROVE rest = <<>> /\ u = t
  <2>1. Len(rest) = 0
    BY <1>1, <1>2
  <2>2. rest = <<>>
    BY <2>1
  <2> QED
    BY <2>2
<1>3. Len(<<>>) = 0
  OBVIOUS
<1> QED
  BY <1>1, <1>2, <1>3

(* A read in the number of a message: it ends there, or reaches the text.  *)
LEMMA ReadNumber ==
  ASSUME Types, NEW m \in Message, Ahead(m), NEW bytes \in Arrivals,
         stream' = SubSeq(stream, Len(bytes) + 1, Len(stream))
  PROVE  \/ /\ ~Separated(bytes)
            /\ \E b \in Seq(Digit) : /\ stream' = b \o <<Space>> \o m.text
                                     /\ Number(NumberIn(bytes), b) = m.size
         \/ /\ Separated(bytes)
            /\ NumberIn(bytes) = m.size
            /\ m.text = After(bytes) \o stream'
<1>1. stream \in Seq(Byte) /\ size \in Size /\ m.text \in Seq(Byte)
  BY DEF Types, InputOK, Message
<1>2. bytes \in Seq(Byte) /\ stream' \in Seq(Byte) /\ stream = bytes \o stream'
  BY <1>1, ArrivalIs
<1>3. PICK a \in Seq(Digit) : stream = a \o <<Space>> \o m.text /\ Number(size, a) = m.size
  BY DEF Ahead
<1> DEFINE t == m.text
           rest == stream'
<1>4. /\ bytes \in Seq(Byte) /\ rest \in Seq(Byte) /\ t \in Seq(Byte)
      /\ bytes \o rest = a \o <<Space>> \o t
  BY <1>1, <1>2, <1>3
<1>7. Len(bytes) <= Len(a) \/ Len(bytes) > Len(a)
  <2>1. Len(bytes) \in Nat /\ Len(a) \in Nat
    BY <1>4, LenProperties
  <2> QED
    BY <2>1
<1>5. CASE Len(bytes) <= Len(a)
  <2> HIDE DEF t, rest
  <2>1. bytes \in Seq(Digit) /\ AmongDigits(bytes, rest, a, t)
    BY <1>4, <1>5, CutShort
  <2> USE DEF t, rest
  <2>2. PICK b \in Seq(Digit) : a = bytes \o b /\ stream' = b \o <<Space>> \o m.text
    BY <2>1 DEF AmongDigits
  <2>3. ~Separated(bytes) /\ NumberIn(bytes) = Number(size, bytes)
    BY <2>1, DigitsOnly DEF NumberIn
  <2>4. Number(Number(size, bytes), b) = m.size
    BY <1>1, <1>3, <2>1, <2>2, NumberComposes
  <2> QED
    BY <2>2, <2>3, <2>4
<1>6. CASE Len(bytes) > Len(a)
  <2> HIDE DEF t, rest
  <2>5. PastDigits(bytes, rest, a, t)
    BY <1>4, <1>6, CutLong
  <2> USE DEF t, rest
  <2>1. PICK u \in Seq(Byte) : bytes = a \o <<Space>> \o u /\ m.text = u \o stream'
    BY <2>5 DEF PastDigits
  <2>2. Separated(bytes) /\ SubSeq(bytes, 1, Leading(bytes)) = a /\ After(bytes) = u
    BY <2>1, NumberAndText
  <2> QED
    BY <1>3, <2>1, <2>2 DEF NumberIn
<1> QED
  BY <1>5, <1>6, <1>7

(* What the server does with the last of a message. *)

LEMMA Taken ==
  ASSUME NEW m \in Message, Latest(m), Hear(m.size, m.text)
  PROVE  heard' = said
<1>1. m = [kind |-> kind, size |-> m.size, text |-> m.text]
  BY DEF Message, Latest
<1>2. said = Append(heard, m) /\ heard' = Append(heard, [kind |-> kind, size |-> m.size, text |-> m.text])
  BY DEF Latest, Hear
<1> QED
  BY <1>1, <1>2

LEMMA LeftOver ==
  ASSUME Leave, said' = said, heard' = said \/ (Agreed /\ heard' = heard)
  PROVE  Over'
  BY DEF Leave, Over, Agreed

LEMMA MoreNumber ==
  ASSUME NEW m \in Message, Latest(m), NEW n, Continue("number", n, <<>>), Silent,
         NEW b \in Seq(Digit), stream' = b \o <<Space>> \o m.text, Number(n, b) = m.size
  PROVE  InNumber(m)'
<1>1. Latest(m)' /\ phase' = "number" /\ size' = n
  BY DEF Latest, Continue, Silent, client, output
<1>2. Ahead(m)'
  BY <1>1 DEF Ahead
<1> QED
  BY <1>1, <1>2 DEF InNumber

LEMMA MoreText ==
  ASSUME NEW m \in Message, Latest(m), NEW u \in Seq(Byte), Continue("text", m.size, u), Silent,
         u \o stream' = m.text, Len(u) < m.size
  PROVE  InText(m)'
<1>1. Latest(m)' /\ phase' = "text" /\ size' = m.size /\ taken' = u
  BY DEF Latest, Continue, Silent, client, output
<1> QED
  BY <1>1 DEF InText

(* A reply that says what the server waits for. *)
LEMMA Invited ==
  ASSUME NEW k \in Kind, expects = "none", writes = <<>>, ~garbled, Reply(k),
         heard' = said, stream' = <<>>, size' = 0, kind' = k,
         phase' = "number" \/ (phase' = "welcome" /\ k = "request"),
         open' => open
  PROVE  ~garbled' /\ said' = said /\ Ready'
<1>1. ~garbled' /\ said' = said
  BY DEF Reply
<1>2. \/ open' /\ writes' = writes /\ expects' = k
      \/ open' /\ writes' = Append(writes, k) /\ expects' = expects
      \/ ~open' /\ writes' = writes /\ expects' = expects
  BY DEF Reply
<1>3. writes = <<>> => Append(writes, k) = <<k>>
  OBVIOUS
<1> QED
  BY <1>1, <1>2, <1>3 DEF Ready

LEMMA RequestReceivedWaits ==
  ASSUME Types, NEW m \in Message, Latest(m), ~garbled, kind = "request",
         NEW u \in Seq(Byte), u \o stream' = m.text, stream' \in Seq(Byte),
         RequestReceived(m.size, u), open' => open
  PROVE  ~garbled' /\ Listening'
<1>1. /\ m.text \in Seq(Byte) /\ m.size = Len(m.text)
      /\ expects = "none" /\ writes = <<>>
  BY DEF Message, Latest
<1>2. CASE Len(u) < m.size /\ Continue("text", m.size, u) /\ Silent
  <2>1. InText(m)'
    BY <1>2, MoreText
  <2>2. ~garbled'
    BY <1>2 DEF Silent, output
  <2> QED
    BY <2>1, <2>2 DEF Listening
<1>3. CASE Len(u) >= m.size /\ Hear(m.size, u) /\ ExecuteRequest
  <2>1. stream' = <<>> /\ u = m.text
    BY <1>1, <1>3, PartOrWhole
  <2>2. heard' = said
    BY <1>3, <2>1, Taken
  <2>3. ASSUME NEW k \in Kind, Reply(k), size' = 0, kind' = k,
               phase' = "number" \/ (phase' = "welcome" /\ k = "request")
        PROVE  ~garbled' /\ Listening'
    BY <1>1, <2>1, <2>2, <2>3, Invited DEF Listening
  <2>4. CASE Reply("request") /\ kind' = kind /\ phase' = "welcome" /\ size' = 0 /\ taken' = <<>>
    BY <2>3, <2>4 DEF Kind
  <2>5. CASE Reply("header") /\ Await("header")
    BY <2>3, <2>5 DEF Kind, Await
  <2>6. CASE Silent /\ Leave
    <3>1. said' = said /\ ~garbled'
      BY <2>6 DEF Silent, client, output
    <3> QED
      BY <2>2, <2>6, <3>1, LeftOver DEF Listening
  <2> QED
    BY <1>3, <2>4, <2>5, <2>6 DEF ExecuteRequest
<1> QED
  BY <1>2, <1>3 DEF RequestReceived

LEMMA HeaderReceivedWaits ==
  ASSUME Types, NEW m \in Message, Latest(m), ~garbled,
         NEW u \in Seq(Byte), u \o stream' = m.text, stream' \in Seq(Byte),
         HeaderReceived(m.size, u), open' => open
  PROVE  ~garbled' /\ Listening'
<1>1. /\ m.text \in Seq(Byte) /\ m.size = Len(m.text)
      /\ expects = "none" /\ writes = <<>>
  BY DEF Message, Latest
<1>2. CASE Len(u) < m.size /\ Continue("text", m.size, u) /\ Silent
  <2>1. InText(m)'
    BY <1>2, MoreText
  <2>2. ~garbled'
    BY <1>2 DEF Silent, output
  <2> QED
    BY <2>1, <2>2 DEF Listening
<1>3. CASE Len(u) >= m.size /\ Hear(m.size, u) /\ \E k \in Kind : Reply(k) /\ Await(k)
  <2>1. stream' = <<>> /\ u = m.text
    BY <1>1, <1>3, PartOrWhole
  <2>2. heard' = said
    BY <1>3, <2>1, Taken
  <2>3. PICK k \in Kind : Reply(k) /\ Await(k)
    BY <1>3
  <2>4. ~garbled' /\ Ready'
    BY <1>1, <2>1, <2>2, <2>3, Invited DEF Await
  <2> QED
    BY <2>4 DEF Listening
<1> QED
  BY <1>2, <1>3 DEF HeaderReceived, Kind

(* A file ends the connection, or another name is waited for. *)
LEMMA FileAddedWaits ==
  ASSUME NEW m \in Message, Latest(m), ~garbled, heard' = said, stream' = <<>>, kind = "file", open,
         (Silent /\ FileAdded) \/ (Reply("header") /\ NextAdded) \/ (LastReply("header") /\ LastAdded)
  PROVE  ~garbled' /\ Listening'
<1>1. expects = "none" /\ writes = <<>>
  BY DEF Latest
<1>2. said' = said /\ ~garbled'
  <2>1. CASE Silent
    BY <2>1 DEF Silent, client, output
  <2>2. CASE Reply("header")
    BY <1>1, <2>2 DEF Reply
  <2>3. CASE LastReply("header")
    BY <1>1, <2>3 DEF LastReply
  <2> QED
    BY <2>1, <2>2, <2>3
<1>3. CASE LastAdded
  BY <1>2, <1>3, LeftOver DEF Listening, LastAdded
<1>4. CASE NextAdded /\ Silent
  BY <1>1, <1>4, <1>2 DEF Listening, Ready, NextAdded, Await, Silent, client, output
<1>5. CASE NextAdded /\ Reply("header")
  <2>1. ~garbled' /\ Ready'
    BY <1>1, <1>5, Invited DEF NextAdded, Await, Kind
  <2> QED
    BY <2>1 DEF Listening
<1> QED
  BY <1>3, <1>4, <1>5 DEF FileAdded

(* A read of a message. *)

LEMMA NumberWaits ==
  ASSUME Types, ~garbled, NEW m \in Message, InNumber(m), NEW bytes \in Arrivals, Read(bytes)
  PROVE  ~garbled' /\ Listening'
<1>1. /\ Latest(m) /\ Ahead(m) /\ phase \in {"number", "welcome"}
      /\ m.size = Len(m.text) /\ m.text \in Seq(Byte)
      /\ expects = "none" /\ writes = <<>>
  BY DEF InNumber, Latest, Message
<1>2. stream' = SubSeq(stream, Len(bytes) + 1, Len(stream)) /\ bytes \in Seq(Byte)
      /\ stream' \in Seq(Byte) /\ After(bytes) \in Seq(Byte) /\ (open' => open)
  <2>1. bytes \in Seq(Byte) /\ SubSeq(stream, Len(bytes) + 1, Len(stream)) \in Seq(Byte)
    BY ArrivalIs DEF Types
  <2>2. stream' = SubSeq(stream, Len(bytes) + 1, Len(stream)) /\ open
    BY DEF Read, Reads, GetRequestSize, GetRequest, GetHeaderSize, GetFileHeader,
           GetFileSize, AddFile
  <2> QED
    BY <2>1, <2>2, AfterType
<1>3. \/ /\ ~Separated(bytes)
         /\ \E b \in Seq(Digit) : /\ stream' = b \o <<Space>> \o m.text
                                  /\ Number(NumberIn(bytes), b) = m.size
      \/ /\ Separated(bytes)
         /\ NumberIn(bytes) = m.size
         /\ m.text = After(bytes) \o stream'
  BY <1>1, <1>2, ReadNumber
<1>4. CASE ~Separated(bytes)
  <2>1. Continue("number", NumberIn(bytes), <<>>) /\ Silent
    BY <1>1, <1>4 DEF Read, Reads, GetRequestSize, GetRequest, GetHeaderSize, GetFileHeader,
                      GetFileSize, AddFile
  <2>2. InNumber(m)'
    BY <1>1, <1>3, <1>4, <2>1, MoreNumber
  <2>3. ~garbled'
    BY <2>1 DEF Silent, output
  <2> QED
    BY <2>2, <2>3 DEF Listening
<1>5. CASE Separated(bytes)
  <2> DEFINE u == After(bytes)
  <2>1. NumberIn(bytes) = m.size /\ u \in Seq(Byte) /\ u \o stream' = m.text
    BY <1>2, <1>3, <1>5
  <2>7. m.text \in Seq(Byte) /\ stream' \in Seq(Byte) /\ m.text = u \o stream'
    BY <1>1, <1>2, <2>1
  <2> HIDE DEF u
  <2>8. /\ Len(u) <= Len(m.text)
        /\ Len(u) >= Len(m.text) => stream' = <<>> /\ u = m.text
    BY <2>1, <2>7, PartOrWhole
  <2>2. Len(u) <= m.size /\ (Len(u) >= m.size => stream' = <<>> /\ u = m.text)
    BY <1>1, <2>8
  <2>3. Upto(m.size, u) = u
    BY <1>1, <2>1, <2>2, UptoType DEF Message
  <2>4. CASE GetRequestSize(bytes)
    <3>1. kind = "request"
      BY <2>4 DEF GetRequestSize, Reads
    <3>2. CASE RequestReceived(m.size, u)
      BY <1>1, <1>2, <2>1, <3>1, <3>2, RequestReceivedWaits
    <3>3. CASE Leave /\ Silent /\ UNCHANGED heard
      <4>1. Agreed /\ said' = said /\ ~garbled'
        BY <1>1, <3>3 DEF Agreed, Latest, Silent, client, output
      <4> QED
        BY <3>3, <4>1, LeftOver DEF Listening
    <3> QED
      BY <1>5, <2>1, <2>4, <3>2, <3>3 DEF GetRequestSize, u
  <2>5. CASE GetHeaderSize(bytes)
    <3>1. HeaderReceived(m.size, u)
      BY <1>5, <2>1, <2>3, <2>5 DEF GetHeaderSize, u
    <3> QED
      BY <1>1, <1>2, <2>1, <3>1, HeaderReceivedWaits
  <2>6. CASE GetFileSize(bytes)
    <3>1. kind = "file" /\ open
      BY <2>6 DEF GetFileSize, Reads
    <3>2. CASE Len(u) < m.size /\ Continue("text", m.size, u) /\ Silent
      <4>1. InText(m)'
        BY <1>1, <2>1, <3>2, MoreText
      <4>2. ~garbled'
        BY <3>2 DEF Silent, output
      <4> QED
        BY <4>1, <4>2 DEF Listening
    <3>3. CASE Len(u) >= m.size /\ Hear(m.size, u) /\ Silent /\ FileAdded
      <4>1. stream' = <<>> /\ heard' = said
        BY <1>1, <2>2, <3>3, Taken
      <4> QED
        BY <1>1, <3>1, <3>3, <4>1, FileAddedWaits
    <3> QED
      BY <1>5, <2>1, <2>6, <3>2, <3>3 DEF GetFileSize, u
  <2> QED
    BY <1>1, <2>4, <2>5, <2>6 DEF Read, Reads, GetRequest, GetFileHeader, AddFile
<1> QED
  BY <1>4, <1>5

LEMMA TextWaits ==
  ASSUME Types, ~garbled, NEW m \in Message, InText(m), NEW bytes \in Arrivals, Read(bytes)
  PROVE  ~garbled' /\ Listening'
<1>1. /\ Latest(m) /\ phase = "text" /\ size = m.size
      /\ m.size = Len(m.text) /\ m.text \in Seq(Byte) /\ m.size \in Nat
      /\ taken \o stream = m.text /\ taken \in Seq(Byte) /\ stream \in Seq(Byte)
      /\ expects = "none" /\ writes = <<>>
  BY DEF InText, Latest, Message, Types, InputOK
<1>2. stream' = SubSeq(stream, Len(bytes) + 1, Len(stream)) /\ open
  BY <1>1 DEF Read, Reads, GetRequestSize, GetRequest, GetHeaderSize, GetFileHeader,
              GetFileSize, AddFile
<1>3. bytes \in Seq(Byte) /\ stream' \in Seq(Byte) /\ stream = bytes \o stream'
  BY <1>1, <1>2, ArrivalIs
<1> DEFINE u == taken \o bytes
<1>4. u \in Seq(Byte) /\ u \o stream' = m.text
  <2>1. (taken \o bytes) \o stream' = taken \o (bytes \o stream')
    BY <1>1, <1>3, Together
  <2> QED
    BY <1>1, <1>3, <2>1, Joined
<1>5. Len(u) <= m.size /\ (Len(u) >= m.size => stream' = <<>> /\ u = m.text)
  BY <1>1, <1>3, <1>4, PartOrWhole
<1>6. Upto(m.size, u) = u
  BY <1>1, <1>4, <1>5, UptoType
<1> HIDE DEF u
<1>7. CASE GetRequest(bytes)
  <2>1. kind = "request" /\ RequestReceived(m.size, u)
    BY <1>1, <1>6, <1>7 DEF GetRequest, Reads, u
  <2> QED
    BY <1>1, <1>2, <1>3, <1>4, <2>1, RequestReceivedWaits
<1>8. CASE GetFileHeader(bytes)
  <2>1. HeaderReceived(m.size, u)
    BY <1>1, <1>6, <1>8 DEF GetFileHeader, u
  <2> QED
    BY <1>1, <1>2, <1>3, <1>4, <2>1, HeaderReceivedWaits
<1>9. CASE AddFile(bytes)
  <2>1. kind = "file"
    BY <1>9 DEF AddFile, Reads
  <2>2. CASE Len(u) # m.size /\ Continue("text", m.size, u) /\ Silent
    <3>1. Len(u) \in Nat
      BY <1>4, LenProperties
    <3>2. Len(u) < m.size
      BY <1>1, <1>5, <2>2, <3>1
    <3>3. InText(m)'
      BY <1>1, <1>4, <2>2, <3>2, MoreText
    <3>4. ~garbled'
      BY <2>2 DEF Silent, output
    <3> QED
      BY <3>3, <3>4 DEF Listening
  <2>3. CASE /\ Len(u) = m.size /\ Hear(m.size, u)
             /\ (Reply("header") /\ NextAdded) \/ (LastReply("header") /\ LastAdded)
    <3>1. stream' = <<>> /\ u = m.text
      BY <1>1, <1>5, <2>3
    <3>2. heard' = said
      BY <1>1, <2>3, <3>1, Taken
    <3> QED
      BY <1>1, <1>2, <2>1, <2>3, <3>1, <3>2, FileAddedWaits
  <2> QED
    BY <1>1, <1>9, <2>2, <2>3 DEF AddFile, u
<1> QED
  BY <1>1, <1>7, <1>8, <1>9 DEF Read, Reads, GetRequestSize, GetHeaderSize, GetFileSize
(* The rest of the steps. *)

LEMMA SayWaits ==
  ASSUME Types, patient, ~garbled, Listening,
         NEW k \in Kind, NEW digits \in Numeral, NEW text \in Text, Say(k, digits, text)
  PROVE  ~garbled' /\ Listening'
<1> DEFINE m == [kind |-> k, size |-> Number(0, digits), text |-> text]
<1>1. digits \in Seq(Digit) /\ text \in Seq(Byte) /\ Number(0, digits) \in Nat
  BY NumberType, WireAssumption DEF Size
<1>2. m \in Message /\ m.text = text /\ m.size = Len(text) /\ m.size = Number(0, digits) /\ m.kind = k
  BY <1>1 DEF Message, Say
<1> HIDE DEF m
<1>3. Ready /\ expects = k /\ writes = <<>> /\ kind = k
  BY DEF Say, Listening, Ready, InNumber, InText, Latest, Over, Kind
<1>4. /\ said' = Append(said, m) /\ UNCHANGED <<heard, kind, phase, size, writes, garbled>>
      /\ expects' = "none"
  BY DEF Say, m, input, output
<1>5. Latest(m)'
  BY <1>2, <1>3, <1>4 DEF Latest, Ready
<1>6. stream' = digits \o <<Space>> \o text
  <2>1. stream' = stream \o digits \o <<Space>> \o text /\ stream = <<>>
    BY <1>3 DEF Say, Ready
  <2>2. <<>> \o digits = digits
    BY <1>1
  <2> QED
    BY <2>1, <2>2
<1>7. Ahead(m)'
  BY <1>1, <1>2, <1>3, <1>4, <1>6 DEF Ahead, Ready
<1>8. InNumber(m)'
  BY <1>3, <1>4, <1>5, <1>7 DEF InNumber, Ready
<1> QED
  BY <1>2, <1>4, <1>8 DEF Listening

LEMMA ServerWaits ==
  ASSUME Types, patient, ~garbled, Listening, Server
  PROVE  ~garbled' /\ Listening'
<1>1. CASE \E bytes \in Arrivals : Read(bytes)
  <2>1. PICK bytes \in Arrivals : Read(bytes)
    BY <1>1
  <2>2. phase # "closed" /\ stream # <<>>
    BY <2>1 DEF Read, Reads, GetRequestSize, GetRequest, GetHeaderSize, GetFileHeader,
                GetFileSize, AddFile
  <2>3. PICK m \in Message : InNumber(m) \/ InText(m)
    BY <2>2 DEF Listening, Ready, Over
  <2> QED
    BY <2>1, <2>3, NumberWaits, TextWaits
<1>2. CASE Welcomed
  <2>1. /\ phase = "welcome" /\ kind' = "request" /\ phase' = "number" /\ size' = 0
        /\ UNCHANGED <<said, expects, stream, heard, open, writes, garbled>>
    BY <1>2 DEF Welcomed, Await, client, output
  <2>2. CASE Ready
    BY <2>1, <2>2 DEF Listening, Ready
  <2>3. ASSUME NEW m \in Message, InNumber(m) PROVE InNumber(m)'
    <3>1. Latest(m)' /\ size' = size
      BY <2>1, <2>3 DEF InNumber, Latest
    <3>2. Ahead(m)'
      BY <2>1, <2>3, <3>1 DEF InNumber, Ahead
    <3> QED
      BY <2>1, <3>1, <3>2 DEF InNumber
  <2> QED
    BY <2>1, <2>2, <2>3 DEF Listening, InText, Over
<1> QED
  BY <1>1, <1>2 DEF Server

LEMMA NextWaits ==
  ASSUME Types, Waits, [Next]_vars
  PROVE  Waits'
<1>1. patient' = patient
  BY DEF Next, vars, Say, SocketTakes, Server, Welcomed, Read, GetRequestSize, GetRequest,
         GetHeaderSize, GetFileHeader, GetFileSize, AddFile, RequestReceived, HeaderReceived,
         ExecuteRequest, Reply, LastReply, Silent, PeerGone, SocketClosed, client
<1> SUFFICES ASSUME patient PROVE ~garbled' /\ Listening'
  BY <1>1 DEF Waits
<1>2. ~garbled /\ Listening
  BY DEF Waits
<1>3. CASE \E k \in Kind, digits \in Numeral, text \in Text : Say(k, digits, text)
  BY <1>2, <1>3, SayWaits
<1>4. CASE Server
  BY <1>2, <1>4, ServerWaits
<1>6. CASE SocketTakes
  <2>1. /\ UNCHANGED <<said, stream, heard, kind, phase, size, open, garbled>>
        /\ expects' = Head(writes) /\ writes' = Tail(writes) /\ writes # <<>>
    BY <1>6 DEF SocketTakes, input
  <2>2. CASE Ready
    <3>1. writes = <<kind>>
      BY <2>1, <2>2 DEF Ready
    <3>2. expects' = kind /\ writes' = <<>>
      BY <2>1, <3>1
    <3> QED
      BY <1>2, <2>1, <2>2, <3>2 DEF Listening, Ready
  <2>3. CASE Over
    BY <1>2, <2>1, <2>3 DEF Listening, Over, Agreed
  <2> QED
    BY <1>2, <2>1, <2>2, <2>3 DEF Listening, InNumber, InText, Latest
<1>7. CASE PeerGone \/ SocketClosed
  <2>1. Leave /\ UNCHANGED <<said, heard, garbled>>
    BY <1>7 DEF PeerGone, SocketClosed, client, output
  <2> QED
    BY <1>2, <2>1, ListeningAgrees, LeftOver DEF Listening
<1>8. CASE UNCHANGED vars
  <2>1. ~garbled'
    BY <1>2, <1>8 DEF vars
  <2>2. Ready => Ready'
    BY <1>8 DEF vars, Ready
  <2>3. ASSUME NEW m \in Message PROVE (InNumber(m) => InNumber(m)') /\ (InText(m) => InText(m)')
    <3>1. Latest(m) => Latest(m)'
      BY <1>8 DEF vars, Latest
    <3>2. Ahead(m) => Ahead(m)'
      BY <1>8 DEF vars, Ahead
    <3> QED
      BY <1>8, <3>1, <3>2 DEF vars, InNumber, InText
  <2>4. Over => Over'
    BY <1>8 DEF vars, Over, Agreed
  <2> QED
    BY <1>2, <2>1, <2>2, <2>3, <2>4 DEF Listening
<1> QED
  BY <1>3, <1>4, <1>6, <1>7, <1>8 DEF Next

LEMMA InitWaits == Init => Waits
  BY DEF Init, Waits, Listening, Ready

(* Whatever the texts and however they are cut into reads, a client that   *)
(* waits is heard as it has said.                                          *)
THEOREM WaitingIsHeard == Spec => []HeardAsSaid
  BY InitTypes, NextTypes, InitWaits, NextWaits, WaitsAgrees, PTL DEF Spec

(* No reply to a client that waits is overwritten before it is written.    *)
THEOREM WaitingIsAnswered == Spec => []RepliesIntact
  BY InitTypes, NextTypes, InitWaits, NextWaits, WaitsAgrees, PTL DEF Spec
=============================================================================
