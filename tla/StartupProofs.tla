---------------------------- MODULE StartupProofs ----------------------------
(***************************************************************************)
(* Proofs about Startup: its types, that the settings are what the files   *)
(* say, and that a server that accepts has its workers and their links,    *)
(* for every set of lines, any number of files and any names.              *)
(***************************************************************************)
EXTENDS Startup, LeastNumber

-----------------------------------------------------------------------------
(* The invariant. *)

(* The files whose settings have been taken over. *)
Taken == IF stage = "file" THEN Len(files) - 1 ELSE Len(files)

Types ==
  /\ stage \in Stage
  /\ files \in Seq(Seq(Line)) /\ Len(files) <= MaxFiles
  /\ DOMAIN pairs \subseteq Seq(Char) \ {<<>>}
  /\ pairs \in [DOMAIN pairs -> Seq(Char) \ {<<>>}]
  /\ texts \in [TextSetting -> Seq(Char)]
  /\ numbers \in [NumberSetting -> 0 .. MaxNumber]
  /\ used \subseteq Optional
  /\ workers \in Seq([linked : BOOLEAN, idle : 0 .. MaxNumber])
  /\ stage = "file" => files # <<>>

(* The first line of a file that gives a setting. *)
FirstGives(lines, s, i) == Gives(lines[i], s) /\ \A j \in 1 .. i - 1 : ~Gives(lines[j], s)

(* Of the file that is read, the pairs have each setting as its first line *)
(* gives it.                                                               *)
PairsRead ==
  stage = "file" => \A s \in Setting :
    /\ Key[s] \in DOMAIN pairs <=> GivenIn(Len(files), s)
    /\ \A i \in DOMAIN files[Len(files)] :
         FirstGives(files[Len(files)], s, i) =>
           pairs[Key[s]] = Reduce(Behind(files[Len(files)][i]))

(* Line i of file f is where the files taken over give a setting last.     *)
LastGives(n, s, f, i) ==
  /\ i \in DOMAIN files[f] /\ FirstGives(files[f], s, i)
  /\ \A g \in f + 1 .. n : ~GivenIn(g, s)

NotGiven(n, s) == \A f \in 1 .. n : ~GivenIn(f, s)

TextsTaken ==
  \A s \in TextSetting :
    /\ NotGiven(Taken, s) => texts[s] = DefaultText[s]
    /\ \A f \in 1 .. Taken : \A i \in DOMAIN files[f] :
         LastGives(Taken, s, f, i) => texts[s] = Reduce(Behind(files[f][i]))

NumbersTaken ==
  \A s \in NumberSetting : \A f \in 1 .. Taken : \A i \in DOMAIN files[f] :
    LastGives(Taken, s, f, i) => numbers[s] = NumberIn(Reduce(Behind(files[f][i])))

DefaultsKept ==
  \A s \in DOMAIN DefaultNumber : NotGiven(Taken, s) => numbers[s] = DefaultNumber[s]

UsedTaken == Taken > 0 => used = {s \in Optional : GivenIn(Taken, s)}

Settled == TextsTaken /\ NumbersTaken /\ DefaultsKept /\ UsedTaken

(* The workers that have been made.                                        *)
WorkersReady ==
  /\ stage \in {"settings", "file"} => workers = <<>>
  /\ stage \in {"workers", "init", "accept"} =>
       /\ \A i \in DOMAIN workers : workers[i].linked = Links
       /\ Len(workers) <= numbers["worker_threads"]
  /\ stage \in {"init", "accept"} => Len(workers) = numbers["worker_threads"]

-----------------------------------------------------------------------------
(* The operators on texts. *)

LEMMA MinIs ==
  ASSUME NEW T \in SUBSET Nat, T # {}
  PROVE  Min(T) \in T /\ \A x \in T : Min(T) <= x
BY Least DEF Min

LEMMA MaxIs ==
  ASSUME NEW n \in Nat, NEW T \in SUBSET (0 .. n), T # {}
  PROVE  Max(T) \in T /\ \A x \in T : Max(T) >= x
<1> DEFINE U == {y \in 0 .. n : n - y \in T}
<1>1. U # {}
  <2>1. PICK x \in T : TRUE
    OBVIOUS
  <2>2. n - x \in 0 .. n /\ n - (n - x) = x
    OBVIOUS
  <2> QED
    BY <2>1, <2>2
<1>2. PICK y \in U : \A z \in U : y <= z
  <2>1. U \in SUBSET Nat
    OBVIOUS
  <2> HIDE DEF U
  <2> QED
    BY <1>1, <2>1, Least
<1>3. \A x \in T : n - y >= x
  <2>1. \A x \in T : n - x \in U /\ x \in 0 .. n
    OBVIOUS
  <2>2. y \in 0 .. n
    OBVIOUS
  <2>3. \A x \in T : y <= n - x
    BY <1>2, <2>1
  <2> QED
    BY <2>1, <2>2, <2>3
<1> QED
  BY <1>2, <1>3 DEF Max

LEMMA TrimIs == ASSUME NEW line \in Seq(Char) PROVE Trim(line) \in Seq(Char)
<1> DEFINE kept == {i \in DOMAIN line : line[i] # Blank}
<1>1. CASE kept = {}
  BY <1>1 DEF Trim
<1>2. CASE kept # {}
  <2>1. kept \in SUBSET Nat /\ kept \in SUBSET (0 .. Len(line))
    OBVIOUS
  <2>2. Min(kept) \in DOMAIN line /\ Max(kept) \in DOMAIN line
    <3> HIDE DEF kept
    <3>1. Min(kept) \in kept
      BY <1>2, <2>1, MinIs
    <3>2. Len(line) \in Nat
      OBVIOUS
    <3>3. Max(kept) \in kept
      BY <1>2, <2>1, <3>2, MaxIs
    <3> QED
      BY <3>1, <3>3 DEF kept
  <2>3. SubSeq(line, Min(kept), Max(kept)) \in Seq(Char)
    <3>1. \A l, k \in DOMAIN line : SubSeq(line, l, k) \in Seq(Char)
      OBVIOUS
    <3> QED
      BY <2>2, <3>1
  <2> QED
    BY <1>2, <2>3 DEF Trim
<1> QED
  BY <1>1, <1>2

(* A text t, of which q has been made with the first i characters: one     *)
(* blank and nothing else is in the place of blanks and of what follows    *)
(* them.                                                                   *)
Squeezed(t, i, q) ==
  /\ q \in Seq(Char)
  /\ i > 0 => q # <<>> /\ q[1] = t[1]
  /\ (\A j \in 1 .. i : t[j] # Blank) => q = SubSeq(t, 1, i)
  /\ (\E j \in 1 .. i : t[j] = Blank) => Contains(q, Blank)

LEMMA SqueezedNext ==
  ASSUME NEW t \in Seq(Char), NEW i \in 1 .. Len(t), NEW q, Squeezed(t, i - 1, q)
  PROVE  Squeezed(t, i, IF i > 1 /\ t[i - 1] = Blank THEN q ELSE Append(q, t[i]))
<1>1. CASE i > 1 /\ t[i - 1] = Blank
  <2>1. i - 1 > 0 /\ i - 1 \in 1 .. i - 1 /\ i - 1 \in 1 .. i
    BY <1>1
  <2>2. ~(\A j \in 1 .. i : t[j] # Blank) /\ \E j \in 1 .. i - 1 : t[j] = Blank
    BY <2>1, <1>1
  <2> QED
    BY <1>1, <2>1, <2>2 DEF Squeezed
<1>2. CASE ~(i > 1 /\ t[i - 1] = Blank)
  <2> DEFINE r == Append(q, t[i])
  <2>1. t[i] \in Char /\ q \in Seq(Char)
    BY DEF Squeezed
  <2>2. /\ r \in Seq(Char) /\ Len(r) = Len(q) + 1 /\ Len(q) \in Nat
        /\ \A j \in 1 .. Len(q) : r[j] = q[j]
        /\ r[Len(q) + 1] = t[i]
    BY <2>1
  <2> HIDE DEF r
  <2>3. r # <<>> /\ r[1] = t[1]
    <3>1. CASE i = 1
      <4>1. q = SubSeq(t, 1, 0)
        BY <3>1 DEF Squeezed
      <4>2. q = <<>> /\ Len(q) = 0
        BY <4>1
      <4>3. r[1] = t[1] /\ Len(r) = 1
        BY <4>2, <3>1, <2>2
      <4> QED
        BY <4>3, <2>2
    <3>2. CASE i > 1
      <4>1. q # <<>> /\ q[1] = t[1]
        BY <3>2 DEF Squeezed
      <4>2. Len(q) >= 1
        BY <4>1, <2>1
      <4> QED
        BY <4>1, <4>2, <2>2
    <3> QED
      BY <3>1, <3>2
  <2>4. ASSUME \A j \in 1 .. i : t[j] # Blank
        PROVE  r = SubSeq(t, 1, i)
    <3>1. q = SubSeq(t, 1, i - 1)
      BY <2>4 DEF Squeezed
    <3>2. Len(q) = i - 1 /\ \A j \in 1 .. i - 1 : q[j] = t[j]
      BY <3>1
    <3>3. Len(r) = i /\ \A j \in 1 .. i : r[j] = t[j]
      BY <3>2, <2>2
    <3> QED
      BY <3>3, <2>2
  <2>5. ASSUME NEW j \in 1 .. i, t[j] = Blank
        PROVE  Contains(r, Blank)
    <3>1. CASE j = i
      <4>1. Len(r) \in 1 .. Len(r) /\ r[Len(r)] = Blank
        BY <3>1, <2>5, <2>2
      <4> QED
        BY <4>1 DEF Contains
    <3>2. CASE j # i
      <4>1. j \in 1 .. i - 1
        BY <3>2
      <4>2. PICK k \in 1 .. Len(q) : q[k] = Blank
        BY <4>1, <2>5 DEF Squeezed, Contains
      <4>3. k \in 1 .. Len(r) /\ r[k] = Blank
        BY <4>2, <2>2
      <4> QED
        BY <4>3 DEF Contains
    <3> QED
      BY <3>1, <3>2
  <2>6. Squeezed(t, i, r)
    BY <2>2, <2>3, <2>4, <2>5 DEF Squeezed
  <2> QED
    BY <1>2, <2>6 DEF r
<1> QED
  BY <1>1, <1>2

(* The recursion of Reduce has a function to define.                       *)
LEMMA ReduceDefined ==
  ASSUME NEW line, Trim(line) \in Seq(Char)
  PROVE  \E u : /\ Reduce(line) = u[Len(Trim(line))]
                /\ \A i \in 0 .. Len(Trim(line)) :
                     u[i] = IF i = 0 THEN <<>>
                            ELSE IF i > 1 /\ Trim(line)[i - 1] = Blank THEN u[i - 1]
                            ELSE Append(u[i - 1], Trim(line)[i])
<1> DEFINE t == Trim(line)
           g == [x \in (1 .. Len(t)) \X Seq(Char) |->
                   IF x[1] > 1 /\ t[x[1] - 1] = Blank THEN x[2] ELSE Append(x[2], t[x[1]])]
<1>1. t \in Seq(Char) /\ Len(t) \in Nat
  OBVIOUS
<1> HIDE DEF t
<1>2. g \in [(1 .. Len(t)) \X Seq(Char) -> Seq(Char)]
  <2>1. ASSUME NEW x \in (1 .. Len(t)) \X Seq(Char)
        PROVE  (IF x[1] > 1 /\ t[x[1] - 1] = Blank THEN x[2] ELSE Append(x[2], t[x[1]])) \in Seq(Char)
    BY <1>1
  <2> QED
    BY <2>1
<1>3. PICK f \in [0 .. Len(t) -> Seq(Char)] :
             \A i \in 0 .. Len(t) : f[i] = IF i = 0 THEN <<>> ELSE g[<<i, f[i - 1]>>]
  <2>1. <<>> \in Seq(Char)
    OBVIOUS
  <2> HIDE DEF g
  <2>2. \E f \in [0 .. Len(t) -> Seq(Char)] : Recurs(f, Len(t), <<>>, g)
    BY <1>1, <1>2, <2>1, Recursion
  <2> QED
    BY <2>2 DEF Recurs
<1>4. \A i \in 0 .. Len(t) :
        f[i] = IF i = 0 THEN <<>>
               ELSE IF i > 1 /\ t[i - 1] = Blank THEN f[i - 1]
               ELSE Append(f[i - 1], t[i])
  <2>1. ASSUME NEW i \in 0 .. Len(t), i # 0
        PROVE  <<i, f[i - 1]>> \in (1 .. Len(t)) \X Seq(Char)
    BY <2>1, <1>1
  <2> QED
    BY <1>3, <2>1
<1>5. f = [i \in 0 .. Len(t) |-> IF i = 0 THEN <<>>
                                 ELSE IF i > 1 /\ t[i - 1] = Blank THEN f[i - 1]
                                 ELSE Append(f[i - 1], t[i])]
  BY <1>4
<1>6. PICK u : /\ u = [i \in 0 .. Len(t) |-> IF i = 0 THEN <<>>
                                             ELSE IF i > 1 /\ t[i - 1] = Blank THEN u[i - 1]
                                             ELSE Append(u[i - 1], t[i])]
               /\ Reduce(line) = u[Len(t)]
  BY <1>5 DEF Reduce, t
<1>7. \A i \in 0 .. Len(t) : u[i] = IF i = 0 THEN <<>>
                                    ELSE IF i > 1 /\ t[i - 1] = Blank THEN u[i - 1]
                                    ELSE Append(u[i - 1], t[i])
  BY <1>6
<1> QED
  BY <1>6, <1>7 DEF t

(* What one blank in the place of blanks and a character leaves of a text. *)
LEMMA ReduceIs ==
  ASSUME NEW line \in Seq(Char)
  PROVE  /\ Reduce(line) \in Seq(Char)
         /\ Trim(line) = <<>> <=> Reduce(line) = <<>>
         /\ Trim(line) # <<>> => Reduce(line)[1] = Trim(line)[1]
         /\ ~Contains(Trim(line), Blank) => Reduce(line) = Trim(line)
         /\ Contains(Trim(line), Blank) => Contains(Reduce(line), Blank)
<1> DEFINE t == Trim(line)
           n == Len(t)
<1>1. t \in Seq(Char) /\ n \in Nat
  BY TrimIs
<1>2. PICK u : /\ Reduce(line) = u[n]
               /\ \A i \in 0 .. n : u[i] = IF i = 0 THEN <<>>
                                           ELSE IF i > 1 /\ t[i - 1] = Blank THEN u[i - 1]
                                           ELSE Append(u[i - 1], t[i])
  BY <1>1, ReduceDefined
<1> HIDE DEF t
<1> DEFINE Bad == {i \in 0 .. n : ~Squeezed(t, i, u[i])}
<1>3. Squeezed(t, 0, u[0])
  <2>1. u[0] = <<>>
    BY <1>1, <1>2
  <2>2. SubSeq(t, 1, 0) = <<>> /\ <<>> \in Seq(Char)
    BY <1>1
  <2>3. ~(\E j \in 1 .. 0 : t[j] = Blank) /\ ~(0 > 0)
    OBVIOUS
  <2> QED
    BY <2>1, <2>2, <2>3 DEF Squeezed
<1>4. Bad = {}
  <2>1. SUFFICES ASSUME Bad # {} PROVE FALSE
    BY <2>1
  <2>2. PICK i \in Bad : \A j \in Bad : i <= j
    <3>1. Bad \in SUBSET Nat
      BY <1>1
    <3> HIDE DEF Bad
    <3> QED
      BY <2>1, <3>1, Least
  <2>3. i # 0
    BY <1>3
  <2>4. i \in 1 .. n /\ i - 1 \in 0 .. n /\ i - 1 \notin Bad
    <3>1. i \in 0 .. n /\ ~(i <= i - 1)
      BY <1>1
    <3> QED
      BY <2>2, <2>3, <3>1, <1>1
  <2>5. Squeezed(t, i - 1, u[i - 1])
    BY <2>4
  <2>6. Squeezed(t, i, u[i])
    BY <2>4, <2>5, <1>1, <1>2, SqueezedNext
  <2> QED
    BY <2>6
<1>5. Squeezed(t, n, Reduce(line))
  <2>1. n \in 0 .. n
    BY <1>1
  <2> QED
    BY <1>2, <1>4, <2>1
<1>6. t = <<>> <=> n = 0
  BY <1>1
<1>7. t = SubSeq(t, 1, n)
  BY <1>1
<1>8. n = 0 => Reduce(line) = <<>>
  BY <1>1, <1>2
<1> QED
  BY <1>1, <1>5, <1>6, <1>7, <1>8 DEF t, Squeezed, Contains
-----------------------------------------------------------------------------
(* Lines. *)

LEMMA SplitIs ==
  ASSUME NEW line \in Seq(Char), IsAssignment(line)
  PROVE  /\ Split(line) \in 1 .. Len(line)
         /\ Before(line) \in Seq(Char) /\ Behind(line) \in Seq(Char)
<1> DEFINE T == {i \in DOMAIN line : line[i] = Equals}
<1>1. T \in SUBSET Nat /\ T # {}
  BY DEF IsAssignment, Contains
<1>2. Min(T) \in T
  <2> HIDE DEF T
  <2> QED
    BY <1>1, MinIs
<1>3. Split(line) \in 1 .. Len(line)
  BY <1>2 DEF Split
<1>4. \A l \in 1 .. Len(line) + 1, k \in 0 .. Len(line) : SubSeq(line, l, k) \in Seq(Char)
  OBVIOUS
<1>5. Split(line) - 1 \in 0 .. Len(line) /\ Split(line) + 1 \in 1 .. Len(line) + 1
  BY <1>3
<1>6. 1 \in 1 .. Len(line) + 1 /\ Len(line) \in 0 .. Len(line)
  OBVIOUS
<1> QED
  BY <1>3, <1>4, <1>5, <1>6 DEF Before, Behind

(* A line gives a setting where the reader makes a pair of its name: no    *)
(* name has a blank inside.                                                *)
LEMMA GivesIs ==
  ASSUME NEW line \in Seq(Char), NEW s \in Setting
  PROVE  Gives(line, s) <=> IsEntry(line) /\ Reduce(Before(line)) = Key[s]
<1>1. ASSUME IsAssignment(line) PROVE Gives(line, s) <=> IsEntry(line) /\ Reduce(Before(line)) = Key[s]
  <2>1. Before(line) \in Seq(Char) /\ Behind(line) \in Seq(Char)
    BY <1>1, SplitIs
  <2>2. Key[s] # <<>> /\ ~Contains(Key[s], Blank)
    BY StartupAssumption
  <2>3. Trim(Before(line)) = Key[s] => Reduce(Before(line)) = Key[s]
    BY <2>1, <2>2, ReduceIs
  <2>4. Reduce(Before(line)) = Key[s] => Trim(Before(line)) = Key[s]
    BY <2>1, <2>2, ReduceIs
  <2>5. Trim(Behind(line)) = <<>> <=> Reduce(Behind(line)) = <<>>
    BY <2>1, ReduceIs
  <2> QED
    BY <1>1, <2>2, <2>3, <2>4, <2>5 DEF Gives, IsEntry
<1> QED
  BY <1>1 DEF Gives, IsEntry

LEMMA EntryIs ==
  ASSUME NEW line \in Line, IsEntry(line)
  PROVE  Reduce(Before(line)) \in Seq(Char) \ {<<>>} /\ Reduce(Behind(line)) \in Seq(Char) \ {<<>>}
<1>1. line \in Seq(Char) /\ IsAssignment(line)
  BY StartupAssumption DEF IsEntry
<1> QED
  BY <1>1, SplitIs, ReduceIs DEF IsEntry

-----------------------------------------------------------------------------
(* Numbers. *)

LEMMA DigitIs ==
  ASSUME NEW ch, Contains(Digits, ch)
  PROVE  LET d == CHOOSE d \in 0 .. 9 : Digits[d + 1] = ch
         IN  /\ d \in 0 .. 9
             /\ ch \in {Digits[k] : k \in 2 .. 10} => d >= 1
<1>1. Len(Digits) = 10
  BY DEF Digits
<1>2. PICK k \in 1 .. 10 : Digits[k] = ch
  BY <1>1 DEF Contains
<1>3. k - 1 \in 0 .. 9 /\ Digits[(k - 1) + 1] = ch
  BY <1>2
<1> DEFINE d == CHOOSE d \in 0 .. 9 : Digits[d + 1] = ch
<1>4. d \in 0 .. 9 /\ Digits[d + 1] = ch
  BY <1>3
<1>5. ASSUME NEW j \in 2 .. 10, ch = Digits[j] PROVE d >= 1
  <2>1. \A i \in 2 .. 10 : Digits[i] # Digits[1]
    BY DEF Digits
  <2> QED
    BY <1>4, <1>5, <2>1
<1> QED
  BY <1>4, <1>5

(* What stream >> number gives for the first i characters, and what is     *)
(* said of it: a number, and no zero when the first digit is none.         *)
Digit(ch) == CHOOSE d \in 0 .. 9 : Digits[d + 1] = ch

Reads(t, i, before) ==
  IF \A j \in 1 .. i : Contains(Digits, t[j]) THEN 10 * before + Digit(t[i]) ELSE before

Positive(t) == t # <<>> /\ t[1] \in {Digits[k] : k \in 2 .. 10}

LEMMA ReadsIs ==
  ASSUME NEW t \in Seq(Char), NEW i \in 1 .. Len(t), NEW n \in Nat
  PROVE  /\ Reads(t, i, n) \in Nat
         /\ n >= 1 => Reads(t, i, n) >= 1
         /\ i = 1 /\ Positive(t) => Reads(t, i, n) >= 1
<1>1. CASE \A j \in 1 .. i : Contains(Digits, t[j])
  <2>1. Contains(Digits, t[i])
    BY <1>1
  <2>2. Digit(t[i]) \in 0 .. 9 /\ (t[i] \in {Digits[k] : k \in 2 .. 10} => Digit(t[i]) >= 1)
    BY <2>1, DigitIs DEF Digit
  <2>3. Reads(t, i, n) = 10 * n + Digit(t[i])
    BY <1>1 DEF Reads
  <2> QED
    BY <2>2, <2>3 DEF Positive
<1>2. CASE ~\A j \in 1 .. i : Contains(Digits, t[j])
  <2>1. Reads(t, i, n) = n
    BY <1>2 DEF Reads
  <2>2. ASSUME i = 1, Positive(t) PROVE FALSE
    <3>1. PICK k \in 2 .. 10 : t[1] = Digits[k]
      BY <2>2 DEF Positive
    <3>2. k \in 1 .. Len(Digits)
      BY DEF Digits
    <3>3. Contains(Digits, t[1])
      BY <3>1, <3>2 DEF Contains
    <3>4. \A j \in 1 .. i : j = 1
      BY <2>2
    <3> QED
      BY <3>3, <3>4, <1>2
  <2> QED
    BY <2>1, <2>2
<1> QED
  BY <1>1, <1>2

(* The recursion of NumberIn has a function to define.                     *)
LEMMA NumberDefined ==
  ASSUME NEW t \in Seq(Char)
  PROVE  \E u : /\ NumberIn(t) = Min({u[Len(t)], MaxNumber})
                /\ \A i \in 0 .. Len(t) : u[i] = IF i = 0 THEN 0 ELSE Reads(t, i, u[i - 1])
<1> DEFINE g == [x \in (1 .. Len(t)) \X Nat |-> Reads(t, x[1], x[2])]
<1>1. Len(t) \in Nat /\ 0 \in Nat
  OBVIOUS
<1>2. g \in [(1 .. Len(t)) \X Nat -> Nat]
  BY ReadsIs
<1>3. PICK f \in [0 .. Len(t) -> Nat] : Recurs(f, Len(t), 0, g)
  <2> HIDE DEF g
  <2> QED
    BY <1>1, <1>2, Recursion
<1>4. \A i \in 0 .. Len(t) : f[i] = IF i = 0 THEN 0 ELSE Reads(t, i, f[i - 1])
  <2>1. ASSUME NEW i \in 0 .. Len(t), i # 0
        PROVE  g[<<i, f[i - 1]>>] = Reads(t, i, f[i - 1])
    BY <2>1, <1>1
  <2> QED
    BY <1>3, <2>1 DEF Recurs
<1>5. f = [i \in 0 .. Len(t) |->
             IF i = 0 THEN 0
             ELSE IF \A j \in 1 .. i : Contains(Digits, t[j]) THEN 10 * f[i - 1] + Digit(t[i])
             ELSE f[i - 1]]
  BY <1>4 DEF Reads
<1>6. PICK u : /\ u = [i \in 0 .. Len(t) |->
                         IF i = 0 THEN 0
                         ELSE IF \A j \in 1 .. i : Contains(Digits, t[j])
                              THEN 10 * u[i - 1] + Digit(t[i])
                         ELSE u[i - 1]]
               /\ NumberIn(t) = Min({u[Len(t)], MaxNumber})
  BY <1>5 DEF NumberIn, Digit
<1>7. \A i \in 0 .. Len(t) : u[i] = IF i = 0 THEN 0 ELSE Reads(t, i, u[i - 1])
  BY <1>6 DEF Reads
<1> QED
  BY <1>6, <1>7

(* A number is read that fits, and one that is not 0 from a text that      *)
(* begins with a digit that is not.                                        *)
LEMMA NumberIs ==
  ASSUME NEW t \in Seq(Char)
  PROVE  NumberIn(t) \in 0 .. MaxNumber /\ (Positive(t) => NumberIn(t) >= 1)
<1>1. PICK u : /\ NumberIn(t) = Min({u[Len(t)], MaxNumber})
               /\ \A i \in 0 .. Len(t) : u[i] = IF i = 0 THEN 0 ELSE Reads(t, i, u[i - 1])
  BY NumberDefined
<1> DEFINE Good(i) == u[i] \in Nat /\ (i > 0 /\ Positive(t) => u[i] >= 1)
           Bad == {i \in 0 .. Len(t) : ~Good(i)}
<1>2. Bad = {}
  <2>1. SUFFICES ASSUME Bad # {} PROVE FALSE
    BY <2>1
  <2>2. PICK i \in Bad : \A j \in Bad : i <= j
    <3>1. Bad \in SUBSET Nat
      OBVIOUS
    <3> HIDE DEF Bad
    <3> QED
      BY <2>1, <3>1, Least
  <2>3. i # 0
    BY <1>1
  <2>4. i \in 1 .. Len(t) /\ i - 1 \in 0 .. Len(t) /\ i - 1 \notin Bad
    <3>1. i \in 0 .. Len(t) /\ ~(i <= i - 1)
      OBVIOUS
    <3> QED
      BY <2>2, <2>3, <3>1
  <2>5. Good(i - 1) /\ u[i] = Reads(t, i, u[i - 1])
    BY <1>1, <2>3, <2>4
  <2>6. u[i - 1] \in Nat
    BY <2>5
  <2>7. /\ Reads(t, i, u[i - 1]) \in Nat
        /\ u[i - 1] >= 1 => Reads(t, i, u[i - 1]) >= 1
        /\ i = 1 /\ Positive(t) => Reads(t, i, u[i - 1]) >= 1
    BY <2>4, <2>6, ReadsIs
  <2>8. Positive(t) /\ i # 1 => u[i - 1] >= 1
    BY <2>4, <2>5
  <2>9. Good(i)
    BY <2>5, <2>7, <2>8
  <2> QED
    BY <2>9
<1>3. Good(Len(t))
  <2>1. Len(t) \in 0 .. Len(t)
    OBVIOUS
  <2> QED
    BY <1>2, <2>1
<1>4. MaxNumber \in Nat /\ MaxNumber >= 1
  BY StartupAssumption
<1> DEFINE T == {u[Len(t)], MaxNumber}
<1>5. Min(T) \in T /\ \A x \in T : Min(T) <= x
  <2>1. T \in SUBSET Nat /\ T # {}
    BY <1>3, <1>4
  <2> HIDE DEF T
  <2> QED
    BY <2>1, MinIs
<1>6. Positive(t) => Len(t) > 0
  BY DEF Positive
<1> QED
  BY <1>1, <1>3, <1>4, <1>5, <1>6
-----------------------------------------------------------------------------
(* The types. *)

LEMMA InitTypes == Init => Types
<1> SUFFICES ASSUME Init PROVE Types
  OBVIOUS
<1>1. PICK n \in 0 .. MaxIdle :
        numbers = [s \in NumberSetting |->
                     IF s \in DOMAIN DefaultNumber THEN DefaultNumber[s] ELSE n]
  BY DEF Init
<1>2. numbers \in [NumberSetting -> 0 .. MaxNumber]
  <2>1. \A s \in DOMAIN DefaultNumber : DefaultNumber[s] \in 0 .. MaxNumber
    BY StartupAssumption DEF DefaultNumber
  <2>2. n \in 0 .. MaxNumber
    BY StartupAssumption
  <2> QED
    BY <1>1, <2>1, <2>2
<1>3. texts \in [TextSetting -> Seq(Char)] /\ Len(files) <= MaxFiles
  BY StartupAssumption DEF Init
<1>4. pairs \in [DOMAIN pairs -> Seq(Char) \ {<<>>}] /\ DOMAIN pairs = {}
  BY DEF Init
<1> QED
  BY <1>2, <1>3, <1>4 DEF Init, Types, Stage, Optional

LEMMA ReadLineTypes ==
  ASSUME Types, NEW line \in Line, ReadLine(line)
  PROVE  Types'
<1>1. files # <<>> /\ Len(files) \in 1 .. Len(files) /\ files[Len(files)] \in Seq(Line)
  BY DEF Types, ReadLine
<1>2. Append(files[Len(files)], line) \in Seq(Line)
  BY <1>1
<1>3. files' \in Seq(Seq(Line)) /\ Len(files') = Len(files) /\ files' # <<>>
  BY <1>1, <1>2 DEF Types, ReadLine
<1>4. /\ DOMAIN pairs' \subseteq Seq(Char) \ {<<>>}
      /\ pairs' \in [DOMAIN pairs' -> Seq(Char) \ {<<>>}]
  <2>1. CASE IsEntry(line)
    <3> DEFINE k == Reduce(Before(line))
               v == Reduce(Behind(line))
    <3>1. k \in Seq(Char) \ {<<>>} /\ v \in Seq(Char) \ {<<>>}
      BY <2>1, EntryIs
    <3>2. pairs' = Emplace(k, v)
      BY <2>1 DEF ReadLine
    <3> HIDE DEF k, v
    <3> QED
      BY <3>1, <3>2 DEF Types, Emplace
  <2>2. CASE ~IsEntry(line)
    BY <2>2 DEF ReadLine, Types
  <2> QED
    BY <2>1, <2>2
<1> QED
  BY <1>3, <1>4 DEF Types, ReadLine, settings

LEMMA ReadConfigTypes ==
  ASSUME Types, ReadConfig
  PROVE  Types'
<1>1. \A s \in Assigned : pairs[Key[s]] \in Seq(Char)
  BY DEF Types, Assigned
<1>2. \A s \in Assigned : NumberIn(pairs[Key[s]]) \in 0 .. MaxNumber
  BY <1>1, NumberIs
<1>3. texts' \in [TextSetting -> Seq(Char)]
  BY <1>1 DEF Types, ReadConfig
<1>4. numbers' \in [NumberSetting -> 0 .. MaxNumber]
  BY <1>2 DEF Types, ReadConfig
<1> QED
  BY <1>3, <1>4 DEF Types, ReadConfig, Stage

LEMMA NextTypes == Types /\ [Next]_vars => Types'
<1> SUFFICES ASSUME Types, [Next]_vars PROVE Types'
  OBVIOUS
<1>1. CASE OpenFile
  <2>1. files' \in Seq(Seq(Line)) /\ Len(files') <= MaxFiles /\ files' # <<>>
    <3>1. <<>> \in Seq(Line) /\ files \in Seq(Seq(Line)) /\ Len(files) \in Nat
      BY DEF Types
    <3>2. Append(files, <<>>) \in Seq(Seq(Line)) /\ Len(Append(files, <<>>)) = Len(files) + 1
      BY <3>1
    <3>3. Len(files) < MaxFiles /\ files' = Append(files, <<>>) /\ MaxFiles \in Nat
      BY <1>1, StartupAssumption DEF OpenFile
    <3>4. ASSUME Append(files, <<>>) = <<>> PROVE FALSE
      <4>1. Len(Append(files, <<>>)) = 0
        BY <3>4
      <4> QED
        BY <3>1, <3>2, <4>1
    <3> QED
      BY <3>1, <3>2, <3>3, <3>4
  <2>2. pairs' \in [DOMAIN pairs' -> Seq(Char) \ {<<>>}] /\ DOMAIN pairs' = {}
    BY <1>1 DEF OpenFile
  <2> QED
    BY <1>1, <2>1, <2>2 DEF OpenFile, Types, Stage, settings
<1>2. ASSUME NEW line \in Line, ReadLine(line) PROVE Types'
  BY <1>2, ReadLineTypes
<1>3. CASE ReadConfig
  BY <1>3, ReadConfigTypes
<1>4. CASE Construct
  BY <1>4 DEF Construct, Types, Stage, settings
<1>5. CASE MakeWorker
  <2>1. numbers["worker_connections"] \in 0 .. MaxNumber
    BY DEF Types, NumberSetting
  <2>2. [linked |-> Links, idle |-> numbers["worker_connections"]]
          \in [linked : BOOLEAN, idle : 0 .. MaxNumber]
    BY <2>1 DEF Links
  <2>3. CASE Ends
    BY <2>3 DEF Ends, Types, Stage, settings
  <2>4. CASE ~Ends
    <3> DEFINE W == [linked : BOOLEAN, idle : 0 .. MaxNumber]
               w == [linked |-> Links, idle |-> numbers["worker_connections"]]
    <3>1. w \in W /\ workers \in Seq(W)
      BY <2>2 DEF Types
    <3>2. workers' = Append(workers, w) /\ UNCHANGED <<stage, files, pairs, settings>>
      BY <1>5, <2>4 DEF MakeWorker
    <3> HIDE DEF w, W
    <3>3. workers' \in Seq(W)
      BY <3>1, <3>2
    <3> QED
      BY <3>2, <3>3 DEF Types, settings, W
  <2> QED
    BY <2>3, <2>4
<1>6. CASE WorkersMade
  BY <1>6 DEF WorkersMade, Types, Stage, settings
<1>7. CASE ServerInit
  BY <1>7 DEF ServerInit, Ends, Types, Stage, settings
<1>8. CASE UNCHANGED vars
  BY <1>8 DEF vars, settings, Types
<1> QED
  BY <1>1, <1>2, <1>3, <1>4, <1>5, <1>6, <1>7, <1>8 DEF Next

LEMMA TypesAlwaysHold == Spec => []Types
BY InitTypes, NextTypes, PTL DEF Spec

(* The types of the files, the settings and the workers, for every set of  *)
(* lines and any number of files.                                          *)
THEOREM StartupTypes == Spec => []TypeOK
<1>1. ASSUME Types PROVE TypeOK
  <2>1. \A i \in DOMAIN files : files[i] \in Seq(Line)
    BY <1>1 DEF Types
  <2>2. \A i \in DOMAIN workers : workers[i] \in [linked : BOOLEAN, idle : 0 .. MaxNumber]
    <3> DEFINE W == [linked : BOOLEAN, idle : 0 .. MaxNumber]
    <3>1. workers \in Seq(W)
      BY <1>1 DEF Types
    <3> HIDE DEF W
    <3>2. \A i \in DOMAIN workers : workers[i] \in W
      BY <3>1
    <3> QED
      BY <3>2 DEF W
  <2>3. \A k \in DOMAIN pairs : k \in Seq(Char) \ {<<>>} /\ pairs[k] \in Seq(Char) \ {<<>>}
    BY <1>1 DEF Types
  <2> QED
    BY <1>1, <2>1, <2>2, <2>3 DEF Types, TypeOK
<1> QED
  BY <1>1, TypesAlwaysHold, PTL
-----------------------------------------------------------------------------
(* The pairs of the file that is read. *)

LEMMA ReadLinePairs ==
  ASSUME Types, PairsRead, NEW line \in Line, ReadLine(line)
  PROVE  PairsRead'
<1> DEFINE n == Len(files)
           lines == files[n]
           more == Append(lines, line)
           k == Reduce(Before(line))
           v == Reduce(Behind(line))
<1>1. n \in 1 .. n /\ lines \in Seq(Line) /\ stage = "file" /\ n \in DOMAIN files
  BY DEF Types, ReadLine
<1>2. files'[n] = more /\ Len(files') = n
  BY <1>1 DEF Types, ReadLine
<1>3. /\ Len(more) = Len(lines) + 1 /\ Len(lines) \in Nat
      /\ DOMAIN more = 1 .. Len(lines) + 1 /\ DOMAIN lines = 1 .. Len(lines)
      /\ \A i \in DOMAIN lines : more[i] = lines[i]
      /\ more[Len(lines) + 1] = line
  BY <1>1
<1>4. /\ IsEntry(line) => /\ DOMAIN pairs' = DOMAIN pairs \cup {k}
                          /\ \A x \in DOMAIN pairs : pairs'[x] = pairs[x]
                          /\ k \notin DOMAIN pairs => pairs'[k] = v
      /\ ~IsEntry(line) => pairs' = pairs
  BY DEF ReadLine, Emplace
<1>5. \A s \in Setting :
        /\ Key[s] \in DOMAIN pairs <=> \E i \in DOMAIN lines : Gives(lines[i], s)
        /\ \A i \in DOMAIN lines : FirstGives(lines, s, i) => pairs[Key[s]] = Reduce(Behind(lines[i]))
  BY <1>1 DEF PairsRead, GivenIn
<1>6. \A s \in Setting : Gives(line, s) <=> IsEntry(line) /\ k = Key[s]
  BY GivesIs, StartupAssumption
<1> HIDE DEF n, lines, more, k, v
<1>7. ASSUME NEW s \in Setting
      PROVE  Key[s] \in DOMAIN pairs' <=> \E i \in DOMAIN more : Gives(more[i], s)
  <2>1. (\E i \in DOMAIN more : Gives(more[i], s)) <=>
          (\E i \in DOMAIN lines : Gives(lines[i], s)) \/ Gives(line, s)
    BY <1>3
  <2> QED
    BY <1>4, <1>5, <1>6, <2>1
<1>8. ASSUME NEW s \in Setting, NEW i \in DOMAIN more, FirstGives(more, s, i)
      PROVE  pairs'[Key[s]] = Reduce(Behind(more[i]))
  <2>1. Gives(more[i], s) /\ \A j \in 1 .. i - 1 : ~Gives(more[j], s)
    BY <1>8 DEF FirstGives
  <2>2. CASE i \in DOMAIN lines
    <3>1. \A j \in 1 .. i - 1 : j \in DOMAIN lines
      BY <2>2, <1>3
    <3>2. FirstGives(lines, s, i)
      BY <2>1, <2>2, <3>1, <1>3 DEF FirstGives
    <3>3. Key[s] \in DOMAIN pairs /\ pairs[Key[s]] = Reduce(Behind(lines[i]))
      BY <3>2, <1>5, <2>2 DEF FirstGives
    <3> QED
      BY <3>3, <1>3, <1>4, <2>2
  <2>3. CASE i \notin DOMAIN lines
    <3>1. i = Len(lines) + 1 /\ more[i] = line
      BY <2>3, <1>3
    <3>2. \A j \in DOMAIN lines : ~Gives(lines[j], s)
      BY <3>1, <2>1, <1>3
    <3>3. Key[s] \notin DOMAIN pairs
      BY <3>2, <1>5
    <3>4. IsEntry(line) /\ k = Key[s]
      BY <2>1, <3>1, <1>6
    <3>5. pairs'[Key[s]] = v
      BY <3>3, <3>4, <1>4
    <3> QED
      BY <3>1, <3>5 DEF v
  <2> QED
    BY <2>2, <2>3
<1> QED
  BY <1>2, <1>7, <1>8 DEF PairsRead, GivenIn, n

LEMMA NextPairs == Types /\ PairsRead /\ [Next]_vars => PairsRead'
<1> SUFFICES ASSUME Types, PairsRead, [Next]_vars PROVE PairsRead'
  OBVIOUS
<1>1. CASE OpenFile
  <2>1. /\ Len(files') = Len(files) + 1 /\ Len(files) \in Nat
        /\ files'[Len(files) + 1] = <<>>
    BY <1>1 DEF OpenFile, Types
  <2>2. DOMAIN files'[Len(files')] = {}
    BY <2>1
  <2>3. DOMAIN pairs' = {}
    BY <1>1 DEF OpenFile
  <2> QED
    BY <2>2, <2>3 DEF PairsRead, GivenIn
<1>2. ASSUME NEW line \in Line, ReadLine(line) PROVE PairsRead'
  BY <1>2, ReadLinePairs
<1>3. CASE UNCHANGED vars
  BY <1>3 DEF vars, settings, PairsRead, GivenIn
<1>4. CASE Ends
  BY <1>4 DEF Ends, PairsRead
<1>5. CASE MakeWorker /\ ~Ends
  BY <1>5 DEF MakeWorker, PairsRead, settings
<1>6. CASE (ReadConfig \/ Construct \/ WorkersMade \/ ServerInit) /\ ~Ends
  <2>1. stage' # "file"
    BY <1>6 DEF ReadConfig, Construct, WorkersMade, ServerInit
  <2> QED
    BY <2>1 DEF PairsRead
<1> QED
  BY <1>1, <1>2, <1>3, <1>4, <1>5, <1>6 DEF Next

-----------------------------------------------------------------------------
(* The settings that have been taken over. *)

(* They stay what the files say as long as neither they nor the files they *)
(* were taken from change.                                                 *)
LEMMA SettledStays ==
  ASSUME Settled, UNCHANGED settings, Taken' = Taken, Taken \in Nat,
         \A f \in 1 .. Taken : files'[f] = files[f]
  PROVE  Settled'
<1>1. texts' = texts /\ numbers' = numbers /\ used' = used
  BY DEF settings
<1>2. \A f \in 1 .. Taken, s \in Setting : GivenIn(f, s)' <=> GivenIn(f, s)
  BY DEF GivenIn
<1>3. \A s \in Setting : NotGiven(Taken, s)' <=> NotGiven(Taken, s)
  BY <1>2 DEF NotGiven
<1>4. ASSUME NEW s \in Setting, NEW f \in 1 .. Taken, NEW i \in DOMAIN files[f]
      PROVE  LastGives(Taken, s, f, i)' <=> LastGives(Taken, s, f, i)
  <2>1. \A g \in f + 1 .. Taken : g \in 1 .. Taken
    OBVIOUS
  <2> QED
    BY <2>1, <1>2 DEF LastGives
<1>5. TextSetting \subseteq Setting /\ NumberSetting \subseteq Setting /\ Optional \subseteq Setting
      /\ DOMAIN DefaultNumber \subseteq Setting
  BY DEF Setting, TextSetting, NumberSetting, Optional, DefaultNumber
<1>6. TextsTaken'
  BY <1>1, <1>3, <1>4, <1>5 DEF Settled, TextsTaken
<1>7. NumbersTaken'
  BY <1>1, <1>3, <1>4, <1>5 DEF Settled, NumbersTaken
<1>8. DefaultsKept'
  BY <1>1, <1>3, <1>5 DEF Settled, DefaultsKept
<1>9. UsedTaken'
  BY <1>1, <1>2, <1>5 DEF Settled, UsedTaken
<1> QED
  BY <1>6, <1>7, <1>8, <1>9 DEF Settled
(* Where a setting is given last, the pairs have it, or it has been taken  *)
(* over from a file before.                                                *)
LEMMA TakenOver ==
  ASSUME Types, PairsRead, stage = "file", NEW s \in Setting
  PROVE  /\ Len(files) \in Nat /\ Len(files) >= 1 /\ Taken = Len(files) - 1
         /\ s \in Assigned <=> GivenIn(Len(files), s)
         /\ \A f \in 1 .. Len(files) : \A i \in DOMAIN files[f] :
              LastGives(Len(files), s, f, i) =>
                \/ s \in Assigned /\ pairs[Key[s]] = Reduce(Behind(files[f][i]))
                \/ s \notin Assigned /\ f \in 1 .. Taken /\ LastGives(Taken, s, f, i)
<1> DEFINE n == Len(files)
<1>1. n \in Nat /\ n >= 1 /\ Taken = n - 1
  BY DEF Types, Taken
<1>2. s \in Assigned <=> GivenIn(n, s)
  BY DEF PairsRead, Assigned
<1>3. ASSUME NEW f \in 1 .. n, NEW i \in DOMAIN files[f], LastGives(n, s, f, i)
      PROVE  \/ s \in Assigned /\ pairs[Key[s]] = Reduce(Behind(files[f][i]))
             \/ s \notin Assigned /\ f \in 1 .. Taken /\ LastGives(Taken, s, f, i)
  <2>1. CASE f = n
    <3>1. FirstGives(files[n], s, i) /\ GivenIn(n, s)
      BY <1>3, <2>1 DEF LastGives, FirstGives, GivenIn
    <3> QED
      BY <1>2, <2>1, <3>1 DEF PairsRead
  <2>2. CASE f # n
    <3>1. n \in f + 1 .. n /\ f \in 1 .. Taken /\ \A g \in f + 1 .. Taken : g \in f + 1 .. n
      BY <1>1, <2>2
    <3>2. ~GivenIn(n, s) /\ LastGives(Taken, s, f, i)
      BY <1>3, <3>1 DEF LastGives
    <3> QED
      BY <1>2, <3>1, <3>2
  <2> QED
    BY <2>1, <2>2
<1> QED
  BY <1>1, <1>2, <1>3

LEMMA ReadConfigSettled ==
  ASSUME Types, PairsRead, Settled, ReadConfig
  PROVE  Settled'
<1> DEFINE n == Len(files)
<1>1. stage = "file" /\ stage' = "settings" /\ files' = files
  BY DEF ReadConfig
<1>2. Taken' = n
  BY <1>1 DEF Taken
<1>3. TextSetting \subseteq Setting /\ NumberSetting \subseteq Setting /\ Optional \subseteq Setting
      /\ DOMAIN DefaultNumber \subseteq NumberSetting
  BY DEF Setting, TextSetting, NumberSetting, Optional, DefaultNumber
<1>4. \A s \in Setting : NotGiven(n, s) => s \notin Assigned /\ NotGiven(Taken, s)
  <2>1. ASSUME NEW s \in Setting, NotGiven(n, s) PROVE s \notin Assigned /\ NotGiven(Taken, s)
    <3>1. n \in 1 .. n /\ \A f \in 1 .. Taken : f \in 1 .. n
      BY <1>1, TakenOver
    <3> QED
      BY <1>1, <2>1, <3>1, TakenOver DEF NotGiven
  <2> QED
    BY <2>1
<1>5. \A s \in Setting : \A f \in 1 .. n : \A i \in DOMAIN files[f] :
        LastGives(Taken, s, f, i)' <=> LastGives(n, s, f, i)
  BY <1>1, <1>2 DEF LastGives, GivenIn
<1>6. TextsTaken'
  <2>1. ASSUME NEW s \in TextSetting, NotGiven(Taken, s)' PROVE texts'[s] = DefaultText[s]
    <3>1. s \notin Assigned /\ NotGiven(Taken, s)
      BY <1>1, <1>2, <1>3, <1>4, <2>1 DEF NotGiven, GivenIn
    <3> QED
      BY <3>1 DEF ReadConfig, Settled, TextsTaken
  <2>2. ASSUME NEW s \in TextSetting, NEW f \in 1 .. n, NEW i \in DOMAIN files[f],
               LastGives(Taken, s, f, i)'
        PROVE  texts'[s] = Reduce(Behind(files[f][i]))
    <3>1. LastGives(n, s, f, i)
      BY <1>3, <1>5, <2>2
    <3>2. CASE s \in Assigned /\ pairs[Key[s]] = Reduce(Behind(files[f][i]))
      BY <3>2 DEF ReadConfig
    <3>3. CASE s \notin Assigned /\ f \in 1 .. Taken /\ LastGives(Taken, s, f, i)
      BY <3>3 DEF ReadConfig, Settled, TextsTaken
    <3> QED
      BY <1>1, <1>3, <3>1, <3>2, <3>3, TakenOver
  <2> QED
    BY <1>1, <1>2, <2>1, <2>2 DEF TextsTaken
<1>7. NumbersTaken'
  <2>1. ASSUME NEW s \in NumberSetting, NEW f \in 1 .. n, NEW i \in DOMAIN files[f],
               LastGives(Taken, s, f, i)'
        PROVE  numbers'[s] = NumberIn(Reduce(Behind(files[f][i])))
    <3>1. LastGives(n, s, f, i)
      BY <1>3, <1>5, <2>1
    <3>2. CASE s \in Assigned /\ pairs[Key[s]] = Reduce(Behind(files[f][i]))
      BY <3>2 DEF ReadConfig
    <3>3. CASE s \notin Assigned /\ f \in 1 .. Taken /\ LastGives(Taken, s, f, i)
      BY <3>3 DEF ReadConfig, Settled, NumbersTaken
    <3> QED
      BY <1>1, <1>3, <3>1, <3>2, <3>3, TakenOver
  <2> QED
    BY <1>1, <1>2, <2>1 DEF NumbersTaken
<1>8. DefaultsKept'
  <2>1. ASSUME NEW s \in DOMAIN DefaultNumber, NotGiven(Taken, s)'
        PROVE  numbers'[s] = DefaultNumber[s]
    <3>1. s \notin Assigned /\ NotGiven(Taken, s)
      BY <1>1, <1>2, <1>3, <1>4, <2>1 DEF NotGiven, GivenIn
    <3> QED
      BY <1>3, <3>1 DEF ReadConfig, Settled, DefaultsKept
  <2> QED
    BY <2>1 DEF DefaultsKept
<1>9. UsedTaken'
  <2>1. \A s \in Optional : s \in Assigned <=> GivenIn(Taken, s)'
    BY <1>1, <1>2, <1>3, TakenOver DEF GivenIn
  <2>2. used' = {s \in Optional : s \in Assigned}
    BY DEF ReadConfig
  <2>3. used' = {s \in Optional : GivenIn(Taken, s)}'
    BY <2>1, <2>2
  <2> QED
    BY <2>3 DEF UsedTaken
<1> QED
  BY <1>6, <1>7, <1>8, <1>9 DEF Settled

LEMMA InitSettled == Init => PairsRead /\ Settled
<1> SUFFICES ASSUME Init PROVE PairsRead /\ Settled
  OBVIOUS
<1>1. Taken = 0 /\ stage # "file" /\ texts = DefaultText
  BY DEF Init, Taken
<1>2. \A s \in DOMAIN DefaultNumber : numbers[s] = DefaultNumber[s]
  BY DEF Init, DefaultNumber, NumberSetting
<1> QED
  BY <1>1, <1>2 DEF PairsRead, Settled, TextsTaken, NumbersTaken, DefaultsKept, UsedTaken

LEMMA NextSettled == Types /\ PairsRead /\ Settled /\ [Next]_vars => Settled'
<1> SUFFICES ASSUME Types, PairsRead, Settled, [Next]_vars PROVE Settled'
  OBVIOUS
<1>0. Len(files) \in Nat /\ Taken \in Nat
  BY DEF Types, Taken
<1>1. CASE OpenFile
  <2>1. /\ Len(files') = Len(files) + 1
        /\ \A f \in 1 .. Len(files) : files'[f] = files[f]
    BY <1>1 DEF OpenFile, Types
  <2>2. Taken = Len(files) /\ Taken' = Taken
    BY <1>0, <1>1, <2>1 DEF OpenFile, Taken
  <2> QED
    BY <1>0, <1>1, <2>1, <2>2, SettledStays DEF OpenFile
<1>2. ASSUME NEW line \in Line, ReadLine(line) PROVE Settled'
  <2>1. /\ Len(files') = Len(files) /\ stage = "file" /\ stage' = "file"
        /\ \A f \in 1 .. Len(files) - 1 : files'[f] = files[f]
    BY <1>2 DEF ReadLine, Types
  <2>2. Taken = Len(files) - 1 /\ Taken' = Taken
    BY <2>1 DEF Taken
  <2> QED
    BY <1>0, <1>2, <2>1, <2>2, SettledStays DEF ReadLine
<1>3. CASE ReadConfig
  BY <1>3, ReadConfigSettled
<1>4. CASE Construct \/ MakeWorker \/ WorkersMade \/ ServerInit \/ UNCHANGED vars
  <2>1. files' = files /\ UNCHANGED settings
    BY <1>4 DEF Construct, MakeWorker, WorkersMade, ServerInit, Ends, vars
  <2>2. stage' = stage \/ (stage # "file" /\ stage' # "file")
    BY <1>4 DEF Construct, MakeWorker, WorkersMade, ServerInit, Ends, vars
  <2>3. Taken' = Taken
    BY <2>1, <2>2 DEF Taken
  <2> QED
    BY <1>0, <2>1, <2>3, SettledStays
<1> QED
  BY <1>1, <1>2, <1>3, <1>4 DEF Next

LEMMA SettledAlways == Spec => [](Types /\ PairsRead /\ Settled)
<1>1. Types /\ PairsRead /\ Settled /\ [Next]_vars => Types' /\ PairsRead' /\ Settled'
  BY NextTypes, NextPairs, NextSettled
<1> QED
  BY <1>1, InitTypes, InitSettled, PTL DEF Spec
-----------------------------------------------------------------------------
(* What the settings are in the end. *)

(* The value a setting is given with stands in the last file and there the *)
(* first line that gives it.                                               *)
LEMMA GivenIs ==
  ASSUME Types, NEW s \in Setting, IsGiven(s)
  PROVE  \E f \in 1 .. Len(files) : \E i \in DOMAIN files[f] :
           /\ LastGives(Len(files), s, f, i)
           /\ Given(s) = Trim(Behind(files[f][i])) /\ Given(s) # <<>>
           /\ Behind(files[f][i]) \in Seq(Char)
<1> DEFINE n == Len(files)
           F == {g \in DOMAIN files : GivenIn(g, s)}
           f == Max(F)
           I == {i \in DOMAIN files[f] : Gives(files[f][i], s)}
           i == Min(I)
<1>1. n \in Nat /\ DOMAIN files = 1 .. n /\ \A g \in 1 .. n : files[g] \in Seq(Line)
  BY DEF Types
<1>2. f \in F /\ \A g \in F : f >= g
  <2>1. F \in SUBSET (0 .. n) /\ F # {}
    BY <1>1 DEF IsGiven
  <2> HIDE DEF F
  <2> QED
    BY <1>1, <2>1, MaxIs
<1>3. f \in 1 .. n /\ GivenIn(f, s)
  BY <1>1, <1>2
<1> HIDE DEF f
<1>4. files[f] \in Seq(Line) /\ DOMAIN files[f] = 1 .. Len(files[f]) /\ Len(files[f]) \in Nat
  BY <1>1, <1>3
<1>5. i \in I /\ \A j \in I : i <= j
  <2>1. I \in SUBSET Nat /\ I # {}
    BY <1>3, <1>4 DEF GivenIn
  <2> HIDE DEF I
  <2> QED
    BY <2>1, MinIs
<1>6. i \in 1 .. Len(files[f]) /\ Gives(files[f][i], s)
  BY <1>4, <1>5
<1>7. FirstGives(files[f], s, i)
  <2>1. ASSUME NEW j \in 1 .. i - 1 PROVE ~Gives(files[f][j], s)
    <3>1. j \in DOMAIN files[f] /\ ~(i <= j)
      BY <1>4, <1>6
    <3> QED
      BY <1>5, <3>1
  <2> QED
    BY <1>6, <2>1 DEF FirstGives
<1>8. \A g \in f + 1 .. n : ~GivenIn(g, s)
  <2>1. ASSUME NEW g \in f + 1 .. n, GivenIn(g, s) PROVE FALSE
    <3>1. g \in DOMAIN files /\ ~(f >= g)
      BY <1>1, <1>3
    <3> QED
      BY <1>2, <2>1, <3>1
  <2> QED
    BY <2>1
<1>9. LastGives(n, s, f, i)
  BY <1>4, <1>6, <1>7, <1>8 DEF LastGives
<1>10. Given(s) = Trim(Behind(files[f][i]))
  BY DEF Given, f
<1> HIDE DEF i, I
<1>11. files[f][i] \in Line
  BY <1>4, <1>6
<1>12. files[f][i] \in Seq(Char) /\ IsAssignment(files[f][i]) /\ Trim(Behind(files[f][i])) # <<>>
  BY <1>6, <1>11, StartupAssumption DEF Gives
<1> QED
  BY <1>3, <1>4, <1>6, <1>9, <1>10, <1>12, SplitIs

LEMMA NotGivenIs ==
  ASSUME Types, NEW s \in Setting
  PROVE  IsGiven(s) <=> ~NotGiven(Len(files), s)
<1>1. DOMAIN files = 1 .. Len(files)
  BY DEF Types
<1> QED
  BY <1>1 DEF IsGiven, NotGiven

(* A setting whose value holds no blank has the value of the last file     *)
(* that gives it, there of the first line that does, however many files    *)
(* are read over each other; one that no file gives has its default,       *)
(* except worker_connections, which has none; a password or a socket is    *)
(* used when the last file gives it (SettingsAsWritten).                   *)
THEOREM SettingsAlwaysAsWritten == Spec => []SettingsAsWritten
<1>1. ASSUME Types, Settled PROVE SettingsAsWritten
  <2> SUFFICES ASSUME stage = "settings"
               PROVE  /\ \A s \in Setting : IsGiven(s) /\ ~Contains(Given(s), Blank) =>
                           IF s \in TextSetting THEN texts[s] = Given(s)
                           ELSE numbers[s] = NumberIn(Given(s))
                      /\ \A s \in TextSetting : ~IsGiven(s) => texts[s] = DefaultText[s]
                      /\ \A s \in DOMAIN DefaultNumber :
                           ~IsGiven(s) => numbers[s] = DefaultNumber[s]
                      /\ files # <<>> => used = {s \in Optional : GivenIn(Len(files), s)}
    BY DEF SettingsAsWritten
  <2>1. Taken = Len(files) /\ Len(files) \in Nat
    BY <1>1 DEF Taken, Types
  <2>2. /\ TextSetting \subseteq Setting /\ NumberSetting \subseteq Setting
        /\ DOMAIN DefaultNumber \subseteq Setting
        /\ \A s \in Setting : s \in TextSetting \/ s \in NumberSetting
    BY DEF Setting, TextSetting, NumberSetting, DefaultNumber
  <2>3. ASSUME NEW s \in TextSetting, IsGiven(s), ~Contains(Given(s), Blank)
        PROVE  texts[s] = Given(s)
    <3>1. PICK f \in 1 .. Len(files) : \E i \in DOMAIN files[f] :
                 /\ LastGives(Len(files), s, f, i)
                 /\ Given(s) = Trim(Behind(files[f][i]))
                 /\ Behind(files[f][i]) \in Seq(Char)
      BY <1>1, <2>2, <2>3, GivenIs
    <3>2. PICK i \in DOMAIN files[f] :
                 /\ LastGives(Len(files), s, f, i)
                 /\ Given(s) = Trim(Behind(files[f][i]))
                 /\ Behind(files[f][i]) \in Seq(Char)
      BY <3>1
    <3>3. Reduce(Behind(files[f][i])) = Given(s)
      BY <2>3, <3>2, ReduceIs
    <3>4. texts[s] = Reduce(Behind(files[f][i]))
      BY <1>1, <2>1, <3>2 DEF Settled, TextsTaken
    <3> QED
      BY <3>3, <3>4
  <2>4. ASSUME NEW s \in NumberSetting, IsGiven(s), ~Contains(Given(s), Blank)
        PROVE  numbers[s] = NumberIn(Given(s))
    <3>1. PICK f \in 1 .. Len(files) : \E i \in DOMAIN files[f] :
                 /\ LastGives(Len(files), s, f, i)
                 /\ Given(s) = Trim(Behind(files[f][i]))
                 /\ Behind(files[f][i]) \in Seq(Char)
      BY <1>1, <2>2, <2>4, GivenIs
    <3>2. PICK i \in DOMAIN files[f] :
                 /\ LastGives(Len(files), s, f, i)
                 /\ Given(s) = Trim(Behind(files[f][i]))
                 /\ Behind(files[f][i]) \in Seq(Char)
      BY <3>1
    <3>3. Reduce(Behind(files[f][i])) = Given(s)
      BY <2>4, <3>2, ReduceIs
    <3> QED
      BY <1>1, <2>1, <3>2, <3>3 DEF Settled, NumbersTaken
  <2>5. files # <<>> => used = {s \in Optional : GivenIn(Len(files), s)}
    <3>1. files # <<>> => Taken > 0
      BY <1>1, <2>1 DEF Types
    <3> QED
      BY <1>1, <2>1, <3>1 DEF Settled, UsedTaken
  <2>6. \A s \in Setting : ~IsGiven(s) => NotGiven(Taken, s)
    BY <1>1, <2>1, NotGivenIs
  <2>7. \A s \in TextSetting : ~IsGiven(s) => texts[s] = DefaultText[s]
    BY <1>1, <2>2, <2>6 DEF Settled, TextsTaken
  <2>8. \A s \in DOMAIN DefaultNumber : ~IsGiven(s) => numbers[s] = DefaultNumber[s]
    BY <1>1, <2>2, <2>6 DEF Settled, DefaultsKept
  <2> QED
    BY <2>2, <2>3, <2>4, <2>5, <2>7, <2>8
<1> QED
  BY <1>1, SettledAlways, PTL

-----------------------------------------------------------------------------
(* The workers. *)

LEMMA NextReady == Types /\ WorkersReady /\ [Next]_vars => WorkersReady'
<1> SUFFICES ASSUME Types, WorkersReady, [Next]_vars PROVE WorkersReady'
  OBVIOUS
<1>1. CASE OpenFile \/ ReadConfig \/ \E line \in Line : ReadLine(line)
  <2>1. stage \in {"settings", "file"} /\ stage' \in {"settings", "file"} /\ workers' = workers
    BY <1>1 DEF OpenFile, ReadConfig, ReadLine
  <2> QED
    BY <2>1 DEF WorkersReady
<1>2. CASE Ends
  BY <1>2 DEF Ends, WorkersReady
<1>3. CASE Construct
  <2>1. workers' = <<>> /\ stage' = "workers" /\ numbers' = numbers
    BY <1>3 DEF Construct, WorkersReady, settings
  <2>2. numbers["worker_threads"] \in Nat
    BY DEF Types, NumberSetting
  <2> QED
    BY <2>1, <2>2 DEF WorkersReady
<1>4. CASE MakeWorker /\ ~Ends
  <2> DEFINE w == [linked |-> Links, idle |-> numbers["worker_connections"]]
             W == [linked : BOOLEAN, idle : 0 .. MaxNumber]
  <2>1. /\ stage = "workers" /\ stage' = "workers" /\ UNCHANGED settings
        /\ workers' = Append(workers, w) /\ Len(workers) < numbers["worker_threads"]
    BY <1>4 DEF MakeWorker
  <2>2. numbers["worker_threads"] \in Nat /\ workers \in Seq(W)
    BY DEF Types, NumberSetting
  <2>3. w.linked = Links /\ Links' = Links
    BY <2>1 DEF Links, settings
  <2> HIDE DEF w, W
  <2>4. /\ Len(workers') = Len(workers) + 1 /\ DOMAIN workers' = 1 .. Len(workers) + 1
        /\ Len(workers) \in Nat /\ DOMAIN workers = 1 .. Len(workers)
        /\ \A i \in 1 .. Len(workers) : workers'[i] = workers[i]
        /\ workers'[Len(workers) + 1] = w
    BY <2>1, <2>2
  <2>5. \A i \in DOMAIN workers' : workers'[i].linked = Links
    BY <2>1, <2>3, <2>4 DEF WorkersReady
  <2>6. Len(workers') <= numbers["worker_threads"]
    BY <2>1, <2>2, <2>4
  <2> QED
    BY <2>1, <2>3, <2>5, <2>6 DEF WorkersReady, settings
<1>5. CASE WorkersMade \/ (ServerInit /\ ~Ends) \/ UNCHANGED vars
  <2>1. UNCHANGED <<settings, workers>> /\ Links' = Links
    BY <1>5 DEF WorkersMade, ServerInit, vars, settings, Links
  <2>2. \/ stage' = stage
        \/ stage = "workers" /\ stage' = "init" /\ Len(workers) = numbers["worker_threads"]
        \/ stage = "init" /\ stage' = "accept"
    BY <1>5 DEF WorkersMade, ServerInit, vars
  <2> QED
    BY <2>1, <2>2 DEF WorkersReady, settings
<1> QED
  BY <1>1, <1>2, <1>3, <1>4, <1>5 DEF Next

LEMMA ReadyAlways == Spec => []WorkersReady
<1>1. Init => WorkersReady
  BY DEF Init, WorkersReady
<1> QED
  BY <1>1, NextReady, TypesAlwaysHold, PTL DEF Spec

(* A server that accepts has workers and each its link to the database,    *)
(* unless a file names a database that is none or no number of threads     *)
(* (AcceptsReady).                                                         *)
THEOREM AlwaysAcceptsReady == Spec => []AcceptsReady
<1>1. ASSUME Types, Settled, WorkersReady, stage = "accept",
             IsGiven("database") => Given("database") \in Database
      PROVE  \A i \in DOMAIN workers : workers[i].linked
  <2>1. Taken = Len(files) /\ "database" \in TextSetting /\ "database" \in Setting
    BY <1>1 DEF Taken, TextSetting, Setting
  <2>2. CASE IsGiven("database")
    <3>1. PICK f \in 1 .. Len(files) : \E i \in DOMAIN files[f] :
                 /\ LastGives(Len(files), "database", f, i)
                 /\ Given("database") = Trim(Behind(files[f][i]))
                 /\ Behind(files[f][i]) \in Seq(Char)
      BY <1>1, <2>1, <2>2, GivenIs
    <3>2. PICK i \in DOMAIN files[f] :
                 /\ LastGives(Len(files), "database", f, i)
                 /\ Given("database") = Trim(Behind(files[f][i]))
                 /\ Behind(files[f][i]) \in Seq(Char)
      BY <3>1
    <3>3. Given("database") \in Database /\ ~Contains(Given("database"), Blank)
      BY <1>1, <2>2, StartupAssumption
    <3>4. Reduce(Behind(files[f][i])) = Given("database")
      BY <3>2, <3>3, ReduceIs
    <3>5. texts["database"] = Reduce(Behind(files[f][i]))
      BY <1>1, <2>1, <3>2 DEF Settled, TextsTaken
    <3> QED
      BY <1>1, <3>3, <3>4, <3>5 DEF WorkersReady, Links
  <2>3. CASE ~IsGiven("database")
    <3>1. NotGiven(Taken, "database")
      BY <1>1, <2>1, <2>3, NotGivenIs
    <3>2. texts["database"] = DefaultText["database"]
      BY <1>1, <2>1, <3>1 DEF Settled, TextsTaken
    <3>3. Links = TRUE
      BY <3>2, StartupAssumption DEF Links
    <3> QED
      BY <1>1, <3>3 DEF WorkersReady
  <2> QED
    BY <2>2, <2>3
<1>2. ASSUME Types, Settled, WorkersReady, stage = "accept",
             IsGiven("worker_threads") =>
               Given("worker_threads")[1] \in {Digits[d] : d \in 2 .. 10}
      PROVE  workers # <<>>
  <2>1. Taken = Len(files) /\ "worker_threads" \in NumberSetting /\ "worker_threads" \in Setting
    BY <1>2 DEF Taken, NumberSetting, Setting
  <2>2. Len(workers) = numbers["worker_threads"]
    BY <1>2 DEF WorkersReady
  <2>3. CASE IsGiven("worker_threads")
    <3>1. PICK f \in 1 .. Len(files) : \E i \in DOMAIN files[f] :
                 /\ LastGives(Len(files), "worker_threads", f, i)
                 /\ Given("worker_threads") = Trim(Behind(files[f][i]))
                 /\ Given("worker_threads") # <<>>
                 /\ Behind(files[f][i]) \in Seq(Char)
      BY <1>2, <2>1, <2>3, GivenIs
    <3>2. PICK i \in DOMAIN files[f] :
                 /\ LastGives(Len(files), "worker_threads", f, i)
                 /\ Given("worker_threads") = Trim(Behind(files[f][i]))
                 /\ Given("worker_threads") # <<>>
                 /\ Behind(files[f][i]) \in Seq(Char)
      BY <3>1
    <3> DEFINE r == Reduce(Behind(files[f][i]))
    <3>3. r \in Seq(Char) /\ r # <<>> /\ r[1] = Given("worker_threads")[1]
      BY <3>2, ReduceIs
    <3>4. Positive(r)
      BY <1>2, <2>3, <3>3 DEF Positive
    <3>5. NumberIn(r) >= 1
      BY <3>3, <3>4, NumberIs
    <3>6. numbers["worker_threads"] = NumberIn(r)
      BY <1>2, <2>1, <3>2 DEF Settled, NumbersTaken
    <3> QED
      BY <2>2, <3>5, <3>6
  <2>4. CASE ~IsGiven("worker_threads")
    <3>1. NotGiven(Taken, "worker_threads")
      BY <1>2, <2>1, <2>4, NotGivenIs
    <3>2. numbers["worker_threads"] = 2
      BY <1>2, <3>1 DEF Settled, DefaultsKept, DefaultNumber
    <3> QED
      BY <2>2, <3>2
  <2> QED
    BY <2>3, <2>4
<1>3. Types /\ Settled /\ WorkersReady => AcceptsReady
  BY <1>1, <1>2 DEF AcceptsReady
<1> QED
  BY <1>3, SettledAlways, ReadyAlways, PTL
=============================================================================
