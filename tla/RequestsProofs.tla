--------------------------- MODULE RequestsProofs ---------------------------
(***************************************************************************)
(* Requests for every text of any length: its types, that no argument is   *)
(* empty or begins with a dot, and that the parser reads what one reading  *)
(* from left to right does.                                                *)
(***************************************************************************)
EXTENDS RequestsProperties, SequenceTheorems, LeastNumber, TLAPS

LEMMA FirstFound ==
  ASSUME text \in Seq(Char), NEW i \in 1 .. End, NEW hits
  PROVE  /\ First(i, hits) \in i .. End
         /\ First(i, hits) = End \/ First(i, hits) \in hits
         /\ \A j \in i .. First(i, hits) - 1 : j \notin hits
<1> DEFINE T == {k \in i .. End : k = End \/ k \in hits}
<1>1. End \in Nat
  BY DEF End
<1>2. T \in SUBSET Nat /\ End \in T
  BY <1>1
<1>3. PICK k \in T : \A y \in T : k <= y
  BY <1>2, Least
<1>4. \A j \in i .. k - 1 : j \notin hits
  BY <1>1, <1>3
<1>5. \E m \in i .. End : (m = End \/ m \in hits) /\ \A j \in i .. m - 1 : j \notin hits
  BY <1>3, <1>4
<1> QED
  BY <1>5 DEF First

-----------------------------------------------------------------------------
(* The characters that stay. *)

(* What stays of the first i characters. *)
Unescaped(s, i, before) == IF i \in Kept(s) THEN Append(before, s[i]) ELSE before

(* The recursion of Unescape has a function to define. *)
LEMMA UnescapeDefined ==
  ASSUME NEW s \in Seq(Char)
  PROVE  \E u : /\ Unescape(s) = u[Len(s)]
                /\ \A i \in 0 .. Len(s) :
                     u[i] = IF i = 0 THEN <<>> ELSE Unescaped(s, i, u[i - 1])
<1> DEFINE g == [x \in (1 .. Len(s)) \X Seq(Char) |-> Unescaped(s, x[1], x[2])]
<1>1. Len(s) \in Nat /\ <<>> \in Seq(Char)
  OBVIOUS
<1>2. g \in [(1 .. Len(s)) \X Seq(Char) -> Seq(Char)]
  <2>1. ASSUME NEW i \in 1 .. Len(s), NEW q \in Seq(Char) PROVE Unescaped(s, i, q) \in Seq(Char)
    BY DEF Unescaped
  <2> QED
    BY <2>1
<1>3. PICK f \in [0 .. Len(s) -> Seq(Char)] : Recurs(f, Len(s), <<>>, g)
  <2> HIDE DEF g
  <2> QED
    BY <1>1, <1>2, Recursion
<1>4. \A i \in 0 .. Len(s) : f[i] = IF i = 0 THEN <<>> ELSE Unescaped(s, i, f[i - 1])
  <2>1. ASSUME NEW i \in 0 .. Len(s), i # 0
        PROVE  g[<<i, f[i - 1]>>] = Unescaped(s, i, f[i - 1])
    <3>1. i \in 1 .. Len(s) /\ f[i - 1] \in Seq(Char)
      BY <2>1, <1>1
    <3> QED
      BY <3>1
  <2> QED
    BY <1>3, <2>1 DEF Recurs
<1>5. f = [i \in 0 .. Len(s) |-> IF i = 0 THEN <<>>
                                 ELSE IF i \in Kept(s) THEN Append(f[i - 1], s[i])
                                 ELSE f[i - 1]]
  BY <1>4 DEF Unescaped
<1>6. PICK u : /\ u = [i \in 0 .. Len(s) |-> IF i = 0 THEN <<>>
                                             ELSE IF i \in Kept(s) THEN Append(u[i - 1], s[i])
                                             ELSE u[i - 1]]
               /\ Unescape(s) = u[Len(s)]
  BY <1>5 DEF Unescape
<1>7. \A i \in 0 .. Len(s) : u[i] = IF i = 0 THEN <<>> ELSE Unescaped(s, i, u[i - 1])
  BY <1>6 DEF Unescaped
<1> QED
  BY <1>6, <1>7

LEMMA UnescapeType ==
  ASSUME NEW s \in Seq(Char), NEW u,
         \A i \in 0 .. Len(s) : u[i] = IF i = 0 THEN <<>> ELSE Unescaped(s, i, u[i - 1])
  PROVE  \A i \in 0 .. Len(s) : u[i] \in Seq(Char)
<1> DEFINE Bad == {i \in 0 .. Len(s) : u[i] \notin Seq(Char)}
<1>1. SUFFICES ASSUME Bad # {} PROVE FALSE
  BY <1>1
<1>2. PICK i \in Bad : \A j \in Bad : i <= j
  <2>1. Bad \in SUBSET Nat
    OBVIOUS
  <2> HIDE DEF Bad
  <2> QED
    BY <1>1, <2>1, Least
<1>3. i # 0
  <2>1. u[0] = <<>> /\ <<>> \in Seq(Char)
    OBVIOUS
  <2> QED
    BY <2>1
<1>4. i \in 1 .. Len(s) /\ i - 1 \in 0 .. Len(s) /\ i - 1 \notin Bad
  <2>1. i \in 0 .. Len(s) /\ ~(i <= i - 1)
    OBVIOUS
  <2> QED
    BY <1>2, <1>3, <2>1
<1>5. u[i - 1] \in Seq(Char) /\ s[i] \in Char
  BY <1>4
<1>6. u[i] = Unescaped(s, i, u[i - 1])
  BY <1>4
<1>7. u[i] \in Seq(Char)
  BY <1>5, <1>6 DEF Unescaped
<1> QED
  BY <1>7

LEMMA PartType ==
  ASSUME NEW s \in Seq(Char)
  PROVE  /\ Part(s) \in Seq(Char)
         /\ Part(s) # <<>> => Part(s)[1] # Dot
<1>1. Unescape(s) \in Seq(Char)
  <2>1. Len(s) \in 0 .. Len(s)
    OBVIOUS
  <2> QED
    BY <2>1, UnescapeDefined, UnescapeType
<1> QED
  BY <1>1 DEF Part

-----------------------------------------------------------------------------
(* The parser. *)

(* The types, with where begin stands: a round begins at a character that  *)
(* is not white space.                                                     *)
Types ==
  /\ TypeOK
  /\ arg \in Seq(Char) /\ args \in Seq(Seq(Char))
  /\ pc = "part" => begin < End /\ text[begin] # Space
  /\ pc = "end" => begin = End \/ text[begin] = Space

(* What has been put together of an argument has come through the checks   *)
(* of its parts, and at its end there is something of it.                  *)
Checked ==
  /\ arg # <<>> => arg[1] # Dot
  /\ pc = "end" /\ valid => arg # <<>>

Inv == Types /\ Checked /\ ArgumentsAreNames

LEMMA EndType == ASSUME text \in Seq(Char) PROVE End \in Nat /\ End >= 1 /\ End = Len(text) + 1
  BY DEF End

LEMMA Between ==
  ASSUME NEW t \in Seq(Char), NEW a \in 1 .. Len(t) + 1, NEW b \in a - 1 .. Len(t)
  PROVE  SubSeq(t, a, b) \in Seq(Char)
  BY SubSeqProperties

LEMMA NextArgumentIs ==
  ASSUME text \in Seq(Char), NEW i \in 1 .. End
  PROVE  /\ NextArgument(i) \in i .. End
         /\ NextArgument(i) < End => text[NextArgument(i)] # Space
  BY FirstFound, EndType DEF NextArgument

LEMMA DelimitedIs ==
  ASSUME text \in Seq(Char), NEW from \in 1 .. End, from < End, NEW delimiters
  PROVE  Delimited(from, delimiters) \in from + 1 .. End
<1>1. from + 1 \in 1 .. End
  BY EndType
<1> QED
  BY <1>1, FirstFound DEF Delimited

LEMMA InitInv == Init => Inv
<1> SUFFICES ASSUME Init PROVE Inv
  OBVIOUS
<1>1. text \in Seq(Char)
  BY RequestsAssumption DEF Init
<1>2. TypeOK
  BY <1>1, EndType, RequestsAssumption DEF Init, TypeOK
<1> QED
  BY <1>2 DEF Init, Inv, Types, Checked, ArgumentsAreNames

LEMMA ProcessInv ==
  ASSUME Inv, Process
  PROVE  Inv'
<1>1. text \in Seq(Char) /\ 1 \in 1 .. End
  BY EndType DEF Inv, Types, TypeOK
<1>2. begin' \in 1 .. End /\ (begin' < End => text[begin'] # Space)
  BY <1>1, NextArgumentIs DEF Process
<1>3. End' = End /\ End \in Nat
  BY <1>1, EndType DEF Process, End
<1>4. TypeOK'
  BY <1>2, <1>3 DEF Inv, Types, TypeOK, Process, Found
<1> QED
  BY <1>2, <1>3, <1>4 DEF Inv, Types, Checked, ArgumentsAreNames, Process, Found

(* A round that has read a part and goes on at b. *)
LEMMA PartReadInv ==
  ASSUME Inv, NEW part \in Seq(Char), part # <<>> => part[1] # Dot, NEW b \in 1 .. End,
         PartRead(part, b)
  PROVE  Inv'
<1>1. text \in Seq(Char) /\ arg \in Seq(Char) /\ valid \in BOOLEAN
  BY DEF Inv, Types, TypeOK
<1>2. End' = End /\ End \in Nat
  BY <1>1, EndType DEF PartRead, End
<1>3. /\ arg \o part \in Seq(Char)
      /\ part # <<>> => arg \o part # <<>>
      /\ arg \o part # <<>> => (arg \o part)[1] = IF arg = <<>> THEN part[1] ELSE arg[1]
  BY <1>1
<1>4. Types'
  BY <1>1, <1>2, <1>3 DEF Inv, Types, TypeOK, PartRead
<1>5. Checked'
  BY <1>3 DEF Inv, Checked, PartRead
<1> QED
  BY <1>4, <1>5 DEF Inv, ArgumentsAreNames, PartRead

LEMMA QuotedInv ==
  ASSUME Inv, ParseQuotedArgument
  PROVE  Inv'
<1> DEFINE e == Delimited(begin, {Quote})
           s == SubSeq(text, begin + 1, e - 1)
<1>1. text \in Seq(Char) /\ begin \in 1 .. End /\ begin < End
  BY DEF Inv, Types, TypeOK, ParseQuotedArgument
<1>2. e \in begin + 1 .. End
  BY <1>1, DelimitedIs
<1>3. CASE e = End /\ PartRead(<<>>, begin)
  <2>1. /\ PartRead(<<>>, begin) /\ begin \in 1 .. End
        /\ <<>> \in Seq(Char) /\ (<<>> # <<>> => <<>>[1] # Dot)
    BY <1>1, <1>3
  <2> QED
    BY <2>1, PartReadInv
<1>4. CASE e < End /\ PartRead(Part(s), e + 1)
  <2>1. s \in Seq(Char)
    <3>1. begin + 1 \in 1 .. Len(text) + 1 /\ e - 1 \in begin .. Len(text)
      BY <1>1, <1>2, EndType
    <3> HIDE DEF e
    <3> QED
      BY <1>1, <3>1, Between
  <2>2. e + 1 \in 1 .. End
    BY <1>1, <1>2, <1>4, EndType
  <2> HIDE DEF s, e
  <2> QED
    BY <1>4, <2>1, <2>2, PartType, PartReadInv
<1>5. \/ e = End /\ PartRead(<<>>, begin)
      \/ e < End /\ PartRead(Part(s), e + 1)
  BY DEF ParseQuotedArgument
<1> QED
  BY <1>3, <1>4, <1>5

LEMMA RegularInv ==
  ASSUME Inv, ParseRegularArgument
  PROVE  Inv'
<1> DEFINE e == Delimited(begin, {Space, Quote})
           s == SubSeq(text, begin, e - 1)
<1>1. text \in Seq(Char) /\ begin \in 1 .. End /\ begin < End
  BY DEF Inv, Types, TypeOK, ParseRegularArgument
<1>2. e \in begin + 1 .. End
  BY <1>1, DelimitedIs
<1>3. s \in Seq(Char)
  <2>1. begin \in 1 .. Len(text) + 1 /\ e - 1 \in begin - 1 .. Len(text)
    BY <1>1, <1>2, EndType
  <2> HIDE DEF e
  <2> QED
    BY <1>1, <2>1, Between
<1>4. e \in 1 .. End
  BY <1>1, <1>2, EndType
<1>5. PartRead(Part(s), e)
  BY DEF ParseRegularArgument
<1> HIDE DEF s, e
<1> QED
  BY <1>3, <1>4, <1>5, PartType, PartReadInv

LEMMA SingleInv ==
  ASSUME Inv, ParseSingleArgument
  PROVE  Inv'
<1>1. text \in Seq(Char) /\ begin \in 1 .. End
  BY DEF Inv, Types, TypeOK
<1>2. begin' \in begin .. End /\ (begin' < End => text[begin'] # Space)
  BY <1>1, NextArgumentIs DEF ParseSingleArgument
<1>3. End' = End /\ End \in Nat
  BY <1>1, EndType DEF ParseSingleArgument, End
<1>4. Types'
  <2>1. args' \in Seq(Seq(Char))
    BY DEF Inv, Types, ParseSingleArgument
  <2>2. begin' \in 1 .. End
    BY <1>1, <1>2, <1>3
  <2> QED
    BY <1>2, <1>3, <2>1, <2>2 DEF Inv, Types, TypeOK, ParseSingleArgument, Found
<1>5. ArgumentsAreNames'
  <2>1. CASE ~valid
    BY <2>1 DEF Inv, ArgumentsAreNames, ParseSingleArgument
  <2>2. CASE valid
    <3>1. arg # <<>> /\ arg[1] # Dot /\ args \in Seq(Seq(Char)) /\ args' = Append(args, arg)
      BY <2>2 DEF Inv, Types, Checked, ParseSingleArgument
    <3>2. \A i \in 1 .. Len(args') : args'[i] = IF i = Len(args) + 1 THEN arg ELSE args[i]
      BY <3>1
    <3> QED
      BY <3>1, <3>2 DEF Inv, Types, ArgumentsAreNames
  <2> QED
    BY <2>1, <2>2 DEF Inv, Types, TypeOK
<1>6. Checked'
  BY DEF Checked, ParseSingleArgument, Found
<1> QED
  BY <1>4, <1>5, <1>6 DEF Inv

LEMMA NextInv == Inv /\ [Next]_vars => Inv'
<1> SUFFICES ASSUME Inv, [Next]_vars PROVE Inv'
  OBVIOUS
<1>1. CASE Rejected
  BY <1>1 DEF Rejected, Inv, Types, TypeOK, Checked, ArgumentsAreNames, End
<1>2. CASE UNCHANGED vars
  BY <1>2 DEF vars, Inv, Types, TypeOK, Checked, ArgumentsAreNames, End
<1> QED
  BY <1>1, <1>2, ProcessInv, QuotedInv, RegularInv, SingleInv DEF Next

(* The types of Requests, for every text. *)
THEOREM RequestTypes == Spec => []TypeOK
<1>1. Inv => TypeOK
  BY DEF Inv, Types
<1> QED
  BY <1>1, InitInv, NextInv, PTL DEF Spec

(* Whatever is written, no argument is empty or begins with a dot.         *)
THEOREM ArgumentsAlwaysNames == Spec => []ArgumentsAreNames
<1>1. Inv => ArgumentsAreNames
  BY DEF Inv
<1> QED
  BY <1>1, InitInv, NextInv, PTL DEF Spec
-----------------------------------------------------------------------------
(* The reader. *)

ReaderType ==
  [mode : {"out", "bare", "quoted", "behind"}, escape : BOOLEAN, part : Seq(Char),
   arg : Seq(Char), ok : BOOLEAN, args : Seq(Seq(Char))]

LEMMA EndPartIs ==
  ASSUME NEW r \in ReaderType
  PROVE  /\ EndPart(r) \in ReaderType /\ LeaveBare(r) \in ReaderType
         /\ EndPart(r) = [r EXCEPT !.part = <<>>,
                                   !.ok = IF r.part = <<>> \/ r.part[1] = Dot THEN FALSE ELSE r.ok,
                                   !.arg = IF r.part = <<>> \/ r.part[1] = Dot THEN r.arg
                                           ELSE r.arg \o r.part]
<1>1. r.arg \o r.part \in Seq(Char) /\ <<>> \in Seq(Char)
  BY DEF ReaderType
<1>2. EndPart(r) = [r EXCEPT !.part = <<>>,
                              !.ok = IF r.part = <<>> \/ r.part[1] = Dot THEN FALSE ELSE r.ok,
                              !.arg = IF r.part = <<>> \/ r.part[1] = Dot THEN r.arg
                                      ELSE r.arg \o r.part]
  BY <1>1 DEF EndPart, ReaderType
<1>3. EndPart(r) \in ReaderType
  BY <1>1, <1>2 DEF ReaderType
<1> QED
  BY <1>2, <1>3 DEF LeaveBare

LEMMA EndArgumentIs ==
  ASSUME NEW r \in ReaderType
  PROVE  /\ EndArgument(r) \in ReaderType
         /\ EndArgument(r) = [Reader EXCEPT !.args =
                                IF LeaveBare(r).mode # "out" /\ LeaveBare(r).ok
                                THEN Append(LeaveBare(r).args, LeaveBare(r).arg)
                                ELSE LeaveBare(r).args]
<1>1. LeaveBare(r) \in ReaderType
  BY EndPartIs
<1>2. <<>> \in Seq(Char) /\ <<>> \in Seq(Seq(Char))
  OBVIOUS
<1>3. Append(LeaveBare(r).args, LeaveBare(r).arg) \in Seq(Seq(Char)) /\ LeaveBare(r).args \in Seq(Seq(Char))
  BY <1>1 DEF ReaderType
<1> QED
  BY <1>2, <1>3 DEF EndArgument, Reader, ReaderType

(* The five ways to read a character. *)
LEMMA ReadIs ==
  ASSUME NEW r \in ReaderType, NEW ch \in Char
  PROVE  /\ r.escape => Read(r, ch) = Take(r, ch)
         /\ ~r.escape /\ ch = Backslash =>
              Read(r, ch) = [r EXCEPT !.escape = TRUE,
                                      !.mode = IF r.mode = "quoted" THEN "quoted" ELSE "bare"]
         /\ ~r.escape /\ ch = Quote /\ r.mode = "quoted" =>
              Read(r, ch) = [EndPart(r) EXCEPT !.mode = "behind"]
         /\ ~r.escape /\ ch = Quote /\ r.mode # "quoted" =>
              Read(r, ch) = [LeaveBare(r) EXCEPT !.mode = "quoted"]
         /\ ~r.escape /\ ch = Space /\ r.mode # "quoted" => Read(r, ch) = EndArgument(r)
         /\ ~r.escape /\ ch \notin {Backslash, Quote} /\ (ch = Space => r.mode = "quoted") =>
              Read(r, ch) = [Take(r, ch) EXCEPT !.mode = IF r.mode = "quoted" THEN "quoted" ELSE "bare"]
<1>1. Backslash # Quote /\ Backslash # Space /\ Quote # Space
  BY DEF Backslash, Quote, Space
<1>2. /\ [r EXCEPT !.mode = IF @ = "quoted" THEN @ ELSE "bare"]
           = [r EXCEPT !.mode = IF r.mode = "quoted" THEN "quoted" ELSE "bare"]
      /\ Take(r, ch).mode = r.mode
  BY DEF ReaderType, Take
<1> QED
  BY <1>1, <1>2 DEF Read, ReaderType

LEMMA ReadType ==
  ASSUME NEW r \in ReaderType, NEW ch \in Char
  PROVE  Read(r, ch) \in ReaderType
<1>1. Take(r, ch) \in ReaderType
  <2>1. Append(r.part, ch) \in Seq(Char)
    BY DEF ReaderType
  <2> QED
    BY <2>1 DEF Take, ReaderType
<1>2. EndPart(r) \in ReaderType /\ LeaveBare(r) \in ReaderType /\ EndArgument(r) \in ReaderType
  BY EndPartIs, EndArgumentIs
<1>3. \A q \in ReaderType, m \in {"out", "bare", "quoted", "behind"} : [q EXCEPT !.mode = m] \in ReaderType
  BY DEF ReaderType
<1>4. \A m \in {"out", "bare", "quoted", "behind"} : [r EXCEPT !.escape = TRUE, !.mode = m] \in ReaderType
  BY DEF ReaderType
<1>5. (IF r.mode = "quoted" THEN "quoted" ELSE "bare") \in {"out", "bare", "quoted", "behind"}
  OBVIOUS
<1>6. CASE r.escape
  BY <1>1, <1>6, ReadIs
<1>7. CASE ~r.escape /\ ch = Backslash
  BY <1>4, <1>5, <1>7, ReadIs
<1>8. CASE ~r.escape /\ ch = Quote
  <2>1. CASE r.mode = "quoted"
    <3>1. Read(r, ch) = [EndPart(r) EXCEPT !.mode = "behind"]
      BY <1>8, <2>1, ReadIs
    <3> QED
      BY <1>2, <1>3, <3>1
  <2>2. CASE r.mode # "quoted"
    <3>1. Read(r, ch) = [LeaveBare(r) EXCEPT !.mode = "quoted"]
      BY <1>8, <2>2, ReadIs
    <3> QED
      BY <1>2, <1>3, <3>1
  <2> QED
    BY <2>1, <2>2
<1>9. CASE ~r.escape /\ ch = Space /\ r.mode # "quoted"
  BY <1>2, <1>9, ReadIs
<1>10. CASE ~r.escape /\ ch \notin {Backslash, Quote} /\ (ch = Space => r.mode = "quoted")
  BY <1>1, <1>3, <1>5, <1>10, ReadIs
<1> QED
  BY <1>6, <1>7, <1>8, <1>9, <1>10

LEMMA ReaderIs == Reader \in ReaderType
<1>1. <<>> \in Seq(Char) /\ <<>> \in Seq(Seq(Char))
  OBVIOUS
<1> QED
  BY <1>1 DEF Reader, ReaderType

(* The recursion of Reading has a function to define. *)
LEMMA ReadingIs ==
  ASSUME text \in Seq(Char)
  PROVE  /\ Reading[0] = Reader
         /\ \A i \in 1 .. Len(text) : Reading[i] = Read(Reading[i - 1], text[i])
         /\ \A i \in 0 .. Len(text) : Reading[i] \in ReaderType
<1> DEFINE n == Len(text)
           g == [x \in (1 .. n) \X ReaderType |-> Read(x[2], text[x[1]])]
<1>1. n \in Nat /\ Reader \in ReaderType /\ \A i \in 1 .. n : text[i] \in Char
  BY ReaderIs
<1>2. g \in [(1 .. n) \X ReaderType -> ReaderType]
  <2>1. ASSUME NEW i \in 1 .. n, NEW q \in ReaderType PROVE Read(q, text[i]) \in ReaderType
    BY <1>1, ReadType
  <2> QED
    BY <2>1
<1>3. PICK f \in [0 .. n -> ReaderType] : Recurs(f, n, Reader, g)
  <2> HIDE DEF g, n
  <2> QED
    BY <1>1, <1>2, Recursion
<1>4. \A i \in 0 .. n : f[i] = IF i = 0 THEN Reader ELSE Read(f[i - 1], text[i])
  <2>1. ASSUME NEW i \in 0 .. n, i # 0
        PROVE  g[<<i, f[i - 1]>>] = Read(f[i - 1], text[i])
    <3>1. i \in 1 .. n /\ f[i - 1] \in ReaderType
      BY <2>1, <1>1
    <3> QED
      BY <3>1
  <2> QED
    BY <1>3, <2>1 DEF Recurs
<1>5. f = [i \in 0 .. Len(text) |-> IF i = 0 THEN Reader ELSE Read(f[i - 1], text[i])]
  BY <1>4
<1>6. Reading = [i \in 0 .. Len(text) |-> IF i = 0 THEN Reader ELSE Read(Reading[i - 1], text[i])]
  BY <1>5 DEF Reading
<1>7. \A i \in 0 .. n : Reading[i] = IF i = 0 THEN Reader ELSE Read(Reading[i - 1], text[i])
  BY <1>6
<1> DEFINE Bad == {i \in 0 .. n : Reading[i] \notin ReaderType}
<1>8. Bad = {}
  <2>1. SUFFICES ASSUME Bad # {} PROVE FALSE
    BY <2>1
  <2>2. PICK i \in Bad : \A j \in Bad : i <= j
    <3>1. Bad \in SUBSET Nat
      BY <1>1
    <3> HIDE DEF Bad
    <3> QED
      BY <2>1, <3>1, Least
  <2>3. i # 0
    BY <1>1, <1>7
  <2>4. i \in 1 .. n /\ i - 1 \in 0 .. n /\ i - 1 \notin Bad
    <3>1. i \in 0 .. n /\ ~(i <= i - 1)
      BY <1>1
    <3> QED
      BY <2>2, <2>3, <3>1, <1>1
  <2>5. Reading[i - 1] \in ReaderType /\ Reading[i] = Read(Reading[i - 1], text[i])
    BY <2>3, <2>4, <1>7
  <2>6. Reading[i] \in ReaderType
    BY <2>4, <2>5, <1>1, ReadType
  <2> QED
    BY <2>6
<1> QED
  BY <1>1, <1>7, <1>8
-----------------------------------------------------------------------------
(* One part of an argument, read character by character. *)

(* Where no backslash follows another, a delimiter is escaped when one     *)
(* stands before it.                                                       *)
LEMMA DelimitedPlain ==
  ASSUME text \in Seq(Char), Plain, NEW from \in 1 .. Len(text), NEW delimiters
  PROVE  LET e == Delimited(from, delimiters)
         IN  /\ e \in from + 1 .. End
             /\ \A k \in from + 1 .. e - 1 : text[k] \in delimiters => text[k - 1] = Backslash
             /\ e < End => text[e] \in delimiters /\ text[e - 1] # Backslash
<1> DEFINE e == Delimited(from, delimiters)
           hits == {k \in from + 1 .. Len(text) : text[k] \in delimiters /\ ~IsEscaped(from, k)}
<1>1. End = Len(text) + 1 /\ Len(text) \in Nat /\ from + 1 \in 1 .. End
  BY EndType
<1>2. \A k \in from + 1 .. Len(text) : IsEscaped(from, k) <=> text[k - 1] = Backslash
  <2>1. ASSUME NEW k \in from + 1 .. Len(text), k - from > 2, text[k - 2] = Backslash
        PROVE  text[k - 1] # Backslash
    <3>1. k - 2 \in 1 .. Len(text) /\ (k - 2) + 1 = k - 1
      BY <1>1, <2>1
    <3> QED
      BY <2>1, <3>1 DEF Plain
  <2> QED
    BY <2>1 DEF IsEscaped
<1>3. /\ e \in from + 1 .. End
      /\ e = End \/ e \in hits
      /\ \A j \in from + 1 .. e - 1 : j \notin hits
  <2> HIDE DEF hits
  <2>1. e = First(from + 1, hits)
    BY DEF Delimited, hits
  <2> HIDE DEF e
  <2> QED
    BY <1>1, <2>1, FirstFound
<1> HIDE DEF e
<1>4. ASSUME NEW k \in from + 1 .. e - 1, text[k] \in delimiters
      PROVE  text[k - 1] = Backslash
  BY <1>1, <1>2, <1>3, <1>4
<1>5. e < End => text[e] \in delimiters /\ text[e - 1] # Backslash
  BY <1>1, <1>2, <1>3
<1> QED
  BY <1>3, <1>4, <1>5 DEF e

LEMMA SameReader ==
  ASSUME NEW p \in ReaderType, NEW q \in ReaderType, p.mode = q.mode, p.escape = q.escape,
         p.part = q.part, p.arg = q.arg, p.ok = q.ok, p.args = q.args
  PROVE  p = q
<1>1. p = [mode |-> p.mode, escape |-> p.escape, part |-> p.part, arg |-> p.arg, ok |-> p.ok,
           args |-> p.args]
  BY DEF ReaderType
<1>2. q = [mode |-> q.mode, escape |-> q.escape, part |-> q.part, arg |-> q.arg, ok |-> q.ok,
           args |-> q.args]
  BY DEF ReaderType
<1> QED
  BY <1>1, <1>2, Zenon

(* The reader r after n characters of s, of which q stays.                 *)
Ran(r, s, q, n) ==
  [mode |-> IF r.mode = "quoted" \/ n = 0 THEN r.mode ELSE "bare",
   escape |-> n > 0 /\ s[n] = Backslash,
   part |-> q, arg |-> r.arg, ok |-> r.ok, args |-> r.args]

(* No backslash follows another or is all there is, and every delimiter    *)
(* follows one.                                                            *)
IsPart(s, quoted) ==
  /\ Len(s) = 1 => s[1] # Backslash
  /\ \A i \in 2 .. Len(s) : s[i - 1] = Backslash => s[i] # Backslash
  /\ \A i \in 1 .. Len(s) :
       s[i] = Quote \/ (s[i] = Space /\ ~quoted) => i > 1 /\ s[i - 1] = Backslash

LEMMA RanNext ==
  ASSUME NEW r \in ReaderType, NEW s \in Seq(Char), IsPart(s, r.mode = "quoted"),
         NEW n \in 1 .. Len(s), NEW q \in Seq(Char)
  PROVE  Read(Ran(r, s, q, n - 1), s[n]) = Ran(r, s, Unescaped(s, n, q), n)
<1> DEFINE p == Ran(r, s, q, n - 1)
           ch == s[n]
           m == IF r.mode = "quoted" THEN "quoted" ELSE "bare"
<1>1. ch \in Char /\ Append(q, ch) \in Seq(Char)
  OBVIOUS
<1>2. /\ p \in ReaderType /\ p.part = q /\ p.escape = (n > 1 /\ s[n - 1] = Backslash)
      /\ p.mode = IF r.mode = "quoted" \/ n = 1 THEN r.mode ELSE "bare"
      /\ p.arg = r.arg /\ p.ok = r.ok /\ p.args = r.args
  BY DEF Ran, ReaderType
<1>3. /\ n > 1 /\ s[n - 1] = Backslash => ch # Backslash
      /\ ch = Quote \/ (ch = Space /\ r.mode # "quoted") => n > 1 /\ s[n - 1] = Backslash
      /\ n \in Kept(s) <=> ch # Backslash
  <2>1. n > 1 => n \in 2 .. Len(s)
    OBVIOUS
  <2>2. n > 1 /\ s[n - 1] = Backslash => ch # Backslash
    BY <2>1 DEF IsPart
  <2>3. ch = Backslash => Len(s) # 1
    BY DEF IsPart
  <2>4. ch = Quote \/ (ch = Space /\ r.mode # "quoted") => n > 1 /\ s[n - 1] = Backslash
    BY DEF IsPart
  <2>5. n \in Kept(s) <=> ch # Backslash
    BY <2>2, <2>3 DEF Kept
  <2> QED
    BY <2>2, <2>4, <2>5
<1> DEFINE t == Unescaped(s, n, q)
<1>4. t = IF ch # Backslash THEN Append(q, ch) ELSE q
  BY <1>3 DEF Unescaped
<1>5. /\ Ran(r, s, t, n) \in ReaderType
      /\ Ran(r, s, t, n).mode = m /\ Ran(r, s, t, n).escape = (ch = Backslash)
      /\ Ran(r, s, t, n).part = t /\ Ran(r, s, t, n).arg = r.arg
      /\ Ran(r, s, t, n).ok = r.ok /\ Ran(r, s, t, n).args = r.args
  <2>1. t \in Seq(Char)
    BY <1>1, <1>4
  <2> HIDE DEF t
  <2>2. Ran(r, s, t, n) \in ReaderType
    BY <2>1 DEF Ran, ReaderType
  <2>3. n > 0 /\ n # 0
    OBVIOUS
  <2> QED
    BY <2>2, <2>3 DEF Ran
<1> HIDE DEF p, t, m, ch
<1>6. Read(p, ch) \in ReaderType
  BY <1>1, <1>2, ReadType
<1>7. /\ Read(p, ch).mode = m
      /\ Read(p, ch).escape = (ch = Backslash)
      /\ Read(p, ch).part = t
      /\ Read(p, ch).arg = r.arg /\ Read(p, ch).ok = r.ok /\ Read(p, ch).args = r.args
  <2>1. CASE ch = Backslash
    <3>1. Read(p, ch) = [p EXCEPT !.escape = TRUE,
                                  !.mode = IF p.mode = "quoted" THEN "quoted" ELSE "bare"]
      BY <1>1, <1>2, <1>3, <2>1, ReadIs
    <3> QED
      BY <1>2, <1>4, <2>1, <3>1 DEF ReaderType, m
  <2>2. CASE n > 1 /\ s[n - 1] = Backslash
    <3>1. Read(p, ch) = Take(p, ch)
      BY <1>1, <1>2, <2>2, ReadIs
    <3>2. Take(p, ch) = [p EXCEPT !.part = Append(q, ch), !.escape = FALSE]
      BY <1>2 DEF Take, ReaderType
    <3>3. p.mode = m /\ ch # Backslash
      BY <1>2, <1>3, <2>2 DEF m
    <3>4. /\ Read(p, ch).mode = p.mode /\ Read(p, ch).escape = FALSE
          /\ Read(p, ch).part = Append(q, ch)
      BY <1>2, <3>1, <3>2 DEF ReaderType
    <3>5. Read(p, ch).arg = p.arg /\ Read(p, ch).ok = p.ok /\ Read(p, ch).args = p.args
      BY <1>2, <3>1, <3>2 DEF ReaderType
    <3> QED
      BY <1>2, <1>4, <3>3, <3>4, <3>5
  <2>3. CASE ch # Backslash /\ ~(n > 1 /\ s[n - 1] = Backslash)
    <3>1. ~p.escape /\ ch \notin {Backslash, Quote} /\ (ch = Space => p.mode = "quoted")
      BY <1>2, <1>3, <2>3
    <3>2. Read(p, ch) = [Take(p, ch) EXCEPT !.mode = IF p.mode = "quoted" THEN "quoted" ELSE "bare"]
      BY <1>1, <1>2, <3>1, ReadIs
    <3>3. Take(p, ch) = [p EXCEPT !.part = Append(q, ch), !.escape = FALSE]
      BY <1>2 DEF Take, ReaderType
    <3>4. (IF p.mode = "quoted" THEN "quoted" ELSE "bare") = m
      BY <1>2 DEF m
    <3>5. /\ Read(p, ch).mode = m /\ Read(p, ch).escape = FALSE
          /\ Read(p, ch).part = Append(q, ch)
      BY <1>2, <3>2, <3>3, <3>4 DEF ReaderType
    <3>6. Read(p, ch).arg = p.arg /\ Read(p, ch).ok = p.ok /\ Read(p, ch).args = p.args
      BY <1>2, <3>2, <3>3 DEF ReaderType
    <3> QED
      BY <1>2, <1>4, <2>3, <3>5, <3>6
  <2> QED
    BY <2>1, <2>2, <2>3
<1>8. Read(p, ch) = Ran(r, s, t, n)
  BY <1>5, <1>6, <1>7, SameReader
<1> QED
  BY <1>8 DEF p, ch, t

(* A part has been read as what Unescape makes of it.                      *)
LEMMA PartRan ==
  ASSUME text \in Seq(Char), NEW s \in Seq(Char), NEW a \in Nat, a + Len(s) <= Len(text),
         \A i \in 1 .. Len(s) : s[i] = text[a + i],
         ~Reading[a].escape, Reading[a].part = <<>>, IsPart(s, Reading[a].mode = "quoted")
  PROVE  Reading[a + Len(s)] = Ran(Reading[a], s, Unescape(s), Len(s))
<1> DEFINE r == Reading[a]
<1>1. Len(s) \in Nat /\ a \in 0 .. Len(text) /\ r \in ReaderType
  BY ReadingIs
<1>2. PICK u : /\ Unescape(s) = u[Len(s)]
               /\ \A i \in 0 .. Len(s) : u[i] = IF i = 0 THEN <<>> ELSE Unescaped(s, i, u[i - 1])
  BY UnescapeDefined
<1>3. \A i \in 0 .. Len(s) : u[i] \in Seq(Char)
  BY <1>2, UnescapeType
<1> DEFINE Bad == {n \in 0 .. Len(s) : Reading[a + n] # Ran(r, s, u[n], n)}
<1>4. 0 \notin Bad
  <2>1. Ran(r, s, <<>>, 0) = r
    <3>1. Ran(r, s, <<>>, 0) \in ReaderType
      BY <1>1 DEF Ran, ReaderType
    <3> QED
      BY <1>1, <3>1, SameReader DEF Ran, ReaderType
  <2>2. u[0] = <<>> /\ a + 0 = a
    BY <1>2
  <2> QED
    BY <2>1, <2>2
<1>5. Bad = {}
  <2>1. SUFFICES ASSUME Bad # {} PROVE FALSE
    BY <2>1
  <2>2. PICK n \in Bad : \A j \in Bad : n <= j
    <3>1. Bad \in SUBSET Nat
      OBVIOUS
    <3> HIDE DEF Bad
    <3> QED
      BY <2>1, <3>1, Least
  <2>3. n \in 1 .. Len(s) /\ n - 1 \in 0 .. Len(s) /\ n - 1 \notin Bad
    <3>1. n \in 0 .. Len(s) /\ n # 0 /\ ~(n <= n - 1)
      BY <1>4
    <3> QED
      BY <2>2, <3>1
  <2>4. Reading[a + (n - 1)] = Ran(r, s, u[n - 1], n - 1)
    BY <2>3
  <2>5. a + n \in 1 .. Len(text) /\ (a + n) - 1 = a + (n - 1) /\ text[a + n] = s[n]
    BY <2>3
  <2>6. Reading[a + n] = Read(Reading[a + (n - 1)], s[n])
    BY <2>5, ReadingIs
  <2>7. u[n - 1] \in Seq(Char) /\ u[n] = Unescaped(s, n, u[n - 1])
    BY <1>2, <1>3, <2>3
  <2>8. Reading[a + n] = Ran(r, s, u[n], n)
    <3> HIDE DEF r, Bad
    <3>1. Read(Ran(r, s, u[n - 1], n - 1), s[n]) = Ran(r, s, Unescaped(s, n, u[n - 1]), n)
      BY <1>1, <2>3, <2>7, RanNext DEF r
    <3> QED
      BY <2>4, <2>6, <2>7, <3>1
  <2> QED
    BY <2>8
<1> QED
  BY <1>1, <1>2, <1>5
-----------------------------------------------------------------------------
(* The parser keeps step with the reader. *)

(* The parser goes round and round: the last quote is open. *)
Stuck == pc = "part" /\ text[begin] = Quote /\ Delimited(begin, {Quote}) = End

(* Where a round begins the reader is not inside a part with quotes, and   *)
(* has read the arguments and the parts of one that the parser has.        *)
InStep(r) ==
  /\ ~r.escape /\ r.mode # "quoted"
  /\ LeaveBare(r).args = args /\ LeaveBare(r).part = <<>>
  /\ LeaveBare(r).ok = valid /\ (valid => LeaveBare(r).arg = arg)
  /\ pc = "end" => r.mode # "out"
  /\ pc = "part" /\ text[begin] # Quote => r.mode # "bare"

Follows ==
  Plain =>
    /\ pc = "received" => args = <<>> /\ arg = <<>> /\ valid /\ type = "bad_request"
    /\ pc \in {"part", "end"} /\ ~Stuck => InStep(Reading[begin - 1])
    /\ pc = "done" /\ type # "bad_request" => Closed /\ args = Written

LEMMA FollowsRound ==
  ASSUME text' = text, NEW r, r = Reading[begin' - 1], InStep(r)', pc' \in {"part", "end"}
  PROVE  Follows'
<1>1. Reading' = Reading
  BY DEF Reading
<1>2. Reading'[begin' - 1] = r
  BY <1>1
<1> QED
  BY <1>2 DEF Follows, InStep

LEMMA FollowsDone ==
  ASSUME text' = text, pc' = "done", Closed, args' = Written
  PROVE  Follows'
<1>1. Reading' = Reading
  BY DEF Reading
<1>2. Closed' = Closed /\ Written' = Written
  BY <1>1 DEF Closed, Written, ReadAll
<1> QED
  BY <1>2 DEF Follows

(* The reader between arguments. *)
Out(a) == [Reader EXCEPT !.args = a]

LEMMA OutIs ==
  ASSUME NEW a \in Seq(Seq(Char))
  PROVE  /\ Out(a) \in ReaderType /\ LeaveBare(Out(a)) = Out(a) /\ EndArgument(Out(a)) = Out(a)
         /\ Out(a).mode = "out" /\ ~Out(a).escape /\ Out(a).part = <<>> /\ Out(a).arg = <<>>
         /\ Out(a).ok /\ Out(a).args = a
<1>1. /\ Out(a) \in ReaderType
      /\ Out(a).mode = "out" /\ ~Out(a).escape /\ Out(a).part = <<>> /\ Out(a).arg = <<>>
      /\ Out(a).ok /\ Out(a).args = a
  BY ReaderIs DEF Out, Reader, ReaderType
<1>2. LeaveBare(Out(a)) = Out(a)
  BY <1>1 DEF LeaveBare
<1>3. EndArgument(Out(a)) = Out(a)
  BY <1>1, <1>2, EndArgumentIs DEF Out
<1> QED
  BY <1>1, <1>2, <1>3

(* White space ends an argument, and more of it changes nothing.           *)
LEMMA SpacesRead ==
  ASSUME text \in Seq(Char), NEW a \in 0 .. Len(text), NEW c \in a + 1 .. Len(text),
         \A k \in a + 1 .. c : text[k] = Space,
         ~Reading[a].escape, Reading[a].mode # "quoted"
  PROVE  Reading[c] = Out(EndArgument(Reading[a]).args)
<1> DEFINE A == EndArgument(Reading[a]).args
           Bad == {k \in a + 1 .. c : Reading[k] # Out(A)}
<1>1. Reading[a] \in ReaderType /\ EndArgument(Reading[a]) \in ReaderType
  BY ReadingIs, EndArgumentIs
<1>2. A \in Seq(Seq(Char)) /\ EndArgument(Reading[a]) = Out(A)
  BY <1>1, EndArgumentIs DEF ReaderType, Out, Reader
<1>3. Space \in Char
  BY DEF Char
<1> HIDE DEF A
<1>4. Bad = {}
  <2>1. SUFFICES ASSUME Bad # {} PROVE FALSE
    BY <2>1
  <2>2. PICK k \in Bad : \A j \in Bad : k <= j
    <3>1. Bad \in SUBSET Nat
      OBVIOUS
    <3> HIDE DEF Bad
    <3> QED
      BY <2>1, <3>1, Least
  <2>3. k \in a + 1 .. c /\ k \in 1 .. Len(text) /\ text[k] = Space
    OBVIOUS
  <2>4. Reading[k] = Read(Reading[k - 1], Space) /\ Reading[k - 1] \in ReaderType
    BY <2>3, ReadingIs
  <2>5. CASE k = a + 1
    <3>1. Reading[k - 1] = Reading[a]
      BY <2>5
    <3>2. Reading[k] = Out(A)
      BY <1>1, <1>2, <1>3, <2>4, <3>1, ReadIs
    <3> QED
      BY <3>2
  <2>6. CASE k # a + 1
    <3>1. k - 1 \in a + 1 .. c /\ ~(k <= k - 1)
      BY <2>3, <2>6
    <3>2. Reading[k - 1] = Out(A)
      BY <2>2, <3>1
    <3>3. ~Out(A).escape /\ Out(A).mode # "quoted" /\ EndArgument(Out(A)) = Out(A) /\ Out(A) \in ReaderType
      BY <1>2, OutIs
    <3>4. Reading[k] = Out(A)
      BY <1>3, <2>4, <3>2, <3>3, ReadIs
    <3> QED
      BY <3>4
  <2> QED
    BY <2>5, <2>6
<1> QED
  BY <1>4 DEF A

LEMMA NextArgumentSpaces ==
  ASSUME text \in Seq(Char), NEW i \in 1 .. End
  PROVE  \A k \in i .. NextArgument(i) - 1 : text[k] = Space
<1> DEFINE hits == {k \in i .. Len(text) : text[k] # Space}
<1>1. NextArgument(i) \in i .. End /\ \A k \in i .. NextArgument(i) - 1 : k \notin hits
  <2> HIDE DEF hits
  <2>1. NextArgument(i) = First(i, hits)
    BY DEF NextArgument, hits
  <2> QED
    BY <2>1, FirstFound
<1>2. End = Len(text) + 1 /\ Len(text) \in Nat
  BY EndType
<1> QED
  BY <1>1, <1>2

LEMMA ProcessFollows ==
  ASSUME Types, Follows, Plain, Process
  PROVE  Follows'
<1> DEFINE n == Len(text)
<1>1. text \in Seq(Char) /\ 1 \in 1 .. End /\ End = n + 1 /\ n \in Nat /\ text' = text
  BY EndType DEF Types, TypeOK, Process
<1>2. PICK b : b = begin'
  OBVIOUS
<1>3. b \in 1 .. n + 1 /\ \A k \in 1 .. b - 1 : text[k] = Space
  <2>1. b = NextArgument(1)
    BY <1>2 DEF Process
  <2> QED
    BY <1>1, <2>1, NextArgumentIs, NextArgumentSpaces
<1>4. /\ args = <<>> /\ arg = <<>> /\ valid
      /\ args' = args /\ arg' = arg /\ valid' = valid
  BY DEF Process, Follows
<1>5. Reader = Out(<<>>) /\ <<>> \in Seq(Seq(Char))
  BY DEF Reader, Out
<1>6. Reading[b - 1] = Out(<<>>)
  <2>1. Reading[0] = Out(<<>>)
    BY <1>1, <1>5, ReadingIs
  <2>2. CASE b = 1
    BY <2>1, <2>2
  <2>3. CASE b # 1
    <3> HIDE DEF n
    <3>1. PICK c : c = b - 1
      OBVIOUS
    <3>2. c \in 0 + 1 .. n /\ 0 \in 0 .. n /\ 0 + 1 = 1
      BY <1>1, <1>3, <2>3, <3>1
    <3>3. \A k \in 0 + 1 .. c : text[k] = Space
      BY <1>3, <3>1, <3>2
    <3>4. ~Reading[0].escape /\ Reading[0].mode # "quoted" /\ EndArgument(Reading[0]).args = <<>>
      BY <1>5, <2>1, OutIs
    <3>5. Reading[c] = Out(<<>>)
      BY <1>1, <3>2, <3>3, <3>4, SpacesRead DEF n
    <3> QED
      BY <3>1, <3>5
  <2> QED
    BY <2>2, <2>3
<1>7. CASE b < n + 1
  <2>1. pc' = "part"
    BY <1>1, <1>2, <1>7 DEF Process, Found
  <2>2. InStep(Out(<<>>))'
    BY <1>4, <1>5, <2>1, OutIs DEF InStep
  <2> QED
    BY <1>1, <1>2, <1>6, <2>1, <2>2, FollowsRound
<1>8. CASE b = n + 1
  <2>1. pc' = "done"
    BY <1>1, <1>2, <1>8 DEF Process, Found
  <2>2. ReadAll = Out(<<>>)
    BY <1>1, <1>6, <1>8 DEF ReadAll
  <2>3. Closed /\ args' = Written
    BY <1>4, <1>5, <2>2, OutIs DEF Closed, Written
  <2> QED
    BY <1>1, <2>1, <2>3, FollowsDone
<1> HIDE DEF n
<1> QED
  BY <1>1, <1>3, <1>7, <1>8

LEMMA SingleFollows ==
  ASSUME Types, Follows, Plain, ParseSingleArgument
  PROVE  Follows'
<1> DEFINE n == Len(text)
<1>1. /\ text \in Seq(Char) /\ begin \in 1 .. n + 1 /\ End = n + 1 /\ n \in Nat /\ text' = text
  BY EndType DEF Types, TypeOK, ParseSingleArgument
<1>2. PICK b : b = begin'
  OBVIOUS
<1>3. PICK A : A = args'
  OBVIOUS
<1>4. b \in begin .. n + 1 /\ \A k \in begin .. b - 1 : text[k] = Space
  <2>1. b = NextArgument(begin)
    BY <1>2 DEF ParseSingleArgument
  <2> QED
    BY <1>1, <2>1, NextArgumentIs, NextArgumentSpaces
<1>5. PICK r : r = Reading[begin - 1]
  OBVIOUS
<1>6. r \in ReaderType /\ LeaveBare(r) \in ReaderType
  <2>1. begin - 1 \in 0 .. n
    BY <1>1
  <2> QED
    BY <1>1, <1>5, <2>1, ReadingIs, EndPartIs
<1>7. InStep(r) /\ pc = "end"
  BY <1>5 DEF ParseSingleArgument, Follows, Stuck
<1>8. LeaveBare(r).mode # "out"
  <2>1. r.mode # "out"
    BY <1>7 DEF InStep
  <2>2. EndPart(r).mode = r.mode
    BY <1>6 DEF EndPart, ReaderType
  <2> QED
    BY <2>1, <2>2 DEF LeaveBare
<1>9. EndArgument(r).args = A /\ A \in Seq(Seq(Char))
  <2>1. EndArgument(r).args = IF LeaveBare(r).mode # "out" /\ LeaveBare(r).ok
                              THEN Append(LeaveBare(r).args, LeaveBare(r).arg)
                              ELSE LeaveBare(r).args
    BY <1>6, EndArgumentIs, ReaderIs DEF Reader
  <2>2. EndArgument(r).args = A
    BY <1>3, <1>7, <1>8, <2>1 DEF InStep, ParseSingleArgument
  <2>3. EndArgument(r).args \in Seq(Seq(Char))
    BY <1>6, EndArgumentIs DEF ReaderType
  <2> QED
    BY <2>2, <2>3
<1>10. ASSUME b > begin PROVE Reading[b - 1] = Out(A)
  <2> HIDE DEF n
  <2>1. PICK a, c : a = begin - 1 /\ c = b - 1
    OBVIOUS
  <2>2. a \in 0 .. n /\ a + 1 = begin /\ c \in a + 1 .. n
    BY <1>1, <1>4, <1>10, <2>1
  <2>3. \A k \in a + 1 .. c : text[k] = Space
    BY <1>4, <2>1, <2>2
  <2>4. ~Reading[a].escape /\ Reading[a].mode # "quoted" /\ EndArgument(Reading[a]).args = A
    BY <1>5, <1>7, <1>9, <2>1 DEF InStep
  <2>5. Reading[c] = Out(A)
    BY <1>1, <2>2, <2>3, <2>4, SpacesRead DEF n
  <2> QED
    BY <2>1, <2>5
<1>11. CASE b < n + 1
  <2>1. pc' = "part" /\ arg' = <<>> /\ valid' = TRUE
    BY <1>1, <1>2, <1>11 DEF ParseSingleArgument, Found
  <2>2. b > begin
    <3>1. text[b] # Space /\ (begin = End \/ text[begin] = Space)
      BY <1>1, <1>2, <1>7, <1>11, NextArgumentIs DEF ParseSingleArgument, Types
    <3> HIDE DEF n
    <3>2. b # begin
      BY <1>1, <1>11, <3>1
    <3> QED
      BY <1>1, <1>4, <3>2
  <2>3. InStep(Out(A))'
    BY <1>3, <1>9, <2>1, OutIs DEF InStep
  <2> QED
    BY <1>1, <1>2, <1>10, <2>1, <2>2, <2>3, FollowsRound
<1>12. CASE b = n + 1
  <2>1. pc' = "done"
    BY <1>1, <1>2, <1>12 DEF ParseSingleArgument, Found
  <2>2. Closed /\ A = Written
    <3>1. CASE begin = n + 1
      <4>1. ReadAll = r
        BY <1>1, <1>5, <3>1 DEF ReadAll
      <4> QED
        BY <1>7, <1>9, <4>1 DEF Closed, Written, InStep
    <3>2. CASE begin # n + 1
      <4>1. b > begin /\ b - 1 = n
        <5> HIDE DEF n
        <5> QED
          BY <1>1, <1>4, <1>12, <3>2
      <4>2. ReadAll = Out(A)
        BY <1>10, <4>1 DEF ReadAll
      <4> QED
        BY <1>9, <4>2, OutIs DEF Closed, Written
    <3> QED
      BY <3>1, <3>2
  <2> QED
    BY <1>1, <1>3, <2>1, <2>2, FollowsDone
<1> HIDE DEF n
<1> QED
  BY <1>1, <1>4, <1>11, <1>12
(* A round that takes a part and one that ends it in the reader come to    *)
(* the same.                                                               *)
LEMMA PartTaken ==
  ASSUME NEW s \in Seq(Char), NEW c \in ReaderType, c.part = Unescape(s),
         c.args = args, c.ok = valid, valid => c.arg = arg, valid \in BOOLEAN,
         NEW b, PartRead(Part(s), b)
  PROVE  /\ EndPart(c) \in ReaderType
         /\ EndPart(c).mode = c.mode /\ EndPart(c).escape = c.escape
         /\ EndPart(c).args = args' /\ EndPart(c).part = <<>>
         /\ EndPart(c).ok = valid' /\ (valid' => EndPart(c).arg = arg')
<1> DEFINE bad == c.part = <<>> \/ c.part[1] = Dot
           d == EndPart(c)
<1>1. /\ d \in ReaderType /\ d.mode = c.mode /\ d.escape = c.escape /\ d.args = c.args
      /\ d.part = <<>>
  <2>1. d \in ReaderType
    BY EndPartIs
  <2> QED
    BY <2>1 DEF EndPart, ReaderType
<1>2. d.ok = (c.ok /\ ~bad) /\ (~bad => d.arg = c.arg \o c.part)
  <2>1. CASE bad
    BY <2>1 DEF EndPart, ReaderType
  <2>2. CASE ~bad
    BY <2>2 DEF EndPart, ReaderType
  <2> QED
    BY <2>1, <2>2
<1>3. Part(s) = <<>> <=> bad
  BY DEF Part
<1>4. ~bad => Part(s) = c.part
  BY DEF Part
<1>5. args' = args /\ valid' = (valid /\ Part(s) # <<>>) /\ (valid' => arg' = arg \o Part(s))
  BY DEF PartRead
<1> HIDE DEF bad, d
<1>6. d.ok = valid' /\ (valid' => d.arg = arg')
  BY <1>2, <1>3, <1>4, <1>5
<1> QED
  BY <1>1, <1>5, <1>6 DEF d

LEMMA RegularFollows ==
  ASSUME Types, Follows, Plain, ParseRegularArgument
  PROVE  Follows'
<1> DEFINE n == Len(text)
<1>1. /\ text \in Seq(Char) /\ begin \in 1 .. n /\ End = n + 1 /\ n \in Nat /\ text' = text
      /\ text[begin] \notin {Quote, Space} /\ valid \in BOOLEAN
  BY EndType DEF Types, TypeOK, ParseRegularArgument, PartRead
<1>2. PICK e : e = Delimited(begin, {Space, Quote})
  OBVIOUS
<1>3. /\ e \in begin + 1 .. n + 1
      /\ \A k \in begin + 1 .. e - 1 : text[k] \in {Space, Quote} => text[k - 1] = Backslash
      /\ e < n + 1 => text[e] \in {Space, Quote} /\ text[e - 1] # Backslash
  BY <1>1, <1>2, DelimitedPlain
<1>4. PICK s : s = SubSeq(text, begin, e - 1)
  OBVIOUS
<1>5. s \in Seq(Char) /\ Len(s) = e - begin /\ \A i \in 1 .. Len(s) : s[i] = text[(begin - 1) + i]
  <2>1. begin \in 1 .. Len(text) + 1 /\ e - 1 \in begin - 1 .. Len(text)
    BY <1>1, <1>3
  <2>2. s \in Seq(Char)
    BY <1>1, <1>4, <2>1, Between
  <2>3. Len(s) = e - begin /\ \A i \in 1 .. Len(s) : s[i] = text[begin + i - 1]
    BY <1>1, <1>3, <1>4, <2>1
  <2> QED
    BY <1>1, <2>2, <2>3
<1>6. PICK r : r = Reading[begin - 1]
  OBVIOUS
<1>7. /\ r \in ReaderType /\ ~r.escape /\ r.mode \in {"out", "behind"} /\ r.part = <<>>
      /\ r.args = args /\ r.ok = valid /\ (valid => r.arg = arg)
  <2>1. begin - 1 \in 0 .. n
    BY <1>1
  <2>2. r \in ReaderType
    BY <1>1, <1>6, <2>1, ReadingIs
  <2>3. InStep(r) /\ pc = "part"
    BY <1>1, <1>6 DEF ParseRegularArgument, Follows, Stuck
  <2>4. r.mode \notin {"bare", "quoted"}
    BY <1>1, <2>3 DEF InStep
  <2> QED
    BY <2>2, <2>3, <2>4 DEF InStep, LeaveBare, ReaderType
<1>8. \A i \in 1 .. Len(s) : (begin - 1) + i \in begin .. e - 1 /\ (begin - 1) + i \in 1 .. n
  BY <1>1, <1>3, <1>5
<1>9. s[Len(s)] # Backslash /\ Len(s) > 0
  <2>1. Len(s) \in 1 .. Len(s) /\ (begin - 1) + Len(s) = e - 1 /\ e - 1 \in 1 .. n
    BY <1>1, <1>3, <1>5
  <2>2. s[Len(s)] = text[e - 1]
    BY <1>5, <2>1
  <2>3. e = n + 1 => text[e - 1] # Backslash
    BY <1>1, <2>1 DEF Plain
  <2> QED
    BY <1>1, <1>3, <2>1, <2>2, <2>3
<1>10. IsPart(s, FALSE)
  <2>1. Len(s) = 1 => s[1] # Backslash
    BY <1>9
  <2>2. ASSUME NEW i \in 2 .. Len(s), s[i - 1] = Backslash
        PROVE  s[i] # Backslash
    <3> HIDE DEF n
    <3>1. PICK j : j = (begin - 1) + (i - 1)
      OBVIOUS
    <3>2. i - 1 \in 1 .. Len(s) /\ i \in 1 .. Len(s) /\ (begin - 1) + i = j + 1 /\ j \in 1 .. n
      BY <1>1, <1>3, <1>5, <3>1
    <3>3. s[i - 1] = text[j] /\ s[i] = text[j + 1]
      BY <1>5, <3>1, <3>2
    <3> QED
      BY <2>2, <3>2, <3>3 DEF Plain, n
  <2>3. ASSUME NEW i \in 1 .. Len(s), s[i] \in {Quote, Space}
        PROVE  i > 1 /\ s[i - 1] = Backslash
    <3> HIDE DEF n
    <3>1. i # 1
      <4>1. (begin - 1) + 1 = begin /\ 1 \in 1 .. Len(s)
        BY <1>1, <1>5, <1>9
      <4>2. s[1] = text[begin]
        BY <1>5, <4>1
      <4> QED
        BY <1>1, <2>3, <4>2
    <3>2. PICK k : k = (begin - 1) + i
      OBVIOUS
    <3>3. /\ k \in begin + 1 .. e - 1 /\ i > 1
          /\ i - 1 \in 1 .. Len(s) /\ (begin - 1) + (i - 1) = k - 1
      BY <1>1, <1>3, <1>5, <3>1, <3>2
    <3>4. s[i] = text[k] /\ s[i - 1] = text[k - 1]
      BY <1>5, <3>2, <3>3
    <3> QED
      BY <1>3, <2>3, <3>3, <3>4
  <2> QED
    BY <2>1, <2>2, <2>3 DEF IsPart
<1>11. PICK c : c = Ran(r, s, Unescape(s), Len(s))
  OBVIOUS
<1>12. Reading[e - 1] = c
  <2>1. PICK a : a = begin - 1
    OBVIOUS
  <2>2. a \in Nat /\ a + Len(s) = e - 1 /\ a + Len(s) <= Len(text)
    BY <1>1, <1>3, <1>5, <2>1
  <2>3. (Reading[a].mode = "quoted") = FALSE
    BY <1>6, <1>7, <2>1
  <2>4. IsPart(s, Reading[a].mode = "quoted")
    BY <1>10, <2>3
  <2>5. Reading[a + Len(s)] = Ran(Reading[a], s, Unescape(s), Len(s))
    BY <1>1, <1>5, <1>6, <1>7, <2>1, <2>2, <2>4, PartRan
  <2> QED
    BY <1>6, <1>11, <2>1, <2>2, <2>5
<1>13. /\ c \in ReaderType /\ c.mode = "bare" /\ ~c.escape /\ c.part = Unescape(s)
       /\ c.args = args /\ c.ok = valid /\ (valid => c.arg = arg)
  <2>1. c \in ReaderType
    <3>1. e - 1 \in 0 .. n
      BY <1>1, <1>3
    <3> QED
      BY <1>1, <1>12, <3>1, ReadingIs
  <2>2. Len(s) # 0
    BY <1>5, <1>9
  <2> QED
    BY <1>7, <1>9, <1>11, <2>1, <2>2 DEF Ran
<1>14. PartRead(Part(s), e)
  BY <1>2, <1>4 DEF ParseRegularArgument
<1>15. LeaveBare(c) = EndPart(c)
  BY <1>13 DEF LeaveBare
<1>16. /\ EndPart(c).args = args' /\ EndPart(c).part = <<>>
       /\ EndPart(c).ok = valid' /\ (valid' => EndPart(c).arg = arg')
  BY <1>1, <1>5, <1>13, <1>14, PartTaken
<1>17. begin' = e /\ pc' \in {"part", "end"} /\ (pc' = "part" => text[e] = Quote)
  <2>1. begin' = e /\ pc' = IF e < End /\ text[e] # Space THEN "part" ELSE "end"
    BY <1>14 DEF PartRead
  <2> QED
    BY <1>1, <1>3, <2>1
<1>18. InStep(c)'
  BY <1>1, <1>13, <1>15, <1>16, <1>17 DEF InStep
<1> QED
  BY <1>1, <1>12, <1>17, <1>18, FollowsRound
LEMMA QuotedFollows ==
  ASSUME Types, Follows, Plain, ParseQuotedArgument
  PROVE  Follows'
<1> DEFINE n == Len(text)
<1>1. /\ text \in Seq(Char) /\ begin \in 1 .. n /\ End = n + 1 /\ n \in Nat
      /\ text[begin] = Quote /\ pc = "part" /\ valid \in BOOLEAN
  BY EndType DEF Types, TypeOK, ParseQuotedArgument
<1>2. PICK e : e = Delimited(begin, {Quote})
  OBVIOUS
<1>3. /\ e \in begin + 1 .. n + 1
      /\ \A k \in begin + 1 .. e - 1 : text[k] \in {Quote} => text[k - 1] = Backslash
      /\ e < n + 1 => text[e] \in {Quote} /\ text[e - 1] # Backslash
  BY <1>1, <1>2, DelimitedPlain
<1>4. CASE e = n + 1
  <2>1. PartRead(<<>>, begin)
    BY <1>1, <1>2, <1>4 DEF ParseQuotedArgument
  <2>2. text' = text /\ begin' = begin /\ pc' = "part"
    <3>1. begin < End /\ text[begin] # Space
      BY <1>1 DEF Quote, Space
    <3> QED
      BY <2>1, <3>1 DEF PartRead
  <2>3. Delimited(begin, {Quote})' = Delimited(begin, {Quote}) /\ End' = End
    BY <2>2 DEF Delimited, First, IsEscaped, End
  <2>4. Stuck'
    BY <1>1, <1>2, <1>4, <2>2, <2>3 DEF Stuck
  <2> QED
    BY <2>2, <2>4 DEF Follows
<1>5. CASE e < n + 1
  <2>1. PICK s : s = SubSeq(text, begin + 1, e - 1)
    OBVIOUS
  <2>2. s \in Seq(Char) /\ Len(s) = (e - 1) - begin /\ \A i \in 1 .. Len(s) : s[i] = text[begin + i]
    <3>1. begin + 1 \in 1 .. Len(text) + 1 /\ e - 1 \in (begin + 1) - 1 .. Len(text)
      BY <1>1, <1>3, <1>5
    <3>2. s \in Seq(Char)
      BY <1>1, <2>1, <3>1, Between
    <3>3. Len(s) = (e - 1) - begin /\ \A i \in 1 .. Len(s) : s[i] = text[(begin + 1) + i - 1]
      BY <1>1, <1>3, <2>1, <3>1
    <3>4. \A i \in 1 .. Len(s) : (begin + 1) + i - 1 = begin + i
      BY <1>1, <3>3
    <3> QED
      BY <3>2, <3>3, <3>4
  <2>3. PICK r : r = Reading[begin - 1]
    OBVIOUS
  <2>4. r \in ReaderType /\ LeaveBare(r) \in ReaderType /\ InStep(r)
    <3>1. begin - 1 \in 0 .. n
      BY <1>1
    <3>2. r \in ReaderType /\ LeaveBare(r) \in ReaderType
      BY <1>1, <2>3, <3>1, ReadingIs, EndPartIs
    <3>3. ~Stuck
      BY <1>1, <1>2, <1>5 DEF Stuck
    <3> QED
      BY <1>1, <2>3, <3>2, <3>3 DEF Follows
  <2>5. PICK q : q = [LeaveBare(r) EXCEPT !.mode = "quoted"]
    OBVIOUS
  <2>6. Reading[begin] = q
    <3>1. Reading[begin] = Read(r, Quote) /\ Quote \in Char
      BY <1>1, <2>3, ReadingIs DEF Char
    <3> QED
      BY <2>4, <2>5, <3>1, ReadIs DEF InStep
  <2>7. /\ q \in ReaderType /\ ~q.escape /\ q.mode = "quoted" /\ q.part = <<>>
        /\ q.args = args /\ q.ok = valid /\ (valid => q.arg = arg)
    <3>1. LeaveBare(r).escape = r.escape
      BY <2>4 DEF LeaveBare, EndPart, ReaderType
    <3> QED
      BY <2>4, <2>5, <3>1 DEF InStep, ReaderType
  <2>8. Len(s) > 0 => s[Len(s)] # Backslash
    <3> SUFFICES ASSUME Len(s) > 0 PROVE s[Len(s)] # Backslash
      OBVIOUS
    <3>1. Len(s) \in 1 .. Len(s) /\ begin + Len(s) = e - 1
      BY <1>1, <1>3, <2>2
    <3>2. s[Len(s)] = text[e - 1]
      BY <2>2, <3>1
    <3> QED
      BY <1>3, <1>5, <3>2
  <2>9. IsPart(s, TRUE)
    <3>1. Len(s) = 1 => s[1] # Backslash
      BY <2>8
    <3>2. ASSUME NEW i \in 2 .. Len(s), s[i - 1] = Backslash
          PROVE  s[i] # Backslash
      <4> HIDE DEF n
      <4>1. PICK j : j = begin + (i - 1)
        OBVIOUS
      <4>2. i - 1 \in 1 .. Len(s) /\ i \in 1 .. Len(s) /\ begin + i = j + 1 /\ j \in 1 .. n
        BY <1>1, <1>3, <2>2, <4>1
      <4>3. s[i - 1] = text[j] /\ s[i] = text[j + 1]
        BY <2>2, <4>1, <4>2
      <4> QED
        BY <3>2, <4>2, <4>3 DEF Plain, n
    <3>3. ASSUME NEW i \in 1 .. Len(s), s[i] = Quote
          PROVE  i > 1 /\ s[i - 1] = Backslash
      <4> HIDE DEF n
      <4>1. PICK k : k = begin + i
        OBVIOUS
      <4>2. k \in begin + 1 .. e - 1
        BY <1>1, <1>3, <2>2, <4>1
      <4>3. text[k - 1] = Backslash
        BY <1>3, <2>2, <3>3, <4>1, <4>2
      <4>4. i # 1
        <5>1. ASSUME i = 1 PROVE k - 1 = begin
          BY <1>1, <4>1, <5>1
        <5> QED
          BY <1>1, <4>3, <5>1 DEF Quote, Backslash
      <4>5. i > 1 /\ i - 1 \in 1 .. Len(s) /\ begin + (i - 1) = k - 1
        BY <1>1, <2>2, <4>1, <4>4
      <4> QED
        BY <2>2, <4>3, <4>5
    <3> QED
      BY <3>1, <3>2, <3>3 DEF IsPart
  <2>10. PICK c : c = Ran(q, s, Unescape(s), Len(s))
    OBVIOUS
  <2>11. Reading[e - 1] = c
    <3>1. begin \in Nat /\ begin + Len(s) = e - 1 /\ begin + Len(s) <= Len(text)
      BY <1>1, <1>3, <1>5, <2>2
    <3>2. (Reading[begin].mode = "quoted") = TRUE
      BY <2>6, <2>7
    <3>3. IsPart(s, Reading[begin].mode = "quoted")
      BY <2>9, <3>2
    <3>4. Reading[begin + Len(s)] = Ran(Reading[begin], s, Unescape(s), Len(s))
      BY <1>1, <2>2, <2>6, <2>7, <3>1, <3>3, PartRan
    <3> QED
      BY <2>6, <2>10, <3>1, <3>4
  <2>12. /\ c \in ReaderType /\ c.mode = "quoted" /\ ~c.escape /\ c.part = Unescape(s)
         /\ c.args = args /\ c.ok = valid /\ (valid => c.arg = arg)
    <3>1. c \in ReaderType
      <4>1. e - 1 \in 0 .. n
        BY <1>1, <1>3
      <4> QED
        BY <1>1, <2>11, <4>1, ReadingIs
    <3> QED
      BY <2>7, <2>8, <2>10, <3>1 DEF Ran
  <2>13. PartRead(Part(s), e + 1)
    BY <1>1, <1>2, <1>5, <2>1 DEF ParseQuotedArgument
  <2>14. /\ EndPart(c) \in ReaderType /\ ~EndPart(c).escape
         /\ EndPart(c).args = args' /\ EndPart(c).part = <<>>
         /\ EndPart(c).ok = valid' /\ (valid' => EndPart(c).arg = arg')
    BY <1>1, <2>2, <2>12, <2>13, PartTaken
  <2>15. PICK d : d = [EndPart(c) EXCEPT !.mode = "behind"]
    OBVIOUS
  <2>16. Reading[e] = d
    <3>1. e \in 1 .. n
      BY <1>1, <1>3, <1>5
    <3>2. Reading[e] = Read(c, Quote) /\ Quote \in Char
      BY <1>1, <1>3, <1>5, <2>11, <3>1, ReadingIs DEF Char
    <3> QED
      BY <2>12, <2>15, <3>2, ReadIs
  <2>17. /\ d.mode = "behind" /\ ~d.escape /\ d.args = args' /\ d.part = <<>>
         /\ d.ok = valid' /\ (valid' => d.arg = arg')
    BY <2>14, <2>15 DEF ReaderType
  <2>18. LeaveBare(d) = d
    BY <2>17 DEF LeaveBare
  <2>19. begin' = e + 1 /\ pc' \in {"part", "end"} /\ text' = text /\ (e + 1) - 1 = e
    <3>1. (e + 1) - 1 = e
      BY <1>1, <1>3
    <3> QED
      BY <2>13, <3>1 DEF PartRead
  <2>20. InStep(d)'
    BY <2>17, <2>18 DEF InStep
  <2> QED
    BY <2>16, <2>19, <2>20, FollowsRound
<1> HIDE DEF n
<1> QED
  BY <1>1, <1>3, <1>4, <1>5

LEMMA NextFollows == Types /\ Follows /\ [Next]_vars => Follows'
<1> SUFFICES ASSUME Types, Follows, [Next]_vars PROVE Follows'
  OBVIOUS
<1>1. text' = text
  BY DEF Next, vars, Rejected, Process, ParseQuotedArgument, ParseRegularArgument, PartRead,
         ParseSingleArgument
<1>2. Plain' = Plain
  BY <1>1 DEF Plain
<1>3. CASE ~Plain
  BY <1>2, <1>3 DEF Follows
<1>4. CASE Plain
  <2>1. CASE Rejected
    BY <1>4, <2>1 DEF Rejected, Follows
  <2>2. CASE UNCHANGED vars
    <3>1. Reading' = Reading /\ Delimited(begin, {Quote})' = Delimited(begin, {Quote}) /\ End' = End
      BY <2>2 DEF vars, Reading, Delimited, First, IsEscaped, End
    <3>2. /\ pc' = pc /\ text' = text /\ type' = type /\ args' = args /\ begin' = begin
          /\ arg' = arg /\ valid' = valid
      BY <2>2 DEF vars
    <3>3. Stuck' = Stuck /\ Closed' = Closed /\ Written' = Written
      BY <3>1, <3>2 DEF Stuck, Closed, Written, ReadAll
    <3>4. \A r : InStep(r)' = InStep(r)
      BY <3>2 DEF InStep
    <3> QED
      BY <1>4, <3>1, <3>2, <3>3, <3>4 DEF Follows
  <2> QED
    BY <1>4, <2>1, <2>2, ProcessFollows, QuotedFollows, RegularFollows, SingleFollows DEF Next
<1> QED
  BY <1>3, <1>4

(* From every text in which each backslash escapes a character that is no  *)
(* backslash, the arguments are what one reading from left to right finds, *)
(* and process() returns only if no quote stays open.                      *)
THEOREM AlwaysReadsAsWritten == Spec => []ReadsAsWritten
<1>1. Init => Follows
  BY DEF Init, Follows
<1>2. Follows => ReadsAsWritten
  BY DEF Follows, ReadsAsWritten
<1>3. Inv => Types
  BY DEF Inv
<1> QED
  BY <1>1, <1>2, <1>3, InitInv, NextInv, NextFollows, PTL DEF Spec-----------------------------------------------------------------------------
(* Names between quotes, with backslashes in them. *)

LEMMA SameSequence ==
  ASSUME NEW S, NEW s \in Seq(S), NEW t \in Seq(S), Len(s) = Len(t),
         \A i \in 1 .. Len(s) : s[i] = t[i]
  PROVE  s = t
  BY SeqEqual

(* Each of n sequences goes on where the one before ends.                  *)
Grow(e, n) ==
  /\ \A i \in 0 .. n : e[i] \in Seq(Char)
  /\ \A i \in 1 .. n : /\ Len(e[i - 1]) <= Len(e[i])
                        /\ \A x \in 1 .. Len(e[i - 1]) : e[i][x] = e[i - 1][x]

LEMMA Prefixes ==
  ASSUME NEW n \in Nat, NEW e, Grow(e, n)
  PROVE  \A i \in 0 .. n : Len(e[i]) <= Len(e[n]) /\ \A x \in 1 .. Len(e[i]) : e[n][x] = e[i][x]
<1> USE DEF Grow
<1> DEFINE Good(i) == Len(e[i]) <= Len(e[n]) /\ \A x \in 1 .. Len(e[i]) : e[n][x] = e[i][x]
           Bad == {k \in 0 .. n : ~Good(n - k)}
<1>1. Bad = {}
  <2>1. SUFFICES ASSUME Bad # {} PROVE FALSE
    BY <2>1
  <2>2. PICK k \in Bad : \A j \in Bad : k <= j
    <3>1. Bad \in SUBSET Nat
      OBVIOUS
    <3> HIDE DEF Bad
    <3> QED
      BY <2>1, <3>1, Least
  <2>3. k # 0
    <3>1. Good(n) /\ n - 0 = n
      OBVIOUS
    <3> HIDE DEF Good
    <3> QED
      BY <3>1
  <2> DEFINE i == n - k
  <2>4. i \in 0 .. n - 1 /\ i + 1 = n - (k - 1) /\ k - 1 \in 0 .. n /\ ~(k <= k - 1)
    BY <2>3
  <2>5. Good(i + 1)
    <3> HIDE DEF Good
    <3> QED
      BY <2>2, <2>4
  <2> HIDE DEF i
  <2>6. i + 1 \in 1 .. n /\ (i + 1) - 1 = i /\ i \in 0 .. n /\ i + 1 \in 0 .. n /\ n \in 0 .. n
    BY <2>4
  <2>7. Len(e[i]) <= Len(e[i + 1]) /\ \A x \in 1 .. Len(e[i]) : e[i + 1][x] = e[i][x]
    BY <2>6
  <2>8. Len(e[i]) \in Nat /\ Len(e[i + 1]) \in Nat /\ Len(e[n]) \in Nat
    BY <2>6
  <2>9. Good(i)
    BY <2>5, <2>7, <2>8
  <2> QED
    BY <2>2, <2>9 DEF i
<1>2. \A i \in 0 .. n : n - i \in 0 .. n /\ n - (n - i) = i
  OBVIOUS
<1>3. \A i \in 0 .. n : Good(i)
  <2> HIDE DEF Good
  <2> QED
    BY <1>1, <1>2
<1> QED
  BY <1>3

(* What is added for character i, or for name i. *)
EscapedNext(name, i, before) ==
  before \o (IF name[i] \in Special THEN <<Backslash>> ELSE <<>>) \o <<name[i]>>

QuotedNext(names, i, before) ==
  before \o <<Space, Quote>> \o Escaped(names[i]) \o <<Quote>>

Added(name, i, before, after) ==
  /\ after \in Seq(Char)
  /\ \A x \in 1 .. Len(before) : after[x] = before[x]
  /\ name[i] \notin Special => Len(after) = Len(before) + 1 /\ after[Len(before) + 1] = name[i]
  /\ name[i] \in Special =>
       /\ Len(after) = Len(before) + 2
       /\ after[Len(before) + 1] = Backslash /\ after[Len(before) + 2] = name[i]

LEMMA EscapedAdds ==
  ASSUME NEW name \in Seq(Char), NEW i \in 1 .. Len(name), NEW before \in Seq(Char)
  PROVE  Added(name, i, before, EscapedNext(name, i, before))
<1> DEFINE after == EscapedNext(name, i, before)
<1>1. name[i] \in Char /\ Backslash \in Char
  BY DEF Char
<1>2. CASE name[i] \notin Special
  <2>1. after = Append(before, name[i])
    BY <1>1, <1>2 DEF EscapedNext
  <2> QED
    BY <1>1, <1>2, <2>1 DEF Added
<1>3. CASE name[i] \in Special
  <2>1. after = Append(Append(before, Backslash), name[i])
    BY <1>1, <1>3 DEF EscapedNext
  <2> QED
    BY <1>1, <1>3, <2>1 DEF Added
<1> QED
  BY <1>2, <1>3

(* The recursion of Escaped has a function to define.                      *)
LEMMA EscapedDefined ==
  ASSUME NEW name \in Seq(Char)
  PROVE  \E e : /\ Escaped(name) = e[Len(name)]
                /\ \A i \in 0 .. Len(name) :
                     e[i] = IF i = 0 THEN <<>> ELSE EscapedNext(name, i, e[i - 1])
<1> DEFINE g == [x \in (1 .. Len(name)) \X Seq(Char) |-> EscapedNext(name, x[1], x[2])]
<1>1. Len(name) \in Nat /\ <<>> \in Seq(Char)
  OBVIOUS
<1>2. g \in [(1 .. Len(name)) \X Seq(Char) -> Seq(Char)]
  <2>1. ASSUME NEW i \in 1 .. Len(name), NEW q \in Seq(Char)
        PROVE  EscapedNext(name, i, q) \in Seq(Char)
    BY EscapedAdds DEF Added
  <2> QED
    BY <2>1
<1>3. PICK f \in [0 .. Len(name) -> Seq(Char)] : Recurs(f, Len(name), <<>>, g)
  <2> HIDE DEF g
  <2> QED
    BY <1>1, <1>2, Recursion
<1>4. \A i \in 0 .. Len(name) : f[i] = IF i = 0 THEN <<>> ELSE EscapedNext(name, i, f[i - 1])
  <2>1. ASSUME NEW i \in 0 .. Len(name), i # 0
        PROVE  g[<<i, f[i - 1]>>] = EscapedNext(name, i, f[i - 1])
    <3>1. i \in 1 .. Len(name) /\ f[i - 1] \in Seq(Char)
      BY <2>1, <1>1
    <3> QED
      BY <3>1
  <2> QED
    BY <1>3, <2>1 DEF Recurs
<1>5. f = [i \in 0 .. Len(name) |->
             IF i = 0 THEN <<>>
             ELSE f[i - 1] \o (IF name[i] \in Special THEN <<Backslash>> ELSE <<>>) \o <<name[i]>>]
  BY <1>4 DEF EscapedNext
<1>6. PICK e : /\ e = [i \in 0 .. Len(name) |->
                         IF i = 0 THEN <<>>
                         ELSE e[i - 1] \o (IF name[i] \in Special THEN <<Backslash>> ELSE <<>>)
                                       \o <<name[i]>>]
               /\ Escaped(name) = e[Len(name)]
  BY <1>5, Zenon DEF Escaped
<1>7. \A i \in 0 .. Len(name) : e[i] = IF i = 0 THEN <<>> ELSE EscapedNext(name, i, e[i - 1])
  BY <1>6, Zenon DEF EscapedNext
<1> QED
  BY <1>6, <1>7

LEMMA EscapedType ==
  ASSUME NEW name \in Seq(Char), NEW e,
         \A i \in 0 .. Len(name) : e[i] = IF i = 0 THEN <<>> ELSE EscapedNext(name, i, e[i - 1])
  PROVE  \A i \in 0 .. Len(name) : e[i] \in Seq(Char)
<1> DEFINE Bad == {i \in 0 .. Len(name) : e[i] \notin Seq(Char)}
<1>1. SUFFICES ASSUME Bad # {} PROVE FALSE
  BY <1>1
<1>2. PICK i \in Bad : \A j \in Bad : i <= j
  <2>1. Bad \in SUBSET Nat
    OBVIOUS
  <2> HIDE DEF Bad
  <2> QED
    BY <1>1, <2>1, Least
<1>3. i # 0
  <2>1. e[0] = <<>> /\ <<>> \in Seq(Char)
    OBVIOUS
  <2> QED
    BY <2>1
<1>4. i \in 1 .. Len(name) /\ i - 1 \in 0 .. Len(name) /\ i - 1 \notin Bad
  <2>1. i \in 0 .. Len(name) /\ ~(i <= i - 1)
    OBVIOUS
  <2> QED
    BY <1>2, <1>3, <2>1
<1>5. e[i - 1] \in Seq(Char) /\ e[i] = EscapedNext(name, i, e[i - 1])
  BY <1>3, <1>4
<1>6. Added(name, i, e[i - 1], e[i])
  BY <1>4, <1>5, EscapedAdds
<1>7. e[i] \in Seq(Char)
  BY <1>6 DEF Added
<1> QED
  BY <1>7

(* A quote in an escaped name follows a backslash that follows none, a     *)
(* backslash at its end follows another, and what Unescape keeps of it is  *)
(* the name.                                                               *)
LEMMA EscapedShape ==
  ASSUME NEW name \in Seq(Char), Sendable(name), NEW E, E = Escaped(name)
  PROVE  /\ E \in Seq(Char) /\ Len(E) > 0
         /\ \A x \in 1 .. Len(E) :
              E[x] = Quote => x > 1 /\ E[x - 1] = Backslash /\ (x > 2 => E[x - 2] # Backslash)
         /\ E[Len(E)] = Backslash => Len(E) > 1 /\ E[Len(E) - 1] = Backslash
         /\ Unescape(E) = name
<1> DEFINE n == Len(name)
<1>1. PICK e : /\ E = e[n]
               /\ \A i \in 0 .. n : e[i] = IF i = 0 THEN <<>> ELSE EscapedNext(name, i, e[i - 1])
  BY EscapedDefined
<1>2. n \in Nat /\ n > 0 /\ n \in 0 .. n
  BY EmptySeq, LenProperties DEF Sendable
<1>3. \A i \in 0 .. n : e[i] \in Seq(Char) /\ Len(e[i]) \in Nat
  BY <1>1, EscapedType
<1>4. ASSUME NEW i \in 1 .. n
      PROVE  /\ \A x \in 1 .. Len(e[i - 1]) : e[i][x] = e[i - 1][x]
             /\ name[i] \notin Special =>
                  Len(e[i]) = Len(e[i - 1]) + 1 /\ e[i][Len(e[i - 1]) + 1] = name[i]
             /\ name[i] \in Special =>
                  /\ Len(e[i]) = Len(e[i - 1]) + 2
                  /\ e[i][Len(e[i - 1]) + 1] = Backslash /\ e[i][Len(e[i - 1]) + 2] = name[i]
  <2>1. i # 0 /\ i \in 0 .. n /\ i - 1 \in 0 .. n /\ i \in 1 .. Len(name)
    BY <1>2
  <2>2. e[i] = EscapedNext(name, i, e[i - 1]) /\ e[i - 1] \in Seq(Char)
    BY <1>1, <1>3, <2>1
  <2>3. Added(name, i, e[i - 1], e[i])
    BY <2>1, <2>2, EscapedAdds
  <2> HIDE DEF n
  <2> QED
    BY <2>3 DEF Added
<1>5. \A i \in 0 .. n : Len(e[i]) <= Len(E) /\ \A x \in 1 .. Len(e[i]) : E[x] = e[i][x]
  <2>1. ASSUME NEW i \in 1 .. n PROVE Len(e[i - 1]) <= Len(e[i])
    <3>1. i - 1 \in 0 .. n
      BY <1>2
    <3>2. Len(e[i - 1]) \in Nat
      BY <1>3, <3>1
    <3> QED
      BY <1>4, <3>2
  <2>2. \A i \in 1 .. n : /\ Len(e[i - 1]) <= Len(e[i])
                          /\ \A x \in 1 .. Len(e[i - 1]) : e[i][x] = e[i - 1][x]
    BY <1>4, <2>1
  <2>3. \A i \in 0 .. n : e[i] \in Seq(Char)
    BY <1>3
  <2> HIDE DEF n
  <2>4. \A i \in 0 .. n : Len(e[i]) <= Len(e[n]) /\ \A x \in 1 .. Len(e[i]) : e[n][x] = e[i][x]
    <3>1. Grow(e, n)
      BY <2>2, <2>3 DEF Grow
    <3> QED
      BY <1>2, <3>1, Prefixes, Zenon
  <2> QED
    BY <1>1, <2>4
<1>6. E \in Seq(Char)
  BY <1>1, <1>2, <1>3
<1>7. PICK u : /\ Unescape(E) = u[Len(E)]
               /\ \A x \in 0 .. Len(E) : u[x] = IF x = 0 THEN <<>> ELSE Unescaped(E, x, u[x - 1])
  BY <1>6, UnescapeDefined
<1>8. \A x \in 0 .. Len(E) : u[x] \in Seq(Char)
  BY <1>6, <1>7, UnescapeType
<1> DEFINE Ends(i, p) == i > 0 => /\ p > 0 /\ E[p] = name[i]
                                  /\ name[i] \in Special => p > 1 /\ E[p - 1] = Backslash
           Quotes(p) == \A x \in 1 .. p :
             E[x] = Quote => x > 1 /\ E[x - 1] = Backslash /\ (x > 2 => E[x - 2] # Backslash)
           Undoes(i, p) == Len(u[p]) = i /\ \A y \in 1 .. i : u[p][y] = name[y]
           Good(i) == Ends(i, Len(e[i])) /\ Quotes(Len(e[i])) /\ Undoes(i, Len(e[i]))
           Bad == {i \in 0 .. n : ~Good(i)}
<1>9. ASSUME NEW i \in 1 .. n, Good(i - 1)
      PROVE  Good(i)
  <2>1. PICK p, q : p = Len(e[i - 1]) /\ q = Len(e[i])
    OBVIOUS
  <2>2. /\ p \in Nat /\ q \in Nat /\ q <= Len(E) /\ Len(E) \in Nat
        /\ name[i] \notin Special => q = p + 1 /\ E[q] = name[i]
        /\ name[i] \in Special => q = p + 2 /\ E[p + 1] = Backslash /\ E[q] = name[i]
    <3> HIDE DEF n
    <3>1. i \in 0 .. n /\ i - 1 \in 0 .. n
      BY <1>2
    <3>2. p \in Nat /\ q \in Nat /\ q <= Len(E) /\ \A x \in 1 .. q : E[x] = e[i][x]
      BY <1>3, <1>5, <2>1, <3>1
    <3>3. name[i] \notin Special => q = p + 1 /\ E[q] = name[i]
      <4>1. name[i] \notin Special => q = p + 1 /\ e[i][p + 1] = name[i]
        BY <1>4, <2>1
      <4> QED
        BY <3>2, <4>1
    <3>4. name[i] \in Special => q = p + 2 /\ E[p + 1] = Backslash /\ E[q] = name[i]
      <4>1. name[i] \in Special => q = p + 2 /\ e[i][p + 1] = Backslash /\ e[i][p + 2] = name[i]
        BY <1>4, <2>1
      <4> QED
        BY <3>2, <4>1
    <3> QED
      BY <1>6, <3>2, <3>3, <3>4
  <2>3. Ends(i - 1, p) /\ Quotes(p) /\ Undoes(i - 1, p)
    <3> HIDE DEF Ends, Quotes, Undoes
    <3> QED
      BY <1>9, <2>1
  <2>4. p = 0 <=> i = 1
    <3>1. i = 1 => p = 0
      <4>1. e[0] = <<>>
        BY <1>1, <1>2
      <4> QED
        BY <2>1, <4>1
    <3>2. i # 1 => p > 0
      BY <2>3
    <3> QED
      BY <2>2, <3>1, <3>2
  <2>5. name[i] \in Special /\ p > 0 => E[p] \notin Special
    <3>1. p > 0 => i \in 2 .. n /\ E[p] = name[i - 1]
      BY <2>3, <2>4
    <3> QED
      BY <3>1 DEF Sendable
  <2>6. Backslash \in Special /\ Quote \in Special /\ Backslash # Quote
    BY DEF Special, Backslash, Quote
  <2>7. Ends(i, q)
    BY <2>2
  <2>8. Quotes(q)
    <3> SUFFICES ASSUME NEW x \in 1 .. q, E[x] = Quote
                 PROVE  x > 1 /\ E[x - 1] = Backslash /\ (x > 2 => E[x - 2] # Backslash)
      OBVIOUS
    <3>1. CASE x <= p
      <4>1. x \in 1 .. p
        BY <2>2, <3>1
      <4> QED
        BY <2>3, <4>1
    <3>2. CASE x > p
      <4>1. name[i] \in Special /\ x = p + 2
        BY <2>2, <2>6, <3>2
      <4>2. x - 1 = p + 1 /\ x - 2 = p
        BY <2>2, <4>1
      <4> QED
        BY <2>2, <2>5, <2>6, <4>1, <4>2
    <3> QED
      BY <2>2, <3>1, <3>2
  <2>9. q \in Kept(E) /\ q \in 1 .. Len(E)
    <3>1. q \in 1 .. Len(E)
      BY <2>2
    <3>2. E[q] = Backslash => q > 1 /\ E[q - 1] = Backslash
      <4>1. name[i] \in Special => q - 1 = p + 1
        BY <2>2
      <4> QED
        BY <2>2, <2>6, <4>1
    <3> QED
      BY <3>1, <3>2 DEF Kept
  <2>10. u[q - 1] = u[p]
    <3>1. CASE name[i] \notin Special
      <4>1. q - 1 = p
        BY <2>2, <3>1
      <4> QED
        BY <4>1
    <3>2. CASE name[i] \in Special
      <4>1. q - 1 = p + 1 /\ p + 1 \in 0 .. Len(E) /\ p + 1 # 0 /\ (p + 1) - 1 = p /\ Len(E) # 1
        BY <2>2, <3>2
      <4>2. p + 1 \notin Kept(E)
        <5>1. E[p + 1] = Backslash
          BY <2>2, <3>2
        <5>2. ~(p + 1 > 1 /\ E[(p + 1) - 1] = Backslash)
          BY <2>2, <2>5, <2>6, <3>2, <4>1
        <5> QED
          BY <4>1, <5>1, <5>2 DEF Kept
      <4>3. u[p + 1] = Unescaped(E, p + 1, u[(p + 1) - 1])
        BY <1>7, <4>1
      <4> QED
        BY <4>1, <4>2, <4>3 DEF Unescaped
    <3> QED
      BY <3>1, <3>2
  <2>11. u[q] = Append(u[p], name[i])
    <3>1. q \in 0 .. Len(E) /\ q # 0
      BY <2>9
    <3>2. u[q] = Unescaped(E, q, u[q - 1])
      BY <1>7, <3>1
    <3> QED
      BY <2>2, <2>9, <2>10, <3>2 DEF Unescaped
  <2>12. Undoes(i, q)
    <3>1. u[p] \in Seq(Char) /\ Len(u[p]) = i - 1 /\ \A y \in 1 .. i - 1 : u[p][y] = name[y]
      <4>1. p \in 0 .. Len(E)
        BY <2>2
      <4> QED
        BY <1>8, <2>3, <4>1
    <3>2. Len(u[q]) = i /\ \A y \in 1 .. i : u[q][y] = IF y = i THEN name[i] ELSE u[p][y]
      BY <2>11, <3>1
    <3> QED
      BY <3>1, <3>2
  <2> HIDE DEF Ends, Quotes, Undoes
  <2> QED
    BY <2>1, <2>7, <2>8, <2>12
<1>10. Good(0)
  <2>1. e[0] = <<>> /\ u[0] = <<>> /\ Len(e[0]) = 0
    <3>1. 0 \in 0 .. n /\ 0 \in 0 .. Len(E)
      BY <1>2, <1>6
    <3>2. e[0] = <<>> /\ u[0] = <<>>
      BY <1>1, <1>7, <3>1
    <3> QED
      BY <3>2
  <2> QED
    BY <2>1
<1>11. Bad = {}
  <2> HIDE DEF Good, n
  <2>1. SUFFICES ASSUME Bad # {} PROVE FALSE
    BY <2>1
  <2>2. PICK i \in Bad : \A j \in Bad : i <= j
    <3>1. Bad \in SUBSET Nat
      BY <1>2
    <3> HIDE DEF Bad
    <3> QED
      BY <2>1, <3>1, Least
  <2>3. i \in 1 .. n /\ i - 1 \in 0 .. n /\ ~(i <= i - 1)
    BY <1>2, <1>10
  <2>4. Good(i - 1)
    BY <2>2, <2>3
  <2> QED
    BY <1>9, <2>2, <2>3, <2>4
<1>12. Ends(n, Len(E)) /\ Quotes(Len(E)) /\ Undoes(n, Len(E))
  <2>1. Good(n)
    <3> HIDE DEF Good, n
    <3> QED
      BY <1>2, <1>11
  <2> HIDE DEF Ends, Quotes, Undoes
  <2> QED
    BY <1>1, <2>1
<1>13. Unescape(E) = name
  <2>1. Len(E) \in 0 .. Len(E)
    BY <1>6
  <2>2. u[Len(E)] \in Seq(Char)
    BY <1>8, <2>1
  <2> QED
    BY <1>7, <1>12, <2>2, SameSequence
<1>14. E[Len(E)] = Backslash => Len(E) > 1 /\ E[Len(E) - 1] = Backslash
  BY <1>2, <1>12 DEF Special
<1> HIDE DEF n
<1> QED
  BY <1>2, <1>6, <1>12, <1>13, <1>14
LEMMA EscapedIs ==
  ASSUME NEW name \in Seq(Char)
  PROVE  Escaped(name) \in Seq(Char)
<1>1. Len(name) \in 0 .. Len(name)
  OBVIOUS
<1> QED
  BY <1>1, EscapedDefined, EscapedType

(* What is added for name i: white space, a quote, the name escaped and    *)
(* another quote.                                                          *)
Laid(names, i, before, after) ==
  LET E == Escaped(names[i])
      p == Len(before)
  IN  /\ after \in Seq(Char) /\ Len(after) = p + Len(E) + 3
      /\ \A x \in 1 .. p : after[x] = before[x]
      /\ after[p + 1] = Space /\ after[p + 2] = Quote /\ after[Len(after)] = Quote
      /\ \A x \in 1 .. Len(E) : after[p + 2 + x] = E[x]

LEMMA QuotedLays ==
  ASSUME NEW names \in Seq(Seq(Char)), NEW i \in 1 .. Len(names), NEW before \in Seq(Char)
  PROVE  Laid(names, i, before, QuotedNext(names, i, before))
<1>1. PICK E : E = Escaped(names[i])
  OBVIOUS
<1>2. E \in Seq(Char) /\ Space \in Char /\ Quote \in Char
  <2>1. names[i] \in Seq(Char)
    OBVIOUS
  <2> QED
    BY <1>1, <2>1, EscapedIs DEF Char
<1>3. PICK a : a = Append(Append(before, Space), Quote)
  OBVIOUS
<1>4. /\ a \in Seq(Char) /\ Len(a) = Len(before) + 2
      /\ a[Len(before) + 1] = Space /\ a[Len(before) + 2] = Quote
      /\ \A x \in 1 .. Len(before) : a[x] = before[x]
  BY <1>2, <1>3
<1>5. before \o <<Space, Quote>> = a
  BY <1>2, <1>3
<1>6. PICK b : b = a \o E
  OBVIOUS
<1>7. /\ b \in Seq(Char) /\ Len(b) = Len(a) + Len(E)
      /\ \A x \in 1 .. Len(a) : b[x] = a[x]
      /\ \A x \in 1 .. Len(E) : b[Len(a) + x] = E[x]
  <2>1. b \in Seq(Char)
    BY <1>2, <1>4, <1>6
  <2>2. Len(b) = Len(a) + Len(E)
    BY <1>2, <1>4, <1>6, ConcatProperties
  <2>3. \A x \in 1 .. Len(a) : b[x] = a[x]
    BY <1>2, <1>4, <1>6
  <2>4. ASSUME NEW x \in 1 .. Len(E) PROVE b[Len(a) + x] = E[x]
    <3>1. Len(a) \in Nat /\ Len(E) \in Nat
      BY <1>2, <1>4
    <3>2. Len(a) + x \in 1 .. Len(a) + Len(E) /\ ~(Len(a) + x <= Len(a)) /\ (Len(a) + x) - Len(a) = x
      BY <3>1
    <3> QED
      BY <1>2, <1>4, <1>6, <3>2, ConcatProperties
  <2> QED
    BY <2>1, <2>2, <2>3, <2>4
<1>8. PICK c : c = Append(b, Quote)
  OBVIOUS
<1>9. /\ c \in Seq(Char) /\ Len(c) = Len(b) + 1 /\ c[Len(b) + 1] = Quote
      /\ \A x \in 1 .. Len(b) : c[x] = b[x]
  BY <1>2, <1>7, <1>8
<1>10. QuotedNext(names, i, before) = c
  <2>1. QuotedNext(names, i, before) = b \o <<Quote>>
    BY <1>1, <1>5, <1>6 DEF QuotedNext
  <2>2. b \o <<Quote>> = c
    BY <1>2, <1>7, <1>8
  <2> QED
    BY <2>1, <2>2
<1>11. Len(before) \in Nat /\ Len(E) \in Nat
  BY <1>2
<1>12. Len(c) = Len(before) + Len(E) + 3
  BY <1>4, <1>7, <1>9, <1>11
<1>13. \A x \in 1 .. Len(before) : c[x] = before[x]
  BY <1>4, <1>7, <1>9, <1>11
<1>14. c[Len(before) + 1] = Space /\ c[Len(before) + 2] = Quote /\ c[Len(c)] = Quote
  <2>1. Len(before) + 1 \in 1 .. Len(a) /\ Len(before) + 2 \in 1 .. Len(a)
    BY <1>4, <1>11
  <2>2. Len(before) + 1 \in 1 .. Len(b) /\ Len(before) + 2 \in 1 .. Len(b)
    BY <1>4, <1>7, <1>11
  <2> QED
    BY <1>4, <1>7, <1>9, <2>1, <2>2
<1>15. \A x \in 1 .. Len(E) : c[Len(before) + 2 + x] = E[x]
  <2>1. \A x \in 1 .. Len(E) : Len(a) + x = Len(before) + 2 + x /\ Len(a) + x \in 1 .. Len(b)
    BY <1>4, <1>7, <1>11
  <2> QED
    BY <1>7, <1>9, <2>1
<1> QED
  BY <1>1, <1>9, <1>10, <1>12, <1>13, <1>14, <1>15 DEF Laid

(* The recursion of Quoted has a function to define. *)
LEMMA QuotedDefined ==
  ASSUME NEW names \in Seq(Seq(Char))
  PROVE  \E q : /\ Quoted(names) = q[Len(names)]
                /\ \A i \in 0 .. Len(names) :
                     q[i] = IF i = 0 THEN <<>> ELSE QuotedNext(names, i, q[i - 1])
<1> DEFINE g == [x \in (1 .. Len(names)) \X Seq(Char) |-> QuotedNext(names, x[1], x[2])]
<1>1. Len(names) \in Nat /\ <<>> \in Seq(Char)
  OBVIOUS
<1>2. g \in [(1 .. Len(names)) \X Seq(Char) -> Seq(Char)]
  <2>1. ASSUME NEW i \in 1 .. Len(names), NEW q \in Seq(Char)
        PROVE  QuotedNext(names, i, q) \in Seq(Char)
    BY QuotedLays DEF Laid
  <2> QED
    BY <2>1
<1>3. PICK f \in [0 .. Len(names) -> Seq(Char)] : Recurs(f, Len(names), <<>>, g)
  <2> HIDE DEF g
  <2> QED
    BY <1>1, <1>2, Recursion
<1>4. \A i \in 0 .. Len(names) : f[i] = IF i = 0 THEN <<>> ELSE QuotedNext(names, i, f[i - 1])
  <2>1. ASSUME NEW i \in 0 .. Len(names), i # 0
        PROVE  g[<<i, f[i - 1]>>] = QuotedNext(names, i, f[i - 1])
    <3>1. i \in 1 .. Len(names) /\ i - 1 \in 0 .. Len(names)
      BY <2>1, <1>1
    <3>2. f[i - 1] \in Seq(Char)
      BY <3>1
    <3> QED
      BY <3>1, <3>2
  <2> QED
    BY <1>3, <2>1 DEF Recurs
<1>5. f = [i \in 0 .. Len(names) |->
             IF i = 0 THEN <<>>
             ELSE f[i - 1] \o <<Space, Quote>> \o Escaped(names[i]) \o <<Quote>>]
  BY <1>4 DEF QuotedNext
<1>6. PICK q : /\ q = [i \in 0 .. Len(names) |->
                         IF i = 0 THEN <<>>
                         ELSE q[i - 1] \o <<Space, Quote>> \o Escaped(names[i]) \o <<Quote>>]
               /\ Quoted(names) = q[Len(names)]
  BY <1>5, Zenon DEF Quoted
<1>7. \A i \in 0 .. Len(names) : q[i] = IF i = 0 THEN <<>> ELSE QuotedNext(names, i, q[i - 1])
  BY <1>6, Zenon DEF QuotedNext
<1> QED
  BY <1>6, <1>7

LEMMA QuotedType ==
  ASSUME NEW names \in Seq(Seq(Char)), NEW q,
         \A i \in 0 .. Len(names) : q[i] = IF i = 0 THEN <<>> ELSE QuotedNext(names, i, q[i - 1])
  PROVE  \A i \in 0 .. Len(names) : q[i] \in Seq(Char)
<1> DEFINE Bad == {i \in 0 .. Len(names) : q[i] \notin Seq(Char)}
<1>1. SUFFICES ASSUME Bad # {} PROVE FALSE
  BY <1>1
<1>2. PICK i \in Bad : \A j \in Bad : i <= j
  <2>1. Bad \in SUBSET Nat
    OBVIOUS
  <2> HIDE DEF Bad
  <2> QED
    BY <1>1, <2>1, Least
<1>3. i # 0
  <2>1. q[0] = <<>> /\ <<>> \in Seq(Char)
    OBVIOUS
  <2> QED
    BY <2>1
<1>4. i \in 1 .. Len(names) /\ i - 1 \in 0 .. Len(names) /\ i - 1 \notin Bad
  <2>1. i \in 0 .. Len(names) /\ ~(i <= i - 1)
    OBVIOUS
  <2> QED
    BY <1>2, <1>3, <2>1
<1>5. q[i - 1] \in Seq(Char) /\ q[i] = QuotedNext(names, i, q[i - 1])
  BY <1>3, <1>4
<1>6. Laid(names, i, q[i - 1], q[i])
  BY <1>4, <1>5, QuotedLays
<1>7. q[i] \in Seq(Char)
  BY <1>6 DEF Laid
<1> QED
  BY <1>7

(* Name i ends with the character at[i] of the text.                       *)
Places(at) ==
  /\ at[0] = 0 /\ at[Len(meant)] = Len(text)
  /\ \A i \in 1 .. Len(meant) :
       LET E == Escaped(meant[i])
       IN  /\ at[i - 1] \in Nat /\ at[i] = at[i - 1] + Len(E) + 3 /\ at[i] <= Len(text)
           /\ text[at[i - 1] + 1] = Space /\ text[at[i - 1] + 2] = Quote /\ text[at[i]] = Quote
           /\ \A x \in 1 .. Len(E) : text[at[i - 1] + 2 + x] = E[x]

LEMMA PlacesExist ==
  ASSUME meant \in Seq(Seq(Char)), text = Quoted(meant)
  PROVE  \E at : Places(at)
<1> DEFINE n == Len(meant)
<1>1. PICK q : /\ text = q[n]
               /\ \A i \in 0 .. n : q[i] = IF i = 0 THEN <<>> ELSE QuotedNext(meant, i, q[i - 1])
  BY QuotedDefined
<1>2. n \in Nat /\ \A i \in 0 .. n : q[i] \in Seq(Char) /\ Len(q[i]) \in Nat
  BY <1>1, QuotedType
<1>3. ASSUME NEW i \in 1 .. n
      PROVE  Laid(meant, i, q[i - 1], q[i])
  <2>1. i # 0 /\ i \in 0 .. n /\ i - 1 \in 0 .. n
    BY <1>2
  <2>2. q[i] = QuotedNext(meant, i, q[i - 1]) /\ q[i - 1] \in Seq(Char)
    BY <1>1, <1>2, <2>1
  <2> QED
    BY <2>2, QuotedLays
<1>4. \A i \in 0 .. n : Len(q[i]) <= Len(q[n]) /\ \A x \in 1 .. Len(q[i]) : q[n][x] = q[i][x]
  <2>1. ASSUME NEW i \in 1 .. n
        PROVE  /\ Len(q[i - 1]) <= Len(q[i])
               /\ \A x \in 1 .. Len(q[i - 1]) : q[i][x] = q[i - 1][x]
    <3>1. i - 1 \in 0 .. n /\ Escaped(meant[i]) \in Seq(Char)
      BY <1>2, EscapedIs
    <3>2. PICK p, l, w : p = Len(q[i - 1]) /\ l = Len(Escaped(meant[i])) /\ w = Len(q[i])
      OBVIOUS
    <3>3. p \in Nat /\ l \in Nat
      BY <1>2, <3>1, <3>2
    <3>4. w = p + l + 3 /\ \A x \in 1 .. p : q[i][x] = q[i - 1][x]
      BY <1>3, <3>2 DEF Laid
    <3>5. p <= w
      BY <3>3, <3>4
    <3>6. \A x \in 1 .. p : q[i][x] = q[i - 1][x]
      BY <3>4
    <3> QED
      BY <3>2, <3>5, <3>6, Zenon
  <2>2. \A i \in 0 .. n : q[i] \in Seq(Char)
    BY <1>2
  <2> HIDE DEF n
  <2>3. Grow(q, n)
    BY <2>1, <2>2 DEF Grow
  <2> QED
    BY <1>2, <2>3, Prefixes, Zenon
<1>5. PICK at : at = [i \in 0 .. n |-> Len(q[i])]
  OBVIOUS
<1>6. at[0] = 0 /\ at[n] = Len(text)
  <2>1. q[0] = <<>> /\ 0 \in 0 .. n /\ n \in 0 .. n
    BY <1>1, <1>2
  <2> QED
    BY <1>1, <1>5, <2>1
<1>7. ASSUME NEW i \in 1 .. n, NEW E, E = Escaped(meant[i])
      PROVE  /\ at[i - 1] \in Nat /\ at[i] = at[i - 1] + Len(E) + 3 /\ at[i] <= Len(text)
             /\ text[at[i - 1] + 1] = Space /\ text[at[i - 1] + 2] = Quote /\ text[at[i]] = Quote
             /\ \A x \in 1 .. Len(E) : text[at[i - 1] + 2 + x] = E[x]
  <2>1. i \in 0 .. n /\ i - 1 \in 0 .. n /\ E \in Seq(Char)
    BY <1>2, <1>7, EscapedIs
  <2>2. PICK p, s : p = at[i - 1] /\ s = q[i]
    OBVIOUS
  <2>3. p = Len(q[i - 1]) /\ p \in Nat /\ Len(E) \in Nat /\ at[i] = Len(s)
    <3> HIDE DEF n
    <3> QED
      BY <1>2, <1>5, <2>1, <2>2
  <2>4. /\ Len(s) = p + Len(E) + 3
        /\ s[p + 1] = Space /\ s[p + 2] = Quote /\ s[Len(s)] = Quote
        /\ \A x \in 1 .. Len(E) : s[p + 2 + x] = E[x]
    BY <1>3, <1>7, <2>2, <2>3 DEF Laid
  <2>5. Len(s) <= Len(text) /\ \A x \in 1 .. Len(s) : text[x] = s[x]
    BY <1>1, <1>4, <2>1, <2>2
  <2>6. /\ p + 1 \in 1 .. Len(s) /\ p + 2 \in 1 .. Len(s) /\ Len(s) \in 1 .. Len(s)
        /\ \A x \in 1 .. Len(E) : p + 2 + x \in 1 .. Len(s)
    <3>1. PICK l, w : l = Len(E) /\ w = Len(s)
      OBVIOUS
    <3>2. p \in Nat /\ l \in Nat /\ w = p + l + 3
      BY <2>3, <2>4, <3>1
    <3>3. /\ p + 1 \in 1 .. w /\ p + 2 \in 1 .. w /\ w \in 1 .. w
          /\ \A x \in 1 .. l : p + 2 + x \in 1 .. w
      BY <3>2
    <3> QED
      BY <3>1, <3>3
  <2>7. text[p + 1] = Space /\ text[p + 2] = Quote /\ text[Len(s)] = Quote
    BY <2>4, <2>5, <2>6
  <2>8. \A x \in 1 .. Len(E) : text[p + 2 + x] = E[x]
    BY <2>4, <2>5, <2>6
  <2> QED
    BY <2>2, <2>3, <2>4, <2>5, <2>7, <2>8
<1>8. Places(at)
  BY <1>6, <1>7 DEF Places
<1> QED
  BY <1>8
(* The next argument is the next quote. *)
LEMMA NextQuote ==
  ASSUME text \in Seq(Char), NEW i \in 1 .. Len(text), i + 1 <= Len(text),
         text[i] = Space, text[i + 1] = Quote
  PROVE  NextArgument(i) = i + 1
<1> DEFINE hits == {k \in i .. Len(text) : text[k] # Space}
<1>1. PICK k : k = NextArgument(i)
  OBVIOUS
<1>2. i \in 1 .. End /\ End = Len(text) + 1 /\ Len(text) \in Nat
  BY EndType
<1>3. /\ k \in i .. End /\ (k = End \/ k \in hits)
      /\ \A j \in i .. k - 1 : j \notin hits
  <2> HIDE DEF hits
  <2>1. k = First(i, hits)
    BY <1>1 DEF NextArgument, hits
  <2> QED
    BY <1>2, <2>1, FirstFound
<1>4. i \notin hits /\ i + 1 \in hits
  <2>1. i + 1 \in i .. Len(text)
    BY <1>2
  <2> QED
    BY <2>1 DEF Space, Quote
<1> HIDE DEF hits
<1>5. k # i
  BY <1>2, <1>3, <1>4
<1>6. ~(i + 1 < k)
  <2>1. ASSUME i + 1 < k PROVE i + 1 \in i .. k - 1
    BY <1>2, <1>3, <2>1
  <2> QED
    BY <1>3, <1>4, <2>1
<1> QED
  BY <1>1, <1>2, <1>3, <1>5, <1>6

(* A quoted name ends where its client has ended it. *)
LEMMA QuoteCloses ==
  ASSUME text \in Seq(Char), NEW b \in 1 .. Len(text), NEW E \in Seq(Char), NEW c,
         c = b + Len(E) + 1, c <= Len(text), text[b] = Quote, text[c] = Quote,
         \A x \in 1 .. Len(E) : text[b + x] = E[x],
         \A x \in 1 .. Len(E) :
           E[x] = Quote => x > 1 /\ E[x - 1] = Backslash /\ (x > 2 => E[x - 2] # Backslash),
         E[Len(E)] = Backslash => Len(E) > 1 /\ E[Len(E) - 1] = Backslash,
         Len(E) > 0
  PROVE  Delimited(b, {Quote}) = c
<1> DEFINE hits == {k \in b + 1 .. Len(text) : text[k] \in {Quote} /\ ~IsEscaped(b, k)}
<1>1. PICK e, l : e = Delimited(b, {Quote}) /\ l = Len(E)
  OBVIOUS
<1>2. /\ b + 1 \in 1 .. End /\ End = Len(text) + 1 /\ Len(text) \in Nat /\ l \in Nat /\ l > 0
      /\ c = b + l + 1 /\ b \in Nat /\ c \in Nat
  BY <1>1, EndType
<1>3. /\ e \in b + 1 .. End /\ (e = End \/ e \in hits)
      /\ \A j \in b + 1 .. e - 1 : j \notin hits
  <2> HIDE DEF hits
  <2>1. e = First(b + 1, hits)
    BY <1>1 DEF Delimited, hits
  <2> QED
    BY <1>2, <2>1, FirstFound
<1>4. c \in hits
  <2>1. c \in b + 1 .. Len(text)
    BY <1>2
  <2>2. text[c - 1] = E[l]
    <3> HIDE DEF hits
    <3>1. l \in 1 .. l
      BY <1>2
    <3>2. c - 1 = b + l
      BY <1>1, <1>2
    <3> QED
      BY <1>1, <3>1, <3>2
  <2>3. ASSUME text[c - 1] = Backslash PROVE c - b > 2 /\ text[c - 2] = Backslash
    <3>1. l > 1 /\ E[l - 1] = Backslash
      BY <1>1, <2>2, <2>3
    <3> HIDE DEF hits
    <3>2. l - 1 \in 1 .. l
      BY <1>2, <3>1
    <3>3. c - 2 = b + (l - 1)
      BY <1>1, <1>2
    <3>4. c - b > 2
      BY <1>2, <3>1
    <3> QED
      BY <1>1, <3>1, <3>2, <3>3, <3>4
  <2> QED
    BY <2>1, <2>3 DEF IsEscaped
<1>5. ASSUME NEW k \in b + 1 .. c - 1
      PROVE  k \notin hits
  <2>1. PICK x : x = k - b
    OBVIOUS
  <2>2. x \in 1 .. l /\ k = b + x /\ k \in Nat
    BY <1>2, <2>1
  <2>3. text[k] = E[x]
    BY <1>1, <2>2
  <2>4. ASSUME text[k] = Quote PROVE IsEscaped(b, k)
    <3>1. x > 1 /\ E[x - 1] = Backslash /\ (x > 2 => E[x - 2] # Backslash)
      BY <1>1, <2>2, <2>3, <2>4
    <3>2. text[k - 1] = Backslash
      <4>1. x - 1 \in 1 .. l /\ k - 1 = b + (x - 1)
        BY <1>2, <2>2, <3>1
      <4> QED
        BY <1>1, <3>1, <4>1
    <3>3. ~(k - b > 2 /\ text[k - 2] = Backslash)
      <4> SUFFICES ASSUME k - b > 2 PROVE text[k - 2] # Backslash
        OBVIOUS
      <4>1. x > 2 /\ x - 2 \in 1 .. l /\ k - 2 = b + (x - 2)
        BY <1>2, <2>1, <2>2
      <4> QED
        BY <1>1, <3>1, <4>1
    <3> QED
      BY <3>2, <3>3 DEF IsEscaped
  <2> QED
    BY <2>4
<1> HIDE DEF hits
<1>6. ~(e < c)
  <2>1. ASSUME e < c PROVE e \in b + 1 .. c - 1 /\ e # End
    BY <1>2, <1>3, <2>1
  <2> QED
    BY <1>3, <1>5, <2>1
<1>7. ~(c < e)
  <2>1. ASSUME c < e PROVE c \in b + 1 .. e - 1
    BY <1>2, <1>3, <2>1
  <2> QED
    BY <1>3, <1>4, <2>1
<1> QED
  BY <1>1, <1>2, <1>3, <1>6, <1>7

(* The first k arguments the client has quoted have been taken. *)
HasTaken(k) == Len(args) = k /\ \A i \in 1 .. k : args[i] = meant[i]

AsSent(at) ==
  /\ pc = "received" => HasTaken(0) /\ arg = <<>> /\ valid /\ type = "bad_request"
  /\ pc = "part" =>
       valid /\ arg = <<>> /\ \E i \in 1 .. Len(meant) : begin = at[i - 1] + 2 /\ HasTaken(i - 1)
  /\ pc = "end" =>
       valid /\ \E i \in 1 .. Len(meant) : begin = at[i] + 1 /\ arg = meant[i] /\ HasTaken(i - 1)
  /\ pc = "done" /\ type # "bad_request" => args = meant

(* Round by round the quoted names come out. *)
Undone ==
  meant # <<>> =>
    /\ meant \in Seq(Seq(Char)) /\ \A i \in 1 .. Len(meant) : Sendable(meant[i])
    /\ \E at : Places(at) /\ AsSent(at)

(* What Places says of name i. *)
LEMMA PlaceOf ==
  ASSUME text \in Seq(Char), meant \in Seq(Seq(Char)), NEW at, Places(at),
         NEW i \in 1 .. Len(meant), Sendable(meant[i]), NEW E, E = Escaped(meant[i])
  PROVE  /\ at[i - 1] \in Nat /\ at[i] = at[i - 1] + Len(E) + 3 /\ at[i] <= Len(text)
         /\ E \in Seq(Char) /\ Len(E) \in Nat
         /\ text[at[i - 1] + 1] = Space /\ text[at[i - 1] + 2] = Quote
         /\ NextArgument(at[i - 1] + 1) = at[i - 1] + 2
         /\ Delimited(at[i - 1] + 2, {Quote}) = at[i]
         /\ SubSeq(text, at[i - 1] + 3, at[i] - 1) = E /\ Part(E) = meant[i] /\ meant[i] # <<>>
<1>1. meant[i] \in Seq(Char)
  OBVIOUS
<1>2. /\ E \in Seq(Char) /\ Len(E) > 0
      /\ \A x \in 1 .. Len(E) :
           E[x] = Quote => x > 1 /\ E[x - 1] = Backslash /\ (x > 2 => E[x - 2] # Backslash)
      /\ E[Len(E)] = Backslash => Len(E) > 1 /\ E[Len(E) - 1] = Backslash
      /\ Unescape(E) = meant[i]
  BY <1>1, EscapedShape
<1>3. PICK p, c, l : p = at[i - 1] /\ c = at[i] /\ l = Len(E)
  OBVIOUS
<1>4. /\ p \in Nat /\ c = p + l + 3 /\ c <= Len(text)
      /\ text[p + 1] = Space /\ text[p + 2] = Quote /\ text[c] = Quote
      /\ \A x \in 1 .. l : text[p + 2 + x] = E[x]
  BY <1>3 DEF Places
<1>5. PICK n : n = Len(text)
  OBVIOUS
<1>6. l \in Nat /\ l > 0 /\ n \in Nat /\ p \in Nat /\ c \in Nat /\ c = p + l + 3 /\ c <= n
  <2>1. l \in Nat /\ l > 0 /\ n \in Nat
    BY <1>2, <1>3, <1>5
  <2> QED
    BY <1>4, <1>5, <2>1
<1>7. NextArgument(p + 1) = p + 2
  <2>1. p + 1 \in 1 .. n /\ (p + 1) + 1 = p + 2 /\ p + 2 <= n
    BY <1>6
  <2> QED
    BY <1>4, <1>5, <2>1, NextQuote
<1>8. Delimited(p + 2, {Quote}) = c
  <2>1. PICK b : b = p + 2
    OBVIOUS
  <2>2. b \in 1 .. n /\ c = b + l + 1
    BY <1>6, <2>1
  <2>3. text[b] = Quote /\ \A x \in 1 .. Len(E) : text[b + x] = E[x]
    BY <1>3, <1>4, <2>1
  <2>4. Delimited(b, {Quote}) = c
    BY <1>2, <1>3, <1>4, <1>5, <2>2, <2>3, QuoteCloses
  <2> QED
    BY <2>1, <2>4
<1>9. SubSeq(text, p + 3, c - 1) = E
  <2>1. PICK s : s = SubSeq(text, p + 3, c - 1)
    OBVIOUS
  <2>2. p + 3 \in 1 .. n + 1 /\ c - 1 \in (p + 3) - 1 .. n
    BY <1>6
  <2>3. s \in Seq(Char)
    BY <1>5, <2>1, <2>2, Between
  <2>4. Len(s) = l /\ \A x \in 1 .. l : s[x] = text[(p + 3) + x - 1]
    <3>1. Len(s) = (c - 1) - (p + 3) + 1
      BY <1>5, <1>6, <2>1, <2>2, SubSeqProperties
    <3>2. \A x \in 1 .. Len(s) : s[x] = text[(p + 3) + x - 1]
      BY <1>5, <1>6, <2>1, <2>2, SubSeqProperties
    <3>3. (c - 1) - (p + 3) + 1 = l
      BY <1>6
    <3> QED
      BY <3>1, <3>2, <3>3
  <2>5. \A x \in 1 .. l : (p + 3) + x - 1 = p + 2 + x
    BY <1>6
  <2>6. \A x \in 1 .. Len(s) : s[x] = E[x]
    BY <1>4, <2>4, <2>5
  <2> QED
    <3>1. Len(s) = Len(E) /\ E \in Seq(Char)
      BY <1>2, <1>3, <2>4
    <3>2. s = E
      BY <2>3, <2>6, <3>1, SameSequence
    <3> QED
      BY <2>1, <3>2
<1>10. Part(E) = meant[i] /\ meant[i] # <<>>
  BY <1>2 DEF Part, Sendable
<1> QED
  BY <1>2, <1>3, <1>4, <1>6, <1>7, <1>8, <1>9, <1>10
LEMMA InitUndone == Init => Undone
<1> SUFFICES ASSUME Init, meant # <<>>
             PROVE  /\ meant \in Seq(Seq(Char)) /\ \A i \in 1 .. Len(meant) : Sendable(meant[i])
                    /\ \E at : Places(at) /\ AsSent(at)
  BY DEF Undone
<1>1. PICK q \in Quotations : text = q[1] /\ meant = q[2]
  BY DEF Init
<1>2. /\ meant \in Seq(Seq(Char)) /\ text = Quoted(meant)
      /\ \A i \in 1 .. Len(meant) : Sendable(meant[i])
  BY <1>1, RequestsAssumption, QuotationsAssumption
<1>3. PICK at : Places(at)
  BY <1>2, PlacesExist
<1>4. AsSent(at)
  BY DEF Init, AsSent, HasTaken
<1> QED
  BY <1>2, <1>3, <1>4

(* One step of the parser in a text of quoted names. *)
LEMMA SentNext ==
  ASSUME Types, [Next]_vars, meant \in Seq(Seq(Char)), meant # <<>>,
         \A i \in 1 .. Len(meant) : Sendable(meant[i]), NEW at, Places(at), AsSent(at)
  PROVE  AsSent(at)'
<1> DEFINE n == Len(text)
           m == Len(meant)
<1>1. /\ text \in Seq(Char) /\ End = n + 1 /\ n \in Nat /\ args \in Seq(Seq(Char))
      /\ begin \in 1 .. n + 1
  BY EndType DEF Types, TypeOK
<1>2. m \in Nat /\ m > 0
  BY EmptySeq, LenProperties
<1>3. ASSUME NEW i \in 1 .. m, NEW E, E = Escaped(meant[i])
      PROVE  /\ at[i - 1] \in Nat /\ at[i] = at[i - 1] + Len(E) + 3 /\ at[i] <= n
             /\ E \in Seq(Char) /\ Len(E) \in Nat
             /\ text[at[i - 1] + 1] = Space /\ text[at[i - 1] + 2] = Quote
             /\ NextArgument(at[i - 1] + 1) = at[i - 1] + 2
             /\ Delimited(at[i - 1] + 2, {Quote}) = at[i]
             /\ SubSeq(text, at[i - 1] + 3, at[i] - 1) = E /\ Part(E) = meant[i] /\ meant[i] # <<>>
  BY <1>1, <1>3, PlaceOf
<1>4. CASE Rejected
  BY <1>4 DEF Rejected, AsSent
<1>5. CASE UNCHANGED vars
  BY <1>5 DEF vars, AsSent, HasTaken
<1>6. CASE Process
  <2>1. HasTaken(0) /\ arg = <<>> /\ valid /\ text' = text /\ meant' = meant
        /\ args' = args /\ arg' = arg /\ valid' = valid
    BY <1>6 DEF Process, AsSent
  <2>2. 1 \in 1 .. m /\ at[0] = 0 /\ 1 - 1 = 0
    BY <1>2 DEF Places
  <2>3. PICK E : E = Escaped(meant[1])
    OBVIOUS
  <2>4. NextArgument(at[0] + 1) = at[0] + 2 /\ at[1] = at[0] + Len(E) + 3 /\ at[1] <= n /\ Len(E) \in Nat
    BY <1>3, <2>2, <2>3
  <2>5. begin' = 2 /\ 2 < End
    BY <1>1, <1>6, <2>2, <2>4 DEF Process
  <2>6. pc' = "part"
    BY <1>6, <2>5 DEF Process, Found
  <2>7. begin' = at[1 - 1] + 2 /\ HasTaken(1 - 1)'
    BY <2>1, <2>2, <2>5 DEF HasTaken
  <2> QED
    BY <2>1, <2>2, <2>6, <2>7 DEF AsSent
<1>7. CASE ParseQuotedArgument
  <2>1. PICK i \in 1 .. m : begin = at[i - 1] + 2 /\ HasTaken(i - 1)
    BY <1>7 DEF ParseQuotedArgument, AsSent
  <2>2. arg = <<>> /\ valid
    BY <1>7 DEF ParseQuotedArgument, AsSent
  <2>3. PICK E : E = Escaped(meant[i])
    OBVIOUS
  <2>4. PICK c : c = at[i]
    OBVIOUS
  <2>5. /\ Delimited(begin, {Quote}) = c /\ c <= n /\ c = begin + Len(E) + 1 /\ Len(E) \in Nat
        /\ SubSeq(text, begin + 1, c - 1) = E /\ Part(E) = meant[i] /\ meant[i] # <<>>
    <3>1. PICK p : p = at[i - 1]
      OBVIOUS
    <3>2. /\ p \in Nat /\ c = p + Len(E) + 3 /\ c <= n /\ Len(E) \in Nat /\ begin = p + 2
          /\ Delimited(p + 2, {Quote}) = c /\ SubSeq(text, p + 3, c - 1) = E
          /\ Part(E) = meant[i] /\ meant[i] # <<>>
      BY <1>3, <2>1, <2>3, <2>4, <3>1
    <3>3. begin + 1 = p + 3 /\ c = begin + Len(E) + 1
      BY <3>2
    <3> QED
      BY <3>2, <3>3
  <2>6. PartRead(meant[i], c + 1)
    <3>1. c < End /\ c # End
      BY <1>1, <2>5
    <3>2. PartRead(Part(SubSeq(text, begin + 1, c - 1)), c + 1)
      <4>1. Delimited(begin, {Quote}) = c
        BY <2>5
      <4> QED
        BY <1>7, <3>1, <4>1, Zenon DEF ParseQuotedArgument
    <3> QED
      BY <2>5, <3>2
  <2>7. /\ valid' /\ arg' = meant[i] /\ args' = args /\ begin' = c + 1 /\ meant' = meant
        /\ pc' = IF c + 1 < End /\ text[c + 1] # Space THEN "part" ELSE "end"
    <3>1. meant[i] \in Seq(Char)
      OBVIOUS
    <3>2. <<>> \o meant[i] = meant[i]
      BY <3>1
    <3> QED
      BY <2>2, <2>5, <2>6, <3>2 DEF PartRead
  <2>8. pc' = "end"
    <3>1. CASE i = m
      <4>1. c = n
        BY <2>4, <3>1 DEF Places
      <4> QED
        BY <1>1, <2>7, <4>1
    <3>2. CASE i # m
      <4>1. i + 1 \in 1 .. m /\ (i + 1) - 1 = i
        BY <1>2, <3>2
      <4>2. text[at[i] + 1] = Space
        BY <1>3, <4>1
      <4> QED
        BY <2>4, <2>7, <4>2
    <3> QED
      BY <3>1, <3>2
  <2>9. HasTaken(i - 1)'
    BY <2>1, <2>7 DEF HasTaken
  <2> QED
    BY <2>4, <2>7, <2>8, <2>9 DEF AsSent
<1>8. ~ParseRegularArgument
  <2> SUFFICES ASSUME ParseRegularArgument PROVE FALSE
    OBVIOUS
  <2>1. PICK i \in 1 .. m : begin = at[i - 1] + 2
    BY DEF ParseRegularArgument, AsSent
  <2>2. text[at[i - 1] + 2] = Quote
    BY <1>3
  <2> QED
    BY <2>1, <2>2 DEF ParseRegularArgument
<1>9. CASE ParseSingleArgument
  <2>1. PICK i \in 1 .. m : begin = at[i] + 1 /\ arg = meant[i] /\ HasTaken(i - 1)
    BY <1>9 DEF ParseSingleArgument, AsSent
  <2>2. /\ args' = Append(args, meant[i]) /\ arg' = <<>> /\ valid' /\ meant' = meant
        /\ begin' = NextArgument(begin)
    BY <1>9, <2>1 DEF ParseSingleArgument, AsSent
  <2>3. HasTaken(i)'
    <3>1. /\ Len(args) = i - 1 /\ \A j \in 1 .. i - 1 : args[j] = meant[j]
      BY <2>1 DEF HasTaken
    <3>2. PICK A : A = args'
      OBVIOUS
    <3>3. /\ Len(A) = i
          /\ \A j \in 1 .. i : A[j] = IF j = i THEN meant[i] ELSE args[j]
      BY <1>1, <2>2, <3>1, <3>2
    <3>4. ASSUME NEW j \in 1 .. i PROVE A[j] = meant[j]
      <4>1. j # i => j \in 1 .. i - 1
        BY <1>2
      <4> QED
        BY <3>1, <3>3, <4>1
    <3> QED
      BY <2>2, <3>2, <3>3, <3>4 DEF HasTaken
  <2>4. CASE i = m
    <3>1. begin = End
      BY <1>1, <2>1, <2>4 DEF Places
    <3>2. begin' = End
      <4>1. End \in 1 .. End /\ End \in Nat
        BY <1>1
      <4>2. NextArgument(End) \in End .. End
        BY <1>1, <4>1, NextArgumentIs
      <4> QED
        BY <2>2, <3>1, <4>1, <4>2
    <3>3. pc' = "done"
      BY <1>1, <1>9, <3>2 DEF ParseSingleArgument, Found
    <3>4. args' = meant
      <4>1. args' \in Seq(Seq(Char))
        BY <1>1, <2>2
      <4>2. PICK A : A = args'
        OBVIOUS
      <4>3. A \in Seq(Seq(Char)) /\ Len(A) = Len(meant) /\ \A j \in 1 .. Len(A) : A[j] = meant[j]
        BY <2>2, <2>3, <2>4, <4>1, <4>2 DEF HasTaken
      <4>4. A = meant
        BY <4>3, SameSequence
      <4> QED
        BY <4>2, <4>4
    <3> QED
      BY <2>2, <3>3, <3>4 DEF AsSent
  <2>5. CASE i # m
    <3>1. PICK k : k = i + 1
      OBVIOUS
    <3>2. k \in 1 .. m /\ k - 1 = i
      BY <1>2, <2>5, <3>1
    <3>3. PICK E : E = Escaped(meant[k])
      OBVIOUS
    <3>4. PICK p : p = at[i]
      OBVIOUS
    <3>5. p \in Nat /\ NextArgument(p + 1) = p + 2 /\ at[k] = p + Len(E) + 3 /\ at[k] <= n /\ Len(E) \in Nat
      BY <1>3, <3>2, <3>3, <3>4
    <3>6. begin' = p + 2 /\ begin' < End
      <4>1. begin' = p + 2
        BY <2>1, <2>2, <3>4, <3>5
      <4>2. p + 2 < n + 1
        BY <1>1, <3>5
      <4> QED
        BY <1>1, <4>1, <4>2
    <3>7. pc' = "part"
      BY <1>9, <3>6 DEF ParseSingleArgument, Found
    <3>8. begin' = at[k - 1] + 2 /\ HasTaken(k - 1)'
      BY <2>3, <3>2, <3>4, <3>6
    <3> QED
      BY <2>2, <3>2, <3>7, <3>8 DEF AsSent
  <2> QED
    BY <2>4, <2>5
<1> QED
  BY <1>4, <1>5, <1>6, <1>7, <1>8, <1>9 DEF Next

LEMMA NextUndone == Types /\ Undone /\ [Next]_vars => Undone'
<1> SUFFICES ASSUME Types, Undone, [Next]_vars PROVE Undone'
  OBVIOUS
<1>1. text' = text /\ meant' = meant
  BY DEF Next, vars, Rejected, Process, ParseQuotedArgument, ParseRegularArgument, PartRead,
         ParseSingleArgument
<1>2. CASE meant = <<>>
  BY <1>1, <1>2 DEF Undone
<1>3. CASE meant # <<>>
  <2>1. meant \in Seq(Seq(Char)) /\ \A i \in 1 .. Len(meant) : Sendable(meant[i])
    BY <1>3 DEF Undone
  <2>2. PICK at : Places(at) /\ AsSent(at)
    BY <1>3 DEF Undone
  <2>3. AsSent(at)'
    BY <1>3, <2>1, <2>2, SentNext
  <2>4. Places(at)'
    BY <1>1, <2>2 DEF Places
  <2> QED
    BY <1>1, <2>1, <2>3, <2>4 DEF Undone
<1> QED
  BY <1>2, <1>3

(* Names that a client sends between quotes, with a backslash before each  *)
(* quote and backslash in them, come out as they were: any names, any      *)
(* number of them, as long as no two such characters stand side by side.   *)
THEOREM EscapesAlwaysUndone == Spec => []EscapesAreUndone
<1>1. Undone => EscapesAreUndone
  BY DEF Undone, AsSent, EscapesAreUndone
<1>2. Inv => Types
  BY DEF Inv
<1> QED
  BY <1>1, <1>2, InitInv, NextInv, InitUndone, NextUndone, PTL DEF Spec
=============================================================================
