------------------------- MODULE RequestsProperties -------------------------
(***************************************************************************)
(* What process() promises: a definition of the arguments of a text that   *)
(* reads it once, from left to right, and what the parser, which searches  *)
(* for delimiters and looks back from them, has to do with it.             *)
(***************************************************************************)
EXTENDS Requests

(* What a client sends that wants its arguments taken as they are: each    *)
(* between quotes, with a backslash before every quote and backslash in it *)
(* (request.cpp:53, 62).                                                   *)

Special == {Quote, Backslash}

Escaped(name) ==
  LET e[i \in 0 .. Len(name)] ==
        IF i = 0 THEN <<>>
        ELSE e[i - 1] \o (IF name[i] \in Special THEN <<Backslash>> ELSE <<>>)
                      \o <<name[i]>>
  IN  e[Len(name)]

Quoted(names) ==
  LET q[i \in 0 .. Len(names)] ==
        IF i = 0 THEN <<>>
        ELSE q[i - 1] \o <<Space, Quote>> \o Escaped(names[i]) \o <<Quote>>
  IN  q[Len(names)]

(* The names that can be sent so: not empty, with no dot before the rest,  *)
(* and no two quotes or backslashes side by side.                          *)
Sendable(name) ==
  /\ name # <<>> /\ name[1] # Dot
  /\ \A i \in 2 .. Len(name) : name[i - 1] \in Special => name[i] \notin Special

ASSUME QuotationsAssumption ==
  \A q \in Quotations : q[1] = Quoted(q[2]) /\ \A i \in 1 .. Len(q[2]) : Sendable(q[2][i])

-----------------------------------------------------------------------------
(* The reader is between arguments ("out"), in a part without quotes       *)
(* ("bare"), in one with quotes ("quoted") or behind one ("behind").  A    *)
(* backslash makes the next character one of the part, whatever it is.  A  *)
(* part that is empty or begins with a dot spoils its argument.            *)
Reader == [mode |-> "out", escape |-> FALSE, part |-> <<>>, arg |-> <<>>, ok |-> TRUE, args |-> <<>>]

Take(r, ch) == [r EXCEPT !.part = Append(@, ch), !.escape = FALSE]

EndPart(r) ==
  IF r.part = <<>> \/ r.part[1] = Dot
  THEN [r EXCEPT !.part = <<>>, !.ok = FALSE]
  ELSE [r EXCEPT !.part = <<>>, !.arg = @ \o r.part]

LeaveBare(r) == IF r.mode = "bare" THEN EndPart(r) ELSE r

EndArgument(r) ==
  LET s == LeaveBare(r)
  IN  [Reader EXCEPT !.args = IF s.mode # "out" /\ s.ok THEN Append(s.args, s.arg) ELSE s.args]

Read(r, ch) ==
  CASE r.escape                             -> Take(r, ch)
    [] ~r.escape /\ ch = Backslash          -> [r EXCEPT !.escape = TRUE,
                                                         !.mode = IF @ = "quoted" THEN @ ELSE "bare"]
    [] ~r.escape /\ r.mode = "quoted" /\ ch = Quote -> [EndPart(r) EXCEPT !.mode = "behind"]
    [] ~r.escape /\ r.mode # "quoted" /\ ch = Quote -> [LeaveBare(r) EXCEPT !.mode = "quoted"]
    [] ~r.escape /\ r.mode # "quoted" /\ ch = Space -> EndArgument(r)
    [] OTHER -> [Take(r, ch) EXCEPT !.mode = IF @ = "quoted" THEN @ ELSE "bare"]

(* The reader before the text and after each character of it. *)
Reading ==
  LET r[i \in 0 .. Len(text)] == IF i = 0 THEN Reader ELSE Read(r[i - 1], text[i])
  IN  r

ReadAll == Reading[Len(text)]
Closed == ReadAll.mode # "quoted"
Written == EndArgument(ReadAll).args

(* Every backslash has a character to escape that is no backslash. *)
Plain ==
  \A i \in 1 .. Len(text) :
    text[i] = Backslash => i < Len(text) /\ text[i + 1] # Backslash

-----------------------------------------------------------------------------
(* No argument is empty or begins with a dot, however its dot is quoted or *)
(* escaped: the check in the two functions for parts (request.cpp:67, 90)  *)
(* comes after the backslashes are gone, and the parts that are put        *)
(* together (108) have each passed it.                                     *)
ArgumentsAreNames == \A i \in 1 .. Len(args) : args[i] # <<>> /\ Head(args[i]) # Dot

(* Where no backslash follows another, the parser, which looks two         *)
(* characters back from each quote and space it finds (54, 79), takes for  *)
(* arguments what one reading from left to right does, and does not        *)
(* return from a text whose last quote is open.                            *)
ReadsAsWritten ==
  Plain /\ pc = "done" /\ type # "bad_request" => Closed /\ args = Written

(* The arguments a client puts between quotes, with a backslash before     *)
(* every quote and backslash in them, come out as they were (60, 62),      *)
(* unless two such characters stand side by side.                          *)
EscapesAreUndone ==
  pc = "done" /\ type # "bad_request" /\ meant # <<>> => args = meant

(* The parser is at a quote for which it finds none that closes it.        *)
Unclosed == pc = "part" /\ text[begin] = Quote /\ Delimited(begin, {Quote}) = End

(* process() returns, or it comes to a quote for which it finds no other   *)
(* (and stays there for ever: parse_quoted_argument returns without moving *)
(* begin, 110); nothing else holds it.  It does return where no backslash  *)
(* follows another or ends the text and every quote is closed, and where a *)
(* client has quoted its names.                                            *)
ParsingEnds ==
  /\ pc = "received" ~> pc = "done" \/ []Unclosed
  /\ (Plain /\ Closed) \/ meant # <<>> ~> pc = "done"
=============================================================================
