------------------------------ MODULE Requests ------------------------------
(***************************************************************************)
(* One object of class request (request.cpp): how process() makes a        *)
(* command and arguments of the text of a request.  One action is one      *)
(* round of the loop in parse_single_argument, or of the one around it in  *)
(* parse_arguments.  The text is the command, a word, and what follows it, *)
(* a sequence of characters of which only those that matter to the parser  *)
(* are told apart.                                                         *)
(***************************************************************************)
EXTENDS Naturals, Sequences

CONSTANTS Letter,   \* the characters that are none of the four below
          Words,    \* the commands of the requests considered
          Rest,     \* what may follow the command
          Quotations \* texts that say the arguments which stand beside them

Quote == "'"
Backslash == "\\"
Space == " "        \* or a tab
Dot == "."
Char == Letter \cup {Quote, Backslash, Space, Dot}

(* The words process() knows; execute_request finishes bad_request, and    *)
(* has no case for update_file_info.                                       *)
TypeOf ==
  [ls |-> "list_files", list |-> "list_files", get |-> "send_files",
   rm |-> "remove_files", del |-> "remove_files", remove |-> "remove_files",
   delete |-> "remove_files", add |-> "add_new_files", new |-> "register_user",
   register |-> "register_user", login |-> "login", update |-> "update_file_info",
   upd |-> "update_file_info", share |-> "share_file", revoke |-> "revoke_share"]

(* "": the text is empty or begins with white space; "other": any word     *)
(* process() does not know.                                                *)
Command == DOMAIN TypeOf \cup {"", "other"}

ASSUME RequestsAssumption ==
  /\ Words \subseteq Command
  /\ Letter \cap {Quote, Backslash, Space, Dot} = {}
  /\ Rest \subseteq Seq(Char)
  /\ Quotations \subseteq Seq(Char) \X Seq(Seq(Char))
  /\ \A t \in Rest \cup {q[1] : q \in Quotations} : t # <<>> => t[1] = Space

VARIABLES pc,      \* "received", "part" and "end" of an argument, "done"
          command, \* the text up to the first white space
          text,    \* the rest of the text
          meant,   \* the arguments the client has quoted, <<>> for any text
          type, args,          \* the members of request
          begin, arg, valid    \* begin, argument and is_valid_argument

vars == <<pc, command, text, meant, type, args, begin, arg, valid>>

-----------------------------------------------------------------------------
(* Positions in the text, from 1.  The end of the text stands for npos: it *)
(* is no position of a character either.                                   *)

End == Len(text) + 1

(* The first position from i on that is in hits, or the end. *)
First(i, hits) ==
  CHOOSE k \in i .. End : (k = End \/ k \in hits) /\ \A j \in i .. k - 1 : j \notin hits

NextArgument(i) == First(i, {k \in i .. Len(text) : text[k] # Space})

(* Mutant: the character before the backslash is not looked at. *)
IsEscapedAlways(from, k) == text[k - 1] = Backslash

(* A delimiter at k is not one when a backslash stands before it, unless   *)
(* another stands before that, two places or more after from.              *)
IsEscaped(from, k) ==
  text[k - 1] = Backslash /\ ~(k - from > 2 /\ text[k - 2] = Backslash)

(* Where the part of an argument that begins at from ends. *)
Delimited(from, delimiters) ==
  First(from + 1, {k \in from + 1 .. Len(text) :
                     text[k] \in delimiters /\ ~IsEscaped(from, k)})

(* unescape_string drops a backslash that follows none, except when it is  *)
(* all there is; what stays moves to the left.                             *)
Kept(s) ==
  {i \in 1 .. Len(s) : Len(s) = 1 \/ s[i] # Backslash \/ (i > 1 /\ s[i - 1] = Backslash)}

(* Mutant: every backslash goes. *)
UnescapeAll(s) == SelectSeq(s, LAMBDA ch : ch # Backslash)

Unescape(s) ==
  LET upto[i \in 0 .. Len(s)] ==
        IF i = 0 THEN <<>>
        ELSE IF i \in Kept(s) THEN Append(upto[i - 1], s[i])
        ELSE upto[i - 1]
  IN  upto[Len(s)]

(* Mutant: the part is looked at before its backslashes are gone. *)
PartUnchecked(s) == IF s # <<>> /\ s[1] = Dot THEN <<>> ELSE Unescape(s)

(* What the two functions for parts return for the characters s. *)
Part(s) ==
  LET part == Unescape(s) IN IF part # <<>> /\ part[1] = Dot THEN <<>> ELSE part

-----------------------------------------------------------------------------
Init ==
  /\ pc = "received"
  /\ command \in Words
  /\ \/ meant = <<>> /\ text \in Rest
     \/ \E q \in Quotations : text = q[1] /\ meant = q[2]
  /\ type = "bad_request"
  /\ args = <<>>
  /\ begin = 1 /\ arg = <<>> /\ valid = TRUE

Found(b) == pc' = IF b < End THEN "part" ELSE "done"

(* The command is not known, or there is none. *)
Rejected ==
  /\ pc = "received"
  /\ command \in {"", "other"}
  /\ pc' = "done"
  /\ UNCHANGED <<command, text, meant, type, args, begin, arg, valid>>

Process ==
  /\ pc = "received"
  /\ command \in DOMAIN TypeOf
  /\ type' = TypeOf[command]
  /\ begin' = NextArgument(1)
  /\ Found(begin')
  /\ UNCHANGED <<command, text, meant, args, arg, valid>>

(* One round of parse_single_argument: a part has been read, and the next  *)
(* begins at b.                                                            *)
PartRead(part, b) ==
  /\ valid' = (valid /\ part # <<>>)
  /\ arg' = IF valid' THEN arg \o part ELSE arg
  /\ begin' = b
  /\ pc' = IF b < End /\ text[b] # Space THEN "part" ELSE "end"
  /\ UNCHANGED <<command, text, meant, type, args>>

(* Mutant: the character after the quote that closes is skipped. *)
ParseQuotedPast ==
  LET e == Delimited(begin, {Quote})
  IN  /\ pc = "part" /\ text[begin] = Quote
      /\ \/ e = End /\ PartRead(<<>>, begin)
         \/ e < End /\ PartRead(Part(SubSeq(text, begin + 1, e - 1)), e + 2)

(* Without a quote that closes it, the function returns and begin stays.   *)
ParseQuotedArgument ==
  LET e == Delimited(begin, {Quote})
  IN  /\ pc = "part" /\ text[begin] = Quote
      /\ \/ e = End /\ PartRead(<<>>, begin)
         \/ e < End /\ PartRead(Part(SubSeq(text, begin + 1, e - 1)), e + 1)

(* Mutant: the delimiter is skipped. *)
ParseRegularPast ==
  LET e == Delimited(begin, {Space, Quote})
  IN  /\ pc = "part" /\ text[begin] # Quote
      /\ PartRead(Part(SubSeq(text, begin, e - 1)), IF e < End THEN e + 1 ELSE e)

ParseRegularArgument ==
  LET e == Delimited(begin, {Space, Quote})
  IN  /\ pc = "part" /\ text[begin] # Quote
      /\ PartRead(Part(SubSeq(text, begin, e - 1)), e)

(* parse_single_argument returns to parse_arguments, which drops an        *)
(* argument that has become empty and goes on with the next.               *)
ParseSingleArgument ==
  /\ pc = "end"
  /\ args' = IF valid THEN Append(args, arg) ELSE args
  /\ arg' = <<>> /\ valid' = TRUE
  /\ begin' = NextArgument(begin)
  /\ Found(begin')
  /\ UNCHANGED <<command, text, meant, type>>

Next ==
  Rejected \/ Process \/ ParseQuotedArgument \/ ParseRegularArgument \/ ParseSingleArgument

Spec == Init /\ [][Next]_vars

(* process() is one call: it goes on until it returns. *)
FairSpec == Spec /\ WF_vars(Next)

TypeOK ==
  /\ pc \in {"received", "part", "end", "done"}
  /\ command \in Words /\ text \in Seq(Char)
  /\ type \in {"bad_request"} \cup {TypeOf[w] : w \in DOMAIN TypeOf}
  /\ begin \in 1 .. End
  /\ valid \in BOOLEAN
=============================================================================
