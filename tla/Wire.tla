-------------------------------- MODULE Wire --------------------------------
(***************************************************************************)
(* The bytes of one connection: how requests, file headers and files are   *)
(* cut out of a stream that arrives in reads of any length (connection.cpp,*)
(* connection_file_management.cpp), and the replies the client waits for.  *)
(* Every message is a number, a space and a text.  What a request does is  *)
(* left to Sessions; here it is followed by another request, by files or   *)
(* by nothing.                                                             *)
(***************************************************************************)
EXTENDS Naturals, Sequences

CONSTANTS Text,           \* the texts of messages
          Numeral,        \* the numbers clients write, digit by digit
          Modulus,        \* one more than the largest std::size_t
          BufferSize,     \* vars->buffer_size
          MaxRequestSize, \* vars->max_request_size
          MaxFiles,       \* bound: files of one "add" request
          MaxSaid,        \* bound: messages of a client that waits
          MaxRushed       \* bound: messages of a client that does not

(* Bytes are their codes. *)
Byte == 0 .. 255
Zero == 48
Digit == Zero .. Zero + 9
Space == 32

ASSUME WireAssumption ==
  /\ Text \subseteq Seq(Byte) /\ Numeral \subseteq Seq(Digit)
  /\ Modulus \in Nat \ {0} /\ BufferSize \in Nat \ {0}
  /\ MaxRequestSize \in Nat /\ MaxFiles \in Nat /\ MaxSaid \in Nat /\ MaxRushed \in Nat

Kind == {"request", "header", "file"}
Message == [kind : Kind, size : Nat, text : Seq(Byte)]

VARIABLES patient, \* the client sends a message when it has been told to
          said,    \* the messages of the client; size: what it has announced
          expects, \* what it has been told to send, "none" when it waits
          stream,  \* the bytes that have been sent and not read
          heard,   \* the messages taken in by the server, with their sizes
          kind,    \* what the server is receiving
          phase,   \* the part of it the outstanding read is for
          open,    \* the socket is
          size,    \* request_size; received_file_size of a file
          taken,   \* the text in received_request, filename or file so far
          left,    \* num_files - current_file
          writes,  \* the replies the socket has not taken
          garbled  \* reply_string was assigned while a write of it went on

client == <<patient, said, expects>>
input == <<kind, phase, size, taken, left>>
output == <<writes, garbled>>
vars == <<patient, said, expects, stream, heard, kind, phase, open, size, taken, left,
          writes, garbled>>

(* "number" and "text": a read is outstanding; "welcome": the write of the *)
(* reply to a login; "closed": nothing.                                    *)
Phase == {"number", "text", "welcome", "closed"}

TypeOK ==
  /\ patient \in BOOLEAN
  /\ said \in Seq(Message) /\ heard \in Seq(Message)
  /\ expects \in Kind \cup {"none"}
  /\ stream \in Seq(Byte) /\ taken \in Seq(Byte)
  /\ kind \in Kind /\ phase \in Phase
  /\ open \in BOOLEAN
  /\ size \in 0 .. Modulus - 1
  /\ left \in 0 .. MaxFiles
  /\ kind # "request" /\ phase # "closed" => left > 0
  /\ writes \in Seq(Kind)
  /\ garbled \in BOOLEAN

-----------------------------------------------------------------------------
(* Numbers. *)

(* Mutant: the digits of an earlier read are forgotten. *)
NumberAfresh(n, digits) ==
  LET number[i \in 0 .. Len(digits)] ==
        IF i = 0 THEN 0 ELSE (10 * number[i - 1] + digits[i] - Zero) % Modulus
  IN  number[Len(digits)]

(* size *= 10; size += buffer[i] - '0', for every digit, from size = n.    *)
Number(n, digits) ==
  LET number[i \in 0 .. Len(digits)] ==
        IF i = 0 THEN n ELSE (10 * number[i - 1] + digits[i] - Zero) % Modulus
  IN  number[Len(digits)]

(* How many digits bytes begin with. *)
Leading(bytes) ==
  CHOOSE n \in 0 .. Len(bytes) :
    /\ \A i \in 1 .. n : bytes[i] \in Digit
    /\ n < Len(bytes) => bytes[n + 1] \notin Digit

NumberIn(bytes) == Number(size, SubSeq(bytes, 1, Leading(bytes)))

(* A space ends the number, and the rest of the bytes are text.  Anything  *)
(* else that is no digit is thrown away, with all that came after it.      *)
Separated(bytes) == Leading(bytes) < Len(bytes) /\ bytes[Leading(bytes) + 1] = Space
After(bytes) == SubSeq(bytes, Leading(bytes) + 2, Len(bytes))

-----------------------------------------------------------------------------
Init ==
  /\ patient \in BOOLEAN
  /\ said = <<>> /\ heard = <<>> /\ stream = <<>> /\ taken = <<>> /\ writes = <<>>
  /\ expects = "request" /\ kind = "request" /\ phase = "number"
  /\ open = TRUE /\ garbled = FALSE
  /\ size = 0 /\ left = 0

(* A client that waits announces the length of the text and says what it   *)
(* has been told to.  One that does not sends anything at any time.        *)
Say(k, digits, text) ==
  /\ open /\ phase # "closed"
  /\ Len(said) < IF patient THEN MaxSaid ELSE MaxRushed
  /\ IF patient THEN expects = k /\ Number(0, digits) = Len(text) ELSE k = "request"
  /\ said' = Append(said, [kind |-> k, size |-> Number(0, digits), text |-> text])
  /\ stream' = stream \o digits \o <<Space>> \o text
  /\ expects' = IF patient THEN "none" ELSE expects
  /\ UNCHANGED <<patient, heard, input, open, output>>

(* A reply tells the client to send next.  The socket takes it at once, or *)
(* the rest of it is written when it can; nothing is written to a socket   *)
(* that is closed.                                                         *)
Reply(next) ==
  /\ garbled' = (garbled \/ writes # <<>>)
  /\ \/ /\ open' /\ writes = <<>>
        /\ expects' = next
        /\ UNCHANGED writes
     \/ /\ open'
        /\ writes' = Append(writes, next)
        /\ UNCHANGED expects
     \/ /\ ~open'
        /\ UNCHANGED <<writes, expects>>
  /\ UNCHANGED <<patient, said>>

(* A reply that finish() follows: what the socket has not taken is lost.   *)
LastReply(next) ==
  /\ garbled' = (garbled \/ writes # <<>>)
  /\ (writes = <<>> /\ expects' = next) \/ UNCHANGED expects
  /\ UNCHANGED <<patient, said, writes>>

SocketTakes ==
  /\ open /\ writes # <<>>
  /\ expects' = Head(writes)
  /\ writes' = Tail(writes)
  /\ UNCHANGED <<patient, said, stream, heard, input, open, garbled>>

Silent == UNCHANGED <<client, output>>

(* The server waits for the number of a message of kind k. *)
Await(k) == kind' = k /\ phase' = "number" /\ size' = 0 /\ taken' = <<>>

(* finish(), or the handler returns with nothing outstanding. *)
Leave == phase' = "closed" /\ size' = 0 /\ taken' = <<>> /\ left' = 0 /\ UNCHANGED kind

(* More of the number, or of the text, has still to come. *)
Continue(where, n, text) ==
  /\ phase' = where /\ size' = n /\ taken' = text
  /\ UNCHANGED <<kind, left, heard>>

Hear(n, text) == heard' = Append(heard, [kind |-> kind, size |-> n, text |-> text])

Reads(k, p, bytes) ==
  /\ open
  /\ kind = k /\ phase = p
  /\ stream # <<>>
  /\ bytes = SubSeq(stream, 1, Len(bytes))
  /\ stream' = SubSeq(stream, Len(bytes) + 1, Len(stream))

(* process(), execute_request(): a login, an "add" of n files, or a        *)
(* request after which the connection is not read any more.                *)
ExecuteRequest ==
  \/ /\ Reply("request")
     /\ kind' = kind /\ phase' = "welcome" /\ size' = 0 /\ taken' = <<>>
     /\ UNCHANGED left
  \/ \E n \in 1 .. MaxFiles :
       /\ Reply("header")
       /\ Await("header")
       /\ left' = n
  \/ Silent /\ Leave

RequestReceived(n, text) ==
  \/ Len(text) < n /\ Continue("text", n, text) /\ Silent
  \/ Len(text) >= n /\ Hear(n, text) /\ ExecuteRequest

(* get_request_size.  finish() closes the socket for a request that is too *)
(* large, and the handler goes on.  When allocate throws, it ends there.   *)
GetRequestSize(bytes) ==
  /\ Reads("request", "number", bytes)
  /\ open' = ~(MaxRequestSize > 0 /\ NumberIn(bytes) > MaxRequestSize)
  /\ \/ /\ ~Separated(bytes)
        /\ Continue("number", NumberIn(bytes), <<>>) /\ Silent
     \/ /\ Separated(bytes)
        /\ \/ RequestReceived(NumberIn(bytes), After(bytes))
           \/ Leave /\ Silent /\ UNCHANGED heard

Upto(n, text) == SubSeq(text, 1, IF Len(text) < n THEN Len(text) ELSE n)

(* What came with the read and is no more of the request is dropped. *)
GetRequest(bytes) ==
  /\ Reads("request", "text", bytes)
  /\ UNCHANGED open
  /\ RequestReceived(size, Upto(size, taken \o bytes))

(* The name is refused, and add_files waits for another, or the file is    *)
(* opened.                                                                 *)
HeaderReceived(n, name) ==
  \/ Len(name) < n /\ Continue("text", n, name) /\ Silent
  \/ /\ Len(name) >= n
     /\ Hear(n, name)
     /\ \/ Reply("header") /\ Await("header")
        \/ Reply("file") /\ Await("file")
     /\ UNCHANGED left

(* add_files, get_file_header *)
GetHeaderSize(bytes) ==
  /\ Reads("header", "number", bytes)
  /\ UNCHANGED open
  /\ \/ /\ ~Separated(bytes)
        /\ Continue("number", NumberIn(bytes), <<>>) /\ Silent
     \/ /\ Separated(bytes)
        /\ HeaderReceived(NumberIn(bytes), Upto(NumberIn(bytes), After(bytes)))

GetFileHeader(bytes) ==
  /\ Reads("header", "text", bytes)
  /\ UNCHANGED open
  /\ HeaderReceived(size, Upto(size, taken \o bytes))

(* Mutant: add_files does not compare current_file with num_files. *)
FileAddedEndless == Await("header") /\ left' = left - 1 /\ UNCHANGED open

(* ++current_file; add_files(), which calls finish() after the last *)
LastAdded == left = 1 /\ Leave /\ open' = FALSE
NextAdded == left > 1 /\ Await("header") /\ left' = left - 1 /\ UNCHANGED open
FileAdded == LastAdded \/ NextAdded

(* Mutant: the size is acknowledged. *)
GetFileSizeAcknowledged(bytes) ==
  /\ Reads("file", "number", bytes)
  /\ \/ /\ ~Separated(bytes) /\ UNCHANGED open
        /\ Continue("number", NumberIn(bytes), <<>>) /\ Silent
     \/ /\ Separated(bytes) /\ Len(After(bytes)) < NumberIn(bytes) /\ UNCHANGED open
        /\ Continue("text", NumberIn(bytes), After(bytes)) /\ Reply("none")
     \/ /\ Separated(bytes) /\ Len(After(bytes)) >= NumberIn(bytes)
        /\ Hear(NumberIn(bytes), After(bytes)) /\ Silent /\ FileAdded


(* All that came with the read goes into the file; no reply. *)
GetFileSize(bytes) ==
  /\ Reads("file", "number", bytes)
  /\ \/ /\ ~Separated(bytes) /\ UNCHANGED open
        /\ Continue("number", NumberIn(bytes), <<>>) /\ Silent
     \/ /\ Separated(bytes) /\ Len(After(bytes)) < NumberIn(bytes) /\ UNCHANGED open
        /\ Continue("text", NumberIn(bytes), After(bytes)) /\ Silent
     \/ /\ Separated(bytes) /\ Len(After(bytes)) >= NumberIn(bytes)
        /\ Hear(NumberIn(bytes), After(bytes)) /\ Silent /\ FileAdded

(* The file ends when it has exactly its size. *)
AddFile(bytes) ==
  /\ Reads("file", "text", bytes)
  /\ \/ /\ Len(taken \o bytes) # size /\ UNCHANGED open
        /\ Continue("text", size, taken \o bytes) /\ Silent
     \/ /\ Len(taken \o bytes) = size
        /\ Hear(size, taken \o bytes)
        /\ (NextAdded /\ Reply("header")) \/ (LastAdded /\ LastReply("header"))

(* The reply to the login has been written: start_request(). *)
Welcomed ==
  /\ open /\ phase = "welcome"
  /\ writes = <<>>
  /\ Await("request")
  /\ UNCHANGED <<client, stream, heard, open, left, output>>

(* What is outstanding fails: the peer has gone. *)
PeerGone ==
  /\ open /\ phase # "closed"
  /\ open' = FALSE /\ stream' = <<>>
  /\ Leave
  /\ UNCHANGED <<client, heard, output>>

(* The handlers that went on after finish() find the socket closed. *)
SocketClosed ==
  /\ ~open /\ phase # "closed"
  /\ Leave /\ stream' = <<>>
  /\ UNCHANGED <<client, heard, open, output>>

-----------------------------------------------------------------------------
Read(bytes) ==
  \/ GetRequestSize(bytes) \/ GetRequest(bytes)
  \/ GetHeaderSize(bytes) \/ GetFileHeader(bytes)
  \/ GetFileSize(bytes) \/ AddFile(bytes)

(* What one read may give. *)
Arrivals ==
  {SubSeq(stream, 1, n) : n \in 1 .. (IF Len(stream) < BufferSize THEN Len(stream) ELSE BufferSize)}

Server == Welcomed \/ \E bytes \in Arrivals : Read(bytes)

Next ==
  \/ \E k \in Kind, digits \in Numeral, text \in Text : Say(k, digits, text)
  \/ SocketTakes \/ Server \/ PeerGone \/ SocketClosed

Spec == Init /\ [][Next]_vars

(* What has arrived is read, and what has been written gets to a client    *)
(* that reads.  Nothing makes a client send.                               *)
Fairness == WF_vars(Server) /\ WF_vars(SocketClosed) /\ WF_vars(SocketTakes)

FairSpec == Spec /\ Fairness

-----------------------------------------------------------------------------
(* Whatever the lengths of the reads, what the server takes in is what a   *)
(* client that waits has said, message for message and byte for byte: the  *)
(* counters and the buffer are carried over from read to read (63-66,      *)
(* 80-81, 110-115; connection_file_management.cpp:148-153, 193-197,        *)
(* 222-229, 249-251), and a text may begin with digits or hold spaces.     *)
HeardAsSaid ==
  patient => /\ Len(heard) \in {Len(said) - 1, Len(said)}
             /\ heard = SubSeq(said, 1, Len(heard))

(* reply_string is never assigned while a write of it goes on, as long as  *)
(* the client waits: no two replies are sent between two of its messages   *)
(* (send_reply, connection.cpp:160, starts a write and returns).           *)
RepliesIntact == patient => ~garbled

(* All that the client has said has been heard, a file was the last of it, *)
(* and nothing is on its way to the client.                                *)
Unanswered ==
  /\ said # <<>> /\ said[Len(said)].kind = "file"
  /\ Len(heard) = Len(said)
  /\ expects = "none" /\ writes = <<>>


(* connection.cpp:68: "If the request size is larger than the maximum (for *)
(* example fake requests) then end the connection".  No request that is    *)
(* larger is executed.                                                     *)
OversizeRefused ==
  \A i \in 1 .. Len(heard) :
    heard[i].kind = "request" /\ MaxRequestSize > 0 => heard[i].size <= MaxRequestSize
=============================================================================
