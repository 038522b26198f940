------------------------------- MODULE Startup -------------------------------
(***************************************************************************)
(* How the server comes up: the files its settings are read from           *)
(* (config_reader.cpp, config_vars.cpp), and the constructors that make    *)
(* the workers, link them to the database and open the acceptor            *)
(* (server.cpp, connection_manager.cpp, worker_thread.cpp).  It ends where *)
(* Workers begins.  main() gives no file; server(vars, file) is given up   *)
(* to two, the one vars was read from and another over it.                 *)
(***************************************************************************)
EXTENDS Naturals, Sequences, FiniteSetsExt, SequencesExt

CONSTANTS Char,         \* the characters of files
          Line,         \* the lines of files
          Key,          \* the name each setting has in a file
          DefaultText,  \* what set_defaults() gives the texts
          Database,     \* "mysql" and "mariadb"
          MaxNumber,    \* the largest std::size_t
          MaxFiles,     \* bound: files read one over the other
          MaxLines,     \* bound: lines of a file
          MaxIdle       \* bound: an uninitialised worker_connections

Blank == " "   \* a blank or a tab
Hash == "#"
Equals == "="
Digits == <<"0", "1", "2", "3", "4", "5", "6", "7", "8", "9">>

TextSetting == {"ip_host", "port", "files_root", "database", "mariadb_host", "mariadb_user",
                "mariadb_passwd", "mariadb_path_to_socket"}
NumberSetting == {"worker_threads", "worker_connections", "max_request_size", "buffer_size",
                  "mariadb_port"}
Setting == TextSetting \cup NumberSetting

(* The settings with a flag that says whether they are used. *)
Optional == {"mariadb_passwd", "mariadb_path_to_socket"}

ASSUME StartupAssumption ==
  /\ Line \subseteq Seq(Char) /\ Database \subseteq Seq(Char)
  /\ Key \in [Setting -> Seq(Char)] /\ IsInjective(Key)
  /\ \A s \in Setting : Key[s] # <<>> /\ ~Contains(Key[s], Blank) /\ ~Contains(Key[s], Equals)
  /\ DefaultText \in [TextSetting -> Seq(Char)] /\ DefaultText["database"] \in Database
  /\ \A d \in Database : ~Contains(d, Blank)
  /\ MaxNumber \in Nat /\ MaxFiles \in Nat /\ MaxLines \in Nat
  /\ 4096 <= MaxNumber   \* the largest number set_defaults() gives
  /\ MaxIdle \in 0 .. MaxNumber

VARIABLES stage,   \* what the main thread does
          files,   \* the lines read of each file
          pairs,   \* key_value_pairs of the file that is being read
          texts,   \* the settings that are texts
          numbers, \* the settings that are numbers
          used,    \* mariadb_passwd_exists, mariadb_use_unix_socket
          workers  \* the workers made

settings == <<texts, numbers, used>>
vars == <<stage, files, pairs, settings, workers>>

(* "settings": a config_vars is there; "file": it reads a file; "workers": *)
(* the manager makes them; "init": server::init(); "accept": do_accept(),  *)
(* where Workers begins; "ended": the process has.                         *)
Stage == {"settings", "file", "workers", "init", "accept", "ended"}

TypeOK ==
  /\ stage \in Stage
  /\ Len(files) <= MaxFiles
  /\ \A i \in DOMAIN files : files[i] \in Seq(Line)
  /\ \A k \in DOMAIN pairs : k \in Seq(Char) \ {<<>>} /\ pairs[k] \in Seq(Char) \ {<<>>}
  /\ texts \in [TextSetting -> Seq(Char)]
  /\ numbers \in [NumberSetting -> 0 .. MaxNumber]
  /\ used \subseteq Optional
  /\ \A i \in DOMAIN workers : workers[i] \in [linked : BOOLEAN, idle : 0 .. MaxNumber]

DefaultNumber ==
  [worker_threads |-> 2, max_request_size |-> 0, buffer_size |-> 4096, mariadb_port |-> 3306]

(* set_defaults(); worker_connections has none. *)
Init ==
  /\ stage = "settings"
  /\ files = <<>> /\ pairs = <<>> /\ workers = <<>>
  /\ texts = DefaultText
  /\ \E n \in 0 .. MaxIdle :
       numbers = [s \in NumberSetting |->
                    IF s \in DOMAIN DefaultNumber THEN DefaultNumber[s] ELSE n]
  /\ used = {"mariadb_passwd"}

-----------------------------------------------------------------------------
(* The lines of a file. *)

Trim(text) ==
  LET kept == {i \in DOMAIN text : text[i] # Blank}
  IN  IF kept = {} THEN <<>> ELSE SubSeq(text, Min(kept), Max(kept))

(* Mutant: a blank at the end stays. *)
ReduceLeft(text) ==
  LET kept == {i \in DOMAIN text : text[i] # Blank}
  IN  IF kept = {} THEN <<>> ELSE SubSeq(text, Min(kept), Len(text))

(* One blank takes the place of blanks and of the character after them: a  *)
(* character stays unless a blank is before it.                            *)
Reduce(text) ==
  LET t == Trim(text)
      upto[i \in 0 .. Len(t)] ==
        IF i = 0 THEN <<>>
        ELSE IF i > 1 /\ t[i - 1] = Blank THEN upto[i - 1]
        ELSE Append(upto[i - 1], t[i])
  IN  upto[Len(t)]

(* What a line gives to what: the text before the first '=', and after it. *)
Split(line) == Min({i \in DOMAIN line : line[i] = Equals})
Before(line) == SubSeq(line, 1, Split(line) - 1)
Behind(line) == SubSeq(line, Split(line) + 1, Len(line))

(* Neither empty nor a comment, and with an '='. *)
IsAssignment(line) == line # <<>> /\ line[1] # Hash /\ Contains(line, Equals)

(* Mutant: a value may be empty. *)
IsEntryEmpty(line) == IsAssignment(line) /\ Reduce(Before(line)) # <<>>

IsEntry(line) ==
  IsAssignment(line) /\ Reduce(Before(line)) # <<>> /\ Reduce(Behind(line)) # <<>>

(* stream >> number: the digits the text begins with, 0 when there are     *)
(* none, and the largest number when they are too many.  No sign is        *)
(* modelled.                                                               *)
NumberIn(text) ==
  LET Value(c) == CHOOSE d \in 0 .. 9 : Digits[d + 1] = c
      upto[i \in 0 .. Len(text)] ==
        IF i = 0 THEN 0
        ELSE IF \A j \in 1 .. i : Contains(Digits, text[j]) THEN 10 * upto[i - 1] + Value(text[i])
        ELSE upto[i - 1]
  IN  Min({upto[Len(text)], MaxNumber})

(* emplace leaves a key that is there as it is. *)
Emplace(key, value) ==
  [k \in DOMAIN pairs \cup {key} |-> IF k \in DOMAIN pairs THEN pairs[k] ELSE value]

ReadLine(line) ==
  /\ stage = "file" /\ Len(Last(files)) < MaxLines
  /\ files' = [files EXCEPT ![Len(files)] = Append(@, line)]
  /\ pairs' = IF IsEntry(line) THEN Emplace(Reduce(Before(line)), Reduce(Behind(line)))
              ELSE pairs
  /\ UNCHANGED <<stage, settings, workers>>

(* A file that cannot be opened has no lines. *)
OpenFile ==
  /\ stage = "settings" /\ Len(files) < MaxFiles
  /\ stage' = "file"
  /\ files' = Append(files, <<>>) /\ pairs' = <<>>
  /\ UNCHANGED <<settings, workers>>

Assigned == {s \in Setting : Key[s] \in DOMAIN pairs}

(* Mutant: a number that the file does not give is read from an empty text. *)
ReadConfigAnew ==
  /\ stage = "file"
  /\ stage' = "settings"
  /\ texts' = [s \in TextSetting |-> IF s \in Assigned THEN pairs[Key[s]] ELSE texts[s]]
  /\ numbers' = [s \in NumberSetting |->
                   IF s \in Assigned THEN NumberIn(pairs[Key[s]]) ELSE 0]
  /\ used' = Optional \cap Assigned
  /\ UNCHANGED <<files, pairs, workers>>

(* read_config(): what the file gives is taken over; the two flags say     *)
(* whether this file gives them.                                           *)
ReadConfig ==
  /\ stage = "file"
  /\ stage' = "settings"
  /\ texts' = [s \in TextSetting |-> IF s \in Assigned THEN pairs[Key[s]] ELSE texts[s]]
  /\ numbers' = [s \in NumberSetting |->
                   IF s \in Assigned THEN NumberIn(pairs[Key[s]]) ELSE numbers[s]]
  /\ used' = Optional \cap Assigned
  /\ UNCHANGED <<files, pairs, workers>>

-----------------------------------------------------------------------------
(* The server is made. *)

Construct ==
  /\ stage = "settings"
  /\ stage' = "workers"
  /\ UNCHANGED <<files, pairs, settings, workers>>

(* A database of another name is none: data is a null pointer. *)
Links == texts["database"] \in Database

Ends == stage' = "ended" /\ UNCHANGED <<files, pairs, settings, workers>>

(* Mutant: a worker whose link fails goes without. *)
MakeWorkerAnyway ==
  /\ stage = "workers" /\ Len(workers) < numbers["worker_threads"]
  /\ \E linked \in {Links, FALSE} :
       workers' = Append(workers, [linked |-> linked, idle |-> numbers["worker_connections"]])
  /\ UNCHANGED <<stage, files, pairs, settings>>

(* The thread starts, the link is made and the connections; or the link    *)
(* throws, and the process ends on the thread that runs.                   *)
MakeWorker ==
  /\ stage = "workers" /\ Len(workers) < numbers["worker_threads"]
  /\ \/ /\ workers' = Append(workers, [linked |-> Links, idle |-> numbers["worker_connections"]])
        /\ UNCHANGED <<stage, files, pairs, settings>>
     \/ Links /\ Ends

WorkersMade ==
  /\ stage = "workers" /\ Len(workers) = numbers["worker_threads"]
  /\ stage' = "init"
  /\ UNCHANGED <<files, pairs, settings, workers>>

(* files_root is a directory, and the address can be listened at; or an    *)
(* exception leaves main.                                                  *)
ServerInit ==
  /\ stage = "init"
  /\ \/ stage' = "accept" /\ UNCHANGED <<files, pairs, settings, workers>>
     \/ Ends

-----------------------------------------------------------------------------
Next ==
  \/ OpenFile \/ ReadConfig \/ \E line \in Line : ReadLine(line)
  \/ Construct \/ MakeWorker \/ WorkersMade \/ ServerInit

Spec == Init /\ [][Next]_vars

-----------------------------------------------------------------------------
(* The places in the files where a setting is given: not after a '#' that  *)
(* the line begins with, and with something on both sides of the '='.      *)
Gives(line, s) ==
  /\ IsAssignment(line)
  /\ Trim(Before(line)) = Key[s] /\ Trim(Behind(line)) # <<>>

GivenIn(f, s) == \E i \in DOMAIN files[f] : Gives(files[f][i], s)

(* The value that counts: of the last file that gives the setting, the     *)
(* first line.                                                             *)
Given(s) ==
  LET f == Max({g \in DOMAIN files : GivenIn(g, s)})
  IN  Trim(Behind(files[f][Min({i \in DOMAIN files[f] : Gives(files[f][i], s)})]))

IsGiven(s) == \E f \in DOMAIN files : GivenIn(f, s)

(* Whenever files have been read over each other, and so when the server   *)
(* is made, a setting has the value of the last file that gives it, there  *)
(* of the first line that does, without the blanks around it.  A setting   *)
(* that no file gives has its default, except worker_connections, which    *)
(* has none (config_vars.cpp:82), and a password or a socket is used only  *)
(* when the last file gives it.  Of a value with a blank inside nothing is *)
(* said: reduce (config_reader.cpp:17) takes more than blanks out of it.   *)
SettingsAsWritten ==
  stage = "settings" =>
    /\ \A s \in Setting : IsGiven(s) /\ ~Contains(Given(s), Blank) =>
         IF s \in TextSetting THEN texts[s] = Given(s) ELSE numbers[s] = NumberIn(Given(s))
    /\ \A s \in TextSetting : ~IsGiven(s) => texts[s] = DefaultText[s]
    /\ \A s \in DOMAIN DefaultNumber : ~IsGiven(s) => numbers[s] = DefaultNumber[s]
    /\ files # <<>> => used = {s \in Optional : GivenIn(Len(files), s)}

(* A server that accepts has a link to the database in every worker,       *)
(* unless the database it was given is none that it knows; and it has      *)
(* workers, unless it was told to have none or by something that is no     *)
(* number.                                                                 *)
AcceptsReady ==
  stage = "accept" =>
    /\ (IsGiven("database") => Given("database") \in Database) =>
         \A i \in DOMAIN workers : workers[i].linked
    /\ (IsGiven("worker_threads") => Given("worker_threads")[1] \in {Digits[d] : d \in 2 .. 10}) =>
         workers # <<>>
=============================================================================
