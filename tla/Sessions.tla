------------------------------ MODULE Sessions ------------------------------
(***************************************************************************)
(* The connections of one worker thread: what each handler of              *)
(* connection*.cpp does to its connection, to the tables (Database) and to *)
(* the files under files_root.  One action is one handler, run to its end: *)
(* the handlers of a worker's io_context never overlap, and                *)
(* connection_manager gives every connection to the same worker.           *)
(*                                                                         *)
(* Requests and file headers arrive whole: how they are cut out of the     *)
(* bytes, and what becomes of replies, is in Wire, and how a request is    *)
(* parsed in Requests.  File contents arrive in reads of any length.  A    *)
(* connection that has started a write either waits for it or does not.    *)
(***************************************************************************)
EXTENDS Database, Sequences

CONSTANTS Conn,       \* connections open at one time
          Inode,      \* files, linked or only open, that may exist at one time
          None,       \* no user, no path, no file; as a directory, files_root itself
          MaxFiles,   \* bound: files announced by one "add" request
          MaxSize,    \* bound: bytes announced for one file
          Extra,      \* bound: bytes a client sends beyond those it announced
          BufferSize, \* bytes sent by one write of send_file
          GetLists    \* the argument lists of "get" requests

FaultKinds ==
  {"login", "username", "exists", "library", "list", "insert", "freedrow",
   "remove", "share", "mkdir", "open", "write", "unlink", "crash"}

Directory == User \cup {None}
Path == Directory \X Name
Target == [user : Directory, name : Name]   \* user None: written with no slash

ASSUME SessionsAssumption ==
  /\ None \notin User \cup Inode /\ None \notin Path
  /\ MaxFiles \in Nat /\ MaxSize \in Nat /\ Extra \in Nat
  /\ BufferSize \in Nat \ {0}
  /\ GetLists \subseteq Seq(Target)
  /\ Faults \subseteq FaultKinds

VARIABLES pc,      \* what each connection waits for
          uid,     \* user_id, None until user_id_is_set
          uname,   \* username, None while it is the empty string
          ino,     \* the file the fstream has open, None when it has none
          job,     \* the request being executed
          dirs,    \* the directories that exist
          disk,    \* the file each path is linked to
          content  \* the bytes of each file

session == <<uid, uname>>
store == <<dirs, disk, content>>
vars == <<users, files, libraries, pc, uid, uname, ino, job, dirs, disk, content>>

-----------------------------------------------------------------------------
(* Connections. *)

Reading == {"request", "header", "size", "data"}   \* async_read_some outstanding
Writing == {"welcome", "sending", "goodbye"}       \* async_write outstanding
PC == Reading \cup Writing \cup {"off", "abandoned"}

(* args and arg_index: the names a get has still to send; left: num_files  *)
(* - current_file, or 0 once a get's stream has met the end of its file;   *)
(* path: file_path; size: received_file_size, or the size announced by     *)
(* send_files; got: current_file_size, or the bytes sent.                  *)
Job == [args : Seq(Target), left : Nat, path : Path \cup {None}, size : Nat, got : Nat]
NoJob == [args |-> <<>>, left |-> 0, path |-> None, size |-> 0, got |-> 0]

(* An upload whose stream has been opened and not yet closed. *)
Uploading(c) == pc[c] \in {"size", "data"}

Byte == [by : Conn, of : Nat] \cup {None}   \* None: a hole, never written

TypeOK ==
  /\ DbTypeOK
  /\ pc \in [Conn -> PC]
  /\ uid \in [Conn -> User \cup {None}]
  /\ uname \in [Conn -> Directory]
  /\ ino \in [Conn -> Inode \cup {None}]
  /\ job \in [Conn -> Job]
  /\ dirs \subseteq Directory
  /\ disk \in [Path -> Inode \cup {None}]
  /\ content \in [Inode -> Seq(Byte)]

Init ==
  /\ DbInit
  /\ pc = [c \in Conn |-> "off"]
  /\ uid = [c \in Conn |-> None]
  /\ uname = [c \in Conn |-> None]
  /\ ino = [c \in Conn |-> None]
  /\ job = [c \in Conn |-> NoJob]
  /\ dirs = {None}
  /\ disk = [p \in Path |-> None]
  /\ content = [i \in Inode |-> <<>>]

Goto(c, where) == pc' = [pc EXCEPT ![c] = where]
Open(c, i) == ino' = [ino EXCEPT ![c] = i]
Execute(c, j) == job' = [job EXCEPT ![c] = j]

(* A file lives while it is linked or open. *)
InUse(links, streams) == {links[p] : p \in Path} \cup {streams[c] : c \in Conn}

(* The bytes that are left of f once disk' and ino' are known. *)
Reclaimed(f) == [i \in Inode |-> IF i \in InUse(disk', ino') THEN f[i] ELSE <<>>]

(* The connection takes no further step: finish() closes it and its object *)
(* goes, or (where = "abandoned") the handler returns with nothing         *)
(* outstanding, and only active_connections still knows the object.        *)
Leave(c, where) ==
  /\ Goto(c, where)
  /\ uid' = [uid EXCEPT ![c] = None]
  /\ uname' = [uname EXCEPT ![c] = None]
  /\ Execute(c, NoJob)
  /\ Open(c, None)
  /\ content' = Reclaimed(content)

Finish(c) == Leave(c, "off")

(* The process ends; whoever runs it starts it again. *)
Down ==
  /\ pc' = [c \in Conn |-> "off"]
  /\ uid' = [c \in Conn |-> None]
  /\ uname' = [c \in Conn |-> None]
  /\ job' = [c \in Conn |-> NoJob]
  /\ ino' = [c \in Conn |-> None]
  /\ content' = Reclaimed(content)

(* An exception leaves execute_request: get_request_size catches it, and   *)
(* nobody does when the request came in more than one read.                *)
Escapes(c) == Finish(c) \/ Down

(* Accepted, and started: a new object, or a recycled slot of the model. *)
Connect(c) ==
  /\ pc[c] \in {"off", "abandoned"}
  /\ Goto(c, "request")
  /\ UNCHANGED <<db, session, ino, job, store>>

(* A read ends with an error: the peer has gone. *)
ReadFails(c) ==
  /\ pc[c] \in Reading
  /\ UNCHANGED <<db, dirs, disk>>
  /\ Finish(c)

WriteFails(c) ==
  /\ pc[c] \in Writing
  /\ UNCHANGED <<db, dirs, disk>>
  /\ Finish(c)

Requests(c) == pc[c] = "request"

(* Mutant: user_id_is_set is not looked at. *)
LoggedInUnchecked(c) == Requests(c)

LoggedIn(c) == Requests(c) /\ uid[c] # None

(* The requests that only close the connection: a bad one, one that needs  *)
(* a login, one with the wrong number of arguments.                        *)
Refuse(c) ==
  /\ Requests(c)
  /\ UNCHANGED <<db, dirs, disk>>
  /\ Finish(c)

(* execute_request has no case for update_file_info. *)
UpdateFileInfo(c) ==
  /\ Requests(c)
  /\ UNCHANGED <<db, dirs, disk>>
  /\ Leave(c, "abandoned")

Crash ==
  /\ "crash" \in Faults
  /\ UNCHANGED <<db, dirs, disk>>
  /\ Down

-----------------------------------------------------------------------------
(* connection_user_management.cpp, connection_list_files.cpp *)

UserLogin(c, u) ==
  /\ Requests(c)
  /\ u \in users
  /\ uid' = [uid EXCEPT ![c] = u]
  /\ \E name \in UsernameFromId(u, uname[c]) : uname' = [uname EXCEPT ![c] = name]
  /\ Goto(c, "welcome")
  /\ UNCHANGED <<db, ino, job, store>>

(* The reply to a refused login is sent, and no read is started after it. *)
UserLoginRefused(c) ==
  /\ Requests(c)
  /\ UNCHANGED <<db, dirs, disk>>
  /\ Leave(c, "abandoned")

UserLoginThrows(c) ==
  /\ Requests(c)
  /\ "login" \in Faults
  /\ UNCHANGED <<db, dirs, disk>>
  /\ Escapes(c)

Welcomed(c) ==
  /\ pc[c] = "welcome"
  /\ Goto(c, "request")
  /\ UNCHANGED <<db, session, ino, job, store>>

UserRegister(c, u) ==
  /\ Requests(c)
  /\ TryRegister(u)
  /\ dirs' = dirs \cup {u}
  /\ UNCHANGED disk
  /\ Finish(c)

(* The row is there, the directory is not: create_directory throws, or the *)
(* process ends between the two.                                           *)
UserRegisterCut(c, u) ==
  /\ Requests(c)
  /\ TryRegister(u)
  /\ UNCHANGED <<dirs, disk>>
  /\ \/ "mkdir" \in Faults /\ Escapes(c)
     \/ "crash" \in Faults /\ Down

(* Fewer than four arguments: no reply, no close, no read. *)
UserRegisterIgnored(c) ==
  /\ Requests(c)
  /\ UNCHANGED <<db, dirs, disk>>
  /\ Leave(c, "abandoned")

UserListFiles(c) ==
  /\ Requests(c)
  /\ Goto(c, "goodbye")
  /\ UNCHANGED <<db, session, ino, job, store>>

UserListFilesFails(c) ==
  /\ LoggedIn(c)
  /\ "list" \in Faults
  /\ UNCHANGED <<db, dirs, disk>>
  /\ Leave(c, "abandoned")

ListSent(c) ==
  /\ pc[c] = "goodbye"
  /\ UNCHANGED <<db, dirs, disk>>
  /\ Finish(c)

-----------------------------------------------------------------------------
(* connection_file_management.cpp: receiving files *)

(* n files announced; with none, add_files finishes at once. *)
StartAddFiles(c, n) ==
  /\ LoggedIn(c)
  /\ \/ /\ n = 0
        /\ UNCHANGED <<db, dirs, disk>>
        /\ Finish(c)
     \/ /\ n > 0
        /\ Execute(c, [NoJob EXCEPT !.left = n])
        /\ Goto(c, "header")
        /\ UNCHANGED <<db, session, ino, store>>

(* file.open(path, out | binary): truncates a file that is there, makes    *)
(* one that is not, and opens nothing where there is no directory; the     *)
(* result is not looked at.                                                *)
OpenForWriting(c, p) ==
  \/ /\ p[1] \notin dirs \/ "open" \in Faults
     /\ UNCHANGED <<disk, ino, content>>
  \/ /\ p[1] \in dirs
     /\ disk[p] # None
     /\ Open(c, disk[p])
     /\ content' = [content EXCEPT ![disk[p]] = <<>>]
     /\ UNCHANGED disk
  \/ /\ p[1] \in dirs
     /\ disk[p] = None
     /\ Inode \ InUse(disk, ino) # {}
     /\ LET new == CHOOSE i \in Inode : i \notin InUse(disk, ino)
        IN  /\ Open(c, new)
            /\ disk' = [disk EXCEPT ![p] = new]
     /\ UNCHANGED content

(* Mutant: the directory of the user is left out of the path. *)
GetFileHeaderFlat(c, n) ==
  /\ pc[c] = "header"
  /\ FALSE \in DoesFileExist(uid[c], n)
  /\ OpenForWriting(c, <<None, n>>)
  /\ Execute(c, [job[c] EXCEPT !.path = <<None, n>>])
  /\ Goto(c, "size")
  /\ UNCHANGED <<db, session, dirs>>

(* get_file_header has the name n.  A name that is refused leaves the      *)
(* connection as it was, waiting for another header.                       *)
GetFileHeader(c, n) ==
  /\ pc[c] = "header"
  /\ FALSE \in DoesFileExist(uid[c], n)
  /\ OpenForWriting(c, <<uname[c], n>>)
  /\ Execute(c, [job[c] EXCEPT !.path = <<uname[c], n>>])
  /\ Goto(c, "size")
  /\ UNCHANGED <<db, session, dirs>>

(* Mutant: every read is written at the start of the file. *)
OverwriteFromStart(old, pos, k, byte) == [i \in 1 .. k |-> byte]

(* k bytes written at pos: a gap is left where pos is past the end. *)
Overwrite(old, pos, k, byte) ==
  [i \in 1 .. (IF Len(old) > pos + k THEN Len(old) ELSE pos + k) |->
     IF pos < i /\ i <= pos + k THEN byte
     ELSE IF i <= Len(old) THEN old[i] ELSE None]

(* file.write at the position of the connection's own stream *)
Written(c, pos, k, byte) ==
  IF ino[c] = None \/ k = 0 THEN content
  ELSE [content EXCEPT ![ino[c]] = Overwrite(@, pos, k, byte)]

(* Mutant: add_files does not compare current_file with num_files. *)
FileReceivedEndless(c, bytes) ==
  /\ Open(c, None)
  /\ UNCHANGED <<dirs, disk, session>>
  /\ content' = Reclaimed(bytes)
  /\ AddFile(uid[c], job[c].path[2])
  /\ Goto(c, "header")
  /\ Execute(c, [NoJob EXCEPT !.left = job[c].left - 1])

(* Mutant: the last file of a request is not logged. *)
FileReceivedLastForgotten(c, bytes) ==
  /\ Open(c, None)
  /\ UNCHANGED <<dirs, disk>>
  /\ content' = Reclaimed(bytes)
  /\ \/ /\ job[c].left = 1
        /\ UNCHANGED db
        /\ Goto(c, "off")
        /\ Execute(c, NoJob)
        /\ uid' = [uid EXCEPT ![c] = None]
        /\ uname' = [uname EXCEPT ![c] = None]
     \/ /\ job[c].left > 1
        /\ AddFile(uid[c], job[c].path[2])
        /\ Goto(c, "header")
        /\ Execute(c, [NoJob EXCEPT !.left = job[c].left - 1])
        /\ UNCHANGED session

(* file.close(); ++current_file; data->add_file(...); add_files() *)
FileReceived(c, bytes) ==
  /\ Open(c, None)
  /\ UNCHANGED <<dirs, disk>>
  /\ content' = Reclaimed(bytes)
  /\ AddFile(uid[c], job[c].path[2])
  /\ \/ /\ job[c].left = 1
        /\ Goto(c, "off")
        /\ Execute(c, NoJob)
        /\ uid' = [uid EXCEPT ![c] = None]
        /\ uname' = [uname EXCEPT ![c] = None]
     \/ /\ job[c].left > 1
        /\ Goto(c, "header")
        /\ Execute(c, [NoJob EXCEPT !.left = job[c].left - 1])
        /\ UNCHANGED session

(* The disk takes no more: the stream goes bad and nobody asks it; what is *)
(* written to it from now on is lost.                                      *)
StreamBreaks(c) ==
  /\ "write" \in Faults
  /\ Uploading(c) /\ ino[c] # None
  /\ UNCHANGED <<db, pc, session, job, dirs, disk>>
  /\ Open(c, None)
  /\ content' = Reclaimed(content)

MoreToCome(c, bytes, size, got) ==
  /\ content' = bytes
  /\ Execute(c, [job[c] EXCEPT !.size = size, !.got = got])
  /\ Goto(c, "data")
  /\ UNCHANGED <<db, session, ino, dirs, disk>>

(* The size s and, in the same read, k bytes of the file. *)
GetFileSize(c, s, k) ==
  /\ pc[c] = "size"
  /\ k <= s + Extra
  /\ LET bytes == Written(c, 0, k, [by |-> c, of |-> s])
     IN  \/ k < s /\ MoreToCome(c, bytes, s, k)
         \/ k >= s /\ FileReceived(c, bytes)

(* k more bytes; past the announced size, add_file never stops reading. *)
AddFileData(c, k) ==
  LET got == job[c].got + k
      bytes == Written(c, job[c].got, k, [by |-> c, of |-> job[c].size])
  IN  /\ pc[c] = "data"
      /\ got <= job[c].size + Extra
      /\ \/ got # job[c].size /\ MoreToCome(c, bytes, job[c].size, got)
         \/ got = job[c].size /\ FileReceived(c, bytes)

-----------------------------------------------------------------------------
(* connection_file_management.cpp: sending, removing and sharing files *)

Located(c, t) == <<IF t.user = None THEN uname[c] ELSE t.user, t.name>>

(* What is_file_in_library and exists may answer for t. *)
Sendable(c, t) ==
  LET p == Located(c, t)
  IN  {disk[p] # None /\ found : found \in IsFileInLibrary(uid[c], p[1], p[2])}

(* Mutant: arg_index is not advanced. *)
RestAgain(list, i) == SubSeq(list, i, Len(list))

Rest(list, i) == SubSeq(list, i + 1, Len(list))

(* send_files: opens the first file of list that can be sent and announces *)
(* its size; file_size asks the path, not the stream.                      *)
SendFiles(c, list) ==
  /\ UNCHANGED <<db, dirs, disk>>
  /\ \/ /\ \A i \in 1 .. Len(list) : FALSE \in Sendable(c, list[i])
        /\ Finish(c)
     \/ \E i \in 1 .. Len(list) :
          LET p == Located(c, list[i])
          IN  /\ TRUE \in Sendable(c, list[i])
              /\ \A j \in 1 .. i - 1 : FALSE \in Sendable(c, list[j])
              /\ Execute(c, [args |-> Rest(list, i), left |-> 1, path |-> p,
                             size |-> Len(content[disk[p]]), got |-> 0])
              /\ Open(c, disk[p]) \/ ("open" \in Faults /\ Open(c, None))
              /\ content' = Reclaimed(content)
              /\ Goto(c, "sending")
              /\ UNCHANGED session

StartSendFiles(c, list) ==
  /\ LoggedIn(c)
  /\ SendFiles(c, list)

(* What the stream has still to give: nothing once a read has met the end. *)
Unread(c) == IF ino[c] = None \/ job[c].left = 0 THEN 0 ELSE Len(content[ino[c]]) - job[c].got

(* The write is complete: the next part of the file, or the next file. *)
SendFile(c) ==
  /\ pc[c] = "sending"
  /\ \/ /\ Unread(c) >= BufferSize
        /\ Execute(c, [job[c] EXCEPT !.got = @ + BufferSize])
        /\ UNCHANGED <<db, pc, session, ino, store>>
     \/ /\ 0 < Unread(c) /\ Unread(c) < BufferSize
        /\ Execute(c, [job[c] EXCEPT !.got = @ + Unread(c), !.left = 0])
        /\ UNCHANGED <<db, pc, session, ino, store>>
     \/ /\ Unread(c) <= 0
        /\ SendFiles(c, job[c].args)

Unlinked(paths) == [p \in Path |-> IF p \in paths THEN None ELSE disk[p]]

(* remove_files unlinks what remove_file says it has deleted. *)
RemoveRequest(c, own, dropped) ==
  /\ LoggedIn(c)
  /\ \E done \in Effective(own, "remove"), gone \in Effective(dropped, "remove") :
       /\ RemoveFiles(uid[c], done, gone)
       /\ disk' = Unlinked({uname[c]} \X Deleted(uid[c], done))
  /\ UNCHANGED dirs
  /\ Leave(c, "abandoned")

(* The row of the last name is deleted and its file is not: remove throws, *)
(* or the process ends between the two.                                    *)
RemoveRequestCut(c, own, last, dropped) ==
  /\ LoggedIn(c)
  /\ last \in own /\ FileExists(uid[c], last)
  /\ RemoveFiles(uid[c], own, dropped)
  /\ disk' = Unlinked({uname[c]} \X Deleted(uid[c], own \ {last}))
  /\ UNCHANGED dirs
  /\ \/ "unlink" \in Faults /\ Escapes(c)
     \/ "crash" \in Faults /\ Down

ShareRequest(c, viewer, names) ==
  /\ LoggedIn(c)
  /\ \E done \in Effective(names, "share") : ShareFiles(uid[c], viewer, done)
  /\ UNCHANGED <<dirs, disk>>
  /\ Leave(c, "abandoned")

RevokeRequest(c, viewer, names) ==
  /\ LoggedIn(c)
  /\ \E done \in Effective(names, "share") : RevokeFiles(uid[c], viewer, done)
  /\ UNCHANGED <<dirs, disk>>
  /\ Leave(c, "abandoned")

-----------------------------------------------------------------------------
Step(c) ==
  \/ Connect(c) \/ ReadFails(c) \/ WriteFails(c) \/ Refuse(c) \/ UpdateFileInfo(c)
  \/ \E u \in User : UserLogin(c, u) \/ UserRegister(c, u) \/ UserRegisterCut(c, u)
  \/ UserLoginRefused(c) \/ UserLoginThrows(c) \/ Welcomed(c)
  \/ UserRegisterIgnored(c)
  \/ UserListFiles(c) \/ UserListFilesFails(c) \/ ListSent(c)
  \/ \E n \in 0 .. MaxFiles : StartAddFiles(c, n)
  \/ StreamBreaks(c)
  \/ \E n \in Name : GetFileHeader(c, n)
  \/ \E s \in 0 .. MaxSize, k \in 0 .. MaxSize + Extra : GetFileSize(c, s, k)
  \/ \E k \in 1 .. MaxSize + Extra : AddFileData(c, k)
  \/ \E list \in GetLists : StartSendFiles(c, list)
  \/ SendFile(c)
  \/ \E own \in SUBSET Name, dropped \in SUBSET (User \X Name) :
       \/ RemoveRequest(c, own, dropped)
       \/ \E last \in Name : RemoveRequestCut(c, own, last, dropped)
  \/ \E viewer \in User, names \in SUBSET Name :
       ShareRequest(c, viewer, names) \/ RevokeRequest(c, viewer, names)

Next == Crash \/ \E c \in Conn : Step(c)

Spec == Init /\ [][Next]_vars

(* The writes asio has started complete or fail, as long as the peer reads *)
(* or goes; their handlers run.  Nothing makes a client send.              *)
Fairness == \A c \in Conn : WF_vars(Welcomed(c)) /\ WF_vars(SendFile(c)) /\ WF_vars(ListSent(c))

FairSpec == Spec /\ Fairness
=============================================================================
