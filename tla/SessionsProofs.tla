--------------------------- MODULE SessionsProofs ---------------------------
(***************************************************************************)
(* Sessions for every number of connections, users, names and files, every *)
(* bound and every set of failures: the types, the refinement of Database  *)
(* (and with it of Catalogue), and who may change what.                    *)
(***************************************************************************)
EXTENDS SessionsProperties, DatabaseProofs, SequenceTheorems

(* What the types rest on: only registered users have sessions, only a     *)
(* session of somebody uploads or is sent files, and a connection that     *)
(* waits for a file knows its path.                                        *)
Sessioned ==
  \A c \in Conn :
    /\ uid[c] # None => uid[c] \in users
    /\ pc[c] \in {"header", "size", "data", "sending"} => uid[c] # None
    /\ pc[c] \in {"header", "size", "data"} => job[c].left > 0
    /\ Uploading(c) => job[c].path # None

TypeInv == TypeOK /\ Sessioned

LEMMA NoJobType == NoJob \in Job
  BY DEF NoJob, Job

LEMMA JobLeft ==
  ASSUME NEW j \in Job, NEW n \in Nat
  PROVE  [j EXCEPT !.left = n] \in Job /\ [j EXCEPT !.left = n].left = n
  BY DEF Job

LEMMA JobPath ==
  ASSUME NEW j \in Job, NEW p \in Path
  PROVE  /\ [j EXCEPT !.path = p] \in Job
         /\ [j EXCEPT !.path = p].path = p
         /\ [j EXCEPT !.path = p].left = j.left
  BY DEF Job

LEMMA JobGot ==
  ASSUME NEW j \in Job, NEW n \in Nat
  PROVE  /\ [j EXCEPT !.got = n] \in Job
         /\ [j EXCEPT !.got = n, !.left = 0] \in Job
  BY DEF Job

LEMMA InitTypes == Init => TypeInv
  BY NoJobType DEF Init, TypeInv, TypeOK, Sessioned, DbInit, DbTypeOK, Uploading, PC,
                   Reading, Writing, Directory

LEMMA ReclaimedType ==
  ASSUME NEW f \in [Inode -> Seq(Byte)]
  PROVE  Reclaimed(f) \in [Inode -> Seq(Byte)]
  BY DEF Reclaimed

LEMMA LeaveTypes ==
  ASSUME NEW c \in Conn, NEW where \in {"off", "abandoned"}, TypeInv, Leave(c, where),
         DbTypeOK', users \subseteq users', dirs' \subseteq Directory,
         disk' \in [Path -> Inode \cup {None}]
  PROVE  TypeInv'
<1>1. /\ pc' \in [Conn -> PC] /\ uid' \in [Conn -> User \cup {None}]
      /\ uname' \in [Conn -> Directory] /\ ino' \in [Conn -> Inode \cup {None}]
      /\ job' \in [Conn -> Job]
  BY NoJobType DEF TypeInv, TypeOK, Leave, Goto, Open, Execute, PC, Directory
<1>2. content' \in [Inode -> Seq(Byte)]
  BY ReclaimedType DEF TypeInv, TypeOK, Leave
<1>3. Sessioned'
  BY DEF TypeInv, TypeOK, Sessioned, Leave, Goto, Open, Execute, Uploading
<1> QED
  BY <1>1, <1>2, <1>3 DEF TypeInv, TypeOK

LEMMA DownTypes ==
  ASSUME TypeInv, Down, DbTypeOK', dirs' \subseteq Directory,
         disk' \in [Path -> Inode \cup {None}]
  PROVE  TypeInv'
<1>1. content' \in [Inode -> Seq(Byte)]
  BY ReclaimedType DEF TypeInv, TypeOK, Down
<1> QED
  BY <1>1, NoJobType DEF TypeInv, TypeOK, Sessioned, Down, Uploading, PC, Reading, Writing,
                         Directory

(* The actions that only close a connection, give it up or end the process. *)
LEMMA QuietTypes ==
  ASSUME NEW c \in Conn, TypeInv, UNCHANGED <<db, dirs, disk>>,
         Leave(c, "off") \/ Leave(c, "abandoned") \/ Down
  PROVE  TypeInv'
<1>1. /\ DbTypeOK' /\ users \subseteq users' /\ dirs' \subseteq Directory
      /\ disk' \in [Path -> Inode \cup {None}]
  BY DEF TypeInv, TypeOK, DbTypeOK, db
<1> QED
  BY <1>1, LeaveTypes, DownTypes

LEMMA UserLoginTypes ==
  ASSUME NEW c \in Conn, NEW u \in User, TypeInv, UserLogin(c, u)
  PROVE  TypeInv'
  BY DEF TypeInv, TypeOK, Sessioned, UserLogin, UsernameFromId, Goto, Requests, PC, Writing,
         Directory, Uploading, db, DbTypeOK, store

LEMMA WaitTypes ==
  ASSUME NEW c \in Conn, TypeInv, Connect(c) \/ Welcomed(c) \/ UserListFiles(c)
  PROVE  TypeInv'
  BY DEF TypeInv, TypeOK, Sessioned, Connect, Welcomed, UserListFiles, Goto, Requests, PC,
         Reading, Writing, Uploading, db, DbTypeOK, store, session

LEMMA UserRegisterTypes ==
  ASSUME NEW c \in Conn, NEW u \in User, TypeInv,
         UserRegister(c, u) \/ UserRegisterCut(c, u)
  PROVE  TypeInv'
<1>1. /\ DbTypeOK' /\ users \subseteq users' /\ dirs' \subseteq Directory
      /\ disk' \in [Path -> Inode \cup {None}]
  BY DEF TypeInv, TypeOK, DbTypeOK, UserRegister, UserRegisterCut, TryRegister, Directory
<1> QED
  BY <1>1, LeaveTypes, DownTypes DEF UserRegister, UserRegisterCut, Escapes, Finish

LEMMA StartAddFilesTypes ==
  ASSUME NEW c \in Conn, NEW n \in 0 .. MaxFiles, TypeInv, StartAddFiles(c, n)
  PROVE  TypeInv'
<1>1. CASE n = 0
  BY <1>1, QuietTypes DEF StartAddFiles, Finish
<1>2. CASE n > 0
  <2> DEFINE j == [NoJob EXCEPT !.left = n]
  <2>1. j \in Job /\ j.left = n
    BY NoJobType, JobLeft
  <2>2. job' = [job EXCEPT ![c] = j] /\ pc' = [pc EXCEPT ![c] = "header"]
    BY <1>2 DEF StartAddFiles, Goto, Execute
  <2>3. UNCHANGED <<users, files, libraries, uid, uname, ino, dirs, disk, content>> /\ uid[c] # None
    BY <1>2 DEF StartAddFiles, LoggedIn, db, store, session
  <2> HIDE DEF j
  <2> QED
    BY <1>2, <2>1, <2>2, <2>3 DEF TypeInv, TypeOK, Sessioned, PC, Reading, Uploading, DbTypeOK
<1> QED
  BY <1>1, <1>2 DEF StartAddFiles

LEMMA OpenForWritingTypes ==
  ASSUME NEW c \in Conn, NEW p \in Path, TypeInv, OpenForWriting(c, p)
  PROVE  /\ disk' \in [Path -> Inode \cup {None}]
         /\ ino' \in [Conn -> Inode \cup {None}]
         /\ content' \in [Inode -> Seq(Byte)]
<1>1. CASE UNCHANGED <<disk, ino, content>>
  BY <1>1 DEF TypeInv, TypeOK
<1>2. CASE disk[p] # None /\ Open(c, disk[p]) /\ UNCHANGED disk
           /\ content' = [content EXCEPT ![disk[p]] = <<>>]
  BY <1>2 DEF TypeInv, TypeOK, Open
<1>3. CASE /\ Inode \ InUse(disk, ino) # {}
           /\ LET new == CHOOSE i \in Inode : i \notin InUse(disk, ino)
              IN  Open(c, new) /\ disk' = [disk EXCEPT ![p] = new]
           /\ UNCHANGED content
  <2> DEFINE new == CHOOSE i \in Inode : i \notin InUse(disk, ino)
  <2>1. new \in Inode
    BY <1>3
  <2> HIDE DEF new
  <2> QED
    BY <1>3, <2>1 DEF TypeInv, TypeOK, Open, new
<1> QED
  BY <1>1, <1>2, <1>3 DEF OpenForWriting

LEMMA GetFileHeaderTypes ==
  ASSUME NEW c \in Conn, NEW n \in Name, TypeInv, GetFileHeader(c, n)
  PROVE  TypeInv'
<1> DEFINE p == <<uname[c], n>>
           j == [job[c] EXCEPT !.path = p]
<1>1. p \in Path /\ job[c] \in Job
  BY DEF TypeInv, TypeOK, Path
<1>2. j \in Job /\ j.path = p /\ j.left = job[c].left
  BY <1>1, JobPath
<1>3. /\ disk' \in [Path -> Inode \cup {None}]
      /\ ino' \in [Conn -> Inode \cup {None}]
      /\ content' \in [Inode -> Seq(Byte)]
  <2> HIDE DEF p
  <2> QED
    BY <1>1, OpenForWritingTypes DEF GetFileHeader, p
<1>4. p # None
  BY <1>1, SessionsAssumption
<1>5. /\ job' = [job EXCEPT ![c] = j] /\ pc' = [pc EXCEPT ![c] = "size"]
      /\ UNCHANGED <<users, files, libraries, uid, uname, dirs>>
      /\ pc[c] = "header"
  BY DEF GetFileHeader, Execute, Goto, db, session
<1> HIDE DEF p, j
<1> QED
  BY <1>2, <1>3, <1>4, <1>5 DEF TypeInv, TypeOK, Sessioned, Uploading, PC, Reading, DbTypeOK

LEMMA OverwriteType ==
  ASSUME NEW old \in Seq(Byte), NEW pos \in Nat, NEW k \in Nat, NEW byte \in Byte
  PROVE  Overwrite(old, pos, k, byte) \in Seq(Byte)
<1> DEFINE n == IF Len(old) > pos + k THEN Len(old) ELSE pos + k
<1>1. n \in Nat /\ None \in Byte
  BY DEF Byte
<1>2. \A i \in 1 .. n : (IF pos < i /\ i <= pos + k THEN byte
                        ELSE IF i <= Len(old) THEN old[i] ELSE None) \in Byte
  BY <1>1
<1> QED
  BY <1>1, <1>2 DEF Overwrite

LEMMA WrittenType ==
  ASSUME NEW c \in Conn, NEW pos \in Nat, NEW k \in Nat, NEW byte \in Byte, TypeInv
  PROVE  Written(c, pos, k, byte) \in [Inode -> Seq(Byte)]
<1>1. CASE ino[c] = None \/ k = 0
  BY <1>1 DEF Written, TypeInv, TypeOK
<1>2. CASE ~(ino[c] = None \/ k = 0)
  <2>1. ino[c] \in Inode /\ content \in [Inode -> Seq(Byte)]
    BY <1>2 DEF TypeInv, TypeOK
  <2>2. Overwrite(content[ino[c]], pos, k, byte) \in Seq(Byte)
    BY <2>1, OverwriteType
  <2>3. Written(c, pos, k, byte) =
          [content EXCEPT ![ino[c]] = Overwrite(content[ino[c]], pos, k, byte)]
    BY <1>2 DEF Written
  <2> QED
    BY <2>1, <2>2, <2>3
<1> QED
  BY <1>1, <1>2

(* add_file of mysql_link, by a registered user, leaves the tables typed.  *)
LEMMA AddFileTypes ==
  ASSUME NEW u \in users, NEW n \in Name, DbTypeOK, AddFile(u, n)
  PROVE  DbTypeOK' /\ users' = users
  BY DEF AddFile, InsertFile, GetNextFileId, DbTypeOK, FileRow, LibraryRow

LEMMA FileReceivedTypes ==
  ASSUME NEW c \in Conn, NEW bytes \in [Inode -> Seq(Byte)], TypeInv, Uploading(c),
         FileReceived(c, bytes)
  PROVE  TypeInv'
<1>1. uid[c] \in users /\ job[c].path \in Path /\ job[c].left \in Nat \ {0}
  BY DEF TypeInv, TypeOK, Sessioned, Uploading, Job
<1>2. DbTypeOK' /\ users' = users
  <2>1. job[c].path[2] \in Name
    BY <1>1 DEF Path
  <2> QED
    BY <1>1, <2>1, AddFileTypes DEF FileReceived, TypeInv, TypeOK
<1>3. /\ content' \in [Inode -> Seq(Byte)]
      /\ ino' \in [Conn -> Inode \cup {None}]
      /\ dirs' = dirs /\ disk' = disk
  BY ReclaimedType DEF FileReceived, Open, TypeInv, TypeOK
<1>4. CASE /\ Goto(c, "off") /\ Execute(c, NoJob)
           /\ uid' = [uid EXCEPT ![c] = None] /\ uname' = [uname EXCEPT ![c] = None]
  BY <1>2, <1>3, <1>4, NoJobType
  DEF TypeInv, TypeOK, Sessioned, Goto, Execute, Uploading, PC, Directory
<1>5. CASE /\ job[c].left > 1 /\ Goto(c, "header")
           /\ Execute(c, [NoJob EXCEPT !.left = job[c].left - 1]) /\ UNCHANGED session
  <2> DEFINE j == [NoJob EXCEPT !.left = job[c].left - 1]
  <2>1. j \in Job /\ j.left > 0
    <3>1. job[c].left - 1 \in Nat /\ job[c].left - 1 > 0
      BY <1>1, <1>5
    <3> QED
      BY <3>1, NoJobType, JobLeft
  <2>2. pc' = [pc EXCEPT ![c] = "header"] /\ job' = [job EXCEPT ![c] = j]
        /\ uid' = uid /\ uname' = uname
    BY <1>5 DEF Goto, Execute, session
  <2> HIDE DEF j
  <2> QED
    BY <1>1, <1>2, <1>3, <2>1, <2>2 DEF TypeInv, TypeOK, Sessioned, Uploading, PC, Reading
<1> QED
  BY <1>4, <1>5 DEF FileReceived

LEMMA StreamBreaksTypes ==
  ASSUME NEW c \in Conn, TypeInv, StreamBreaks(c)
  PROVE  TypeInv'
<1>1. content' \in [Inode -> Seq(Byte)]
  BY ReclaimedType DEF TypeInv, TypeOK, StreamBreaks
<1> QED
  BY <1>1 DEF TypeInv, TypeOK, Sessioned, StreamBreaks, Open, Uploading, db, DbTypeOK, session

LEMMA MoreToComeTypes ==
  ASSUME NEW c \in Conn, NEW bytes \in [Inode -> Seq(Byte)], NEW m \in Nat, NEW n \in Nat,
         TypeInv, Uploading(c), MoreToCome(c, bytes, m, n)
  PROVE  TypeInv'
<1> DEFINE j == [job[c] EXCEPT !.size = m, !.got = n]
<1>1. job[c] \in Job
  BY DEF TypeInv, TypeOK
<1>2. j \in Job /\ j.left = job[c].left /\ j.path = job[c].path
  BY <1>1 DEF Job
<1>3. /\ content' = bytes /\ job' = [job EXCEPT ![c] = j] /\ pc' = [pc EXCEPT ![c] = "data"]
      /\ UNCHANGED <<users, files, libraries, uid, uname, ino, dirs, disk>>
  BY DEF MoreToCome, Goto, Execute, db, session
<1> HIDE DEF j
<1> QED
  BY <1>2, <1>3 DEF TypeInv, TypeOK, Sessioned, Uploading, PC, Reading, DbTypeOK

LEMMA GetFileSizeTypes ==
  ASSUME NEW c \in Conn, NEW s \in 0 .. MaxSize, NEW k \in 0 .. MaxSize + Extra, TypeInv,
         GetFileSize(c, s, k)
  PROVE  TypeInv'
<1> DEFINE bytes == Written(c, 0, k, [by |-> c, of |-> s])
<1>1. s \in Nat /\ k \in Nat /\ Uploading(c) /\ [by |-> c, of |-> s] \in Byte
  BY SessionsAssumption DEF GetFileSize, Uploading, Byte
<1>2. bytes \in [Inode -> Seq(Byte)]
  BY <1>1, WrittenType
<1>3. MoreToCome(c, bytes, s, k) \/ FileReceived(c, bytes)
  BY DEF GetFileSize
<1> HIDE DEF bytes
<1> QED
  BY <1>1, <1>2, <1>3, MoreToComeTypes, FileReceivedTypes

LEMMA AddFileDataTypes ==
  ASSUME NEW c \in Conn, NEW k \in 1 .. MaxSize + Extra, TypeInv, AddFileData(c, k)
  PROVE  TypeInv'
<1> DEFINE got == job[c].got + k
           bytes == Written(c, job[c].got, k, [by |-> c, of |-> job[c].size])
<1>1. /\ job[c].got \in Nat /\ job[c].size \in Nat /\ k \in Nat /\ got \in Nat /\ Uploading(c)
      /\ [by |-> c, of |-> job[c].size] \in Byte
  BY SessionsAssumption DEF AddFileData, Uploading, Byte, TypeInv, TypeOK, Job
<1>2. bytes \in [Inode -> Seq(Byte)]
  BY <1>1, WrittenType
<1>3. MoreToCome(c, bytes, job[c].size, got) \/ FileReceived(c, bytes)
  BY DEF AddFileData
<1> HIDE DEF bytes, got
<1> QED
  BY <1>1, <1>2, <1>3, MoreToComeTypes, FileReceivedTypes

LEMMA LocatedType ==
  ASSUME NEW c \in Conn, NEW t \in Target, TypeInv
  PROVE  Located(c, t) \in Path
  BY DEF Located, Target, Path, TypeInv, TypeOK

(* What is sent is in the library and has a file.                          *)
LEMMA SendableHasFile ==
  ASSUME NEW c \in Conn, NEW t \in Target, TypeInv, TRUE \in Sendable(c, t)
  PROVE  /\ disk[Located(c, t)] \in Inode
         /\ InLibrary(uid[c], Located(c, t)[1], Located(c, t)[2])
<1> DEFINE p == Located(c, t)
<1>1. p \in Path
  BY LocatedType
<1>2. PICK found \in IsFileInLibrary(uid[c], p[1], p[2]) : TRUE = (disk[p] # None /\ found)
  BY DEF Sendable
<1>3. found \in {InLibrary(uid[c], p[1], p[2]), FALSE}
  BY <1>2 DEF IsFileInLibrary, Answers
<1> HIDE DEF p
<1>4. disk[p] # None /\ InLibrary(uid[c], p[1], p[2])
  BY <1>2, <1>3
<1> QED
  BY <1>1, <1>4 DEF TypeInv, TypeOK, p

LEMMA RestType ==
  ASSUME NEW list \in Seq(Target), NEW i \in 1 .. Len(list)
  PROVE  Rest(list, i) \in Seq(Target)
  BY DEF Rest

LEMMA SendFilesTypes ==
  ASSUME NEW c \in Conn, NEW list \in Seq(Target), TypeInv, uid[c] # None,
         SendFiles(c, list)
  PROVE  TypeInv'
<1>1. CASE Finish(c)
  BY <1>1, QuietTypes DEF SendFiles, Finish
<1>2. CASE ~Finish(c)
  <2>1. PICK i \in 1 .. Len(list) :
          LET p == Located(c, list[i])
          IN  /\ TRUE \in Sendable(c, list[i])
              /\ Execute(c, [args |-> Rest(list, i), left |-> 1, path |-> p,
                             size |-> Len(content[disk[p]]), got |-> 0])
              /\ Open(c, disk[p]) \/ Open(c, None)
              /\ content' = Reclaimed(content)
              /\ Goto(c, "sending")
              /\ UNCHANGED session
    BY <1>2 DEF SendFiles
  <2> DEFINE p == Located(c, list[i])
             j == [args |-> Rest(list, i), left |-> 1, path |-> p,
                   size |-> Len(content[disk[p]]), got |-> 0]
  <2>2. list[i] \in Target
    OBVIOUS
  <2>3. p \in Path /\ disk[p] \in Inode
    BY <2>1, <2>2, LocatedType, SendableHasFile
  <2>4. j \in Job
    <3>1. Len(content[disk[p]]) \in Nat
      BY <2>3 DEF TypeInv, TypeOK
    <3>2. Rest(list, i) \in Seq(Target)
      BY RestType
    <3> HIDE DEF p
    <3> QED
      BY <2>3, <3>1, <3>2 DEF Job
  <2>5. /\ job' = [job EXCEPT ![c] = j] /\ pc' = [pc EXCEPT ![c] = "sending"]
        /\ ino' = [ino EXCEPT ![c] = disk[p]] \/ ino' = [ino EXCEPT ![c] = None]
        /\ UNCHANGED <<users, files, libraries, uid, uname, dirs, disk>>
    BY <2>1 DEF SendFiles, Execute, Open, Goto, session, db
  <2>6. content' \in [Inode -> Seq(Byte)]
    BY <2>1, ReclaimedType DEF TypeInv, TypeOK
  <2> HIDE DEF p, j
  <2> QED
    BY <2>3, <2>4, <2>5, <2>6 DEF TypeInv, TypeOK, Sessioned, Uploading, PC, Writing, DbTypeOK
<1> QED
  BY <1>1, <1>2

LEMMA SendFileTypes ==
  ASSUME NEW c \in Conn, TypeInv, SendFile(c)
  PROVE  TypeInv'
<1>1. /\ pc[c] = "sending" /\ uid[c] # None /\ job[c] \in Job /\ job[c].got \in Nat
      /\ Unread(c) \in Int /\ BufferSize \in Nat /\ job[c].args \in Seq(Target)
  BY SessionsAssumption DEF SendFile, TypeInv, TypeOK, Sessioned, Unread, Job
<1>2. ASSUME NEW j \in Job, Execute(c, j), UNCHANGED <<db, pc, session, ino, store>>
      PROVE  TypeInv'
  BY <1>1, <1>2 DEF Execute, TypeInv, TypeOK, Sessioned, Uploading, db, session, store, DbTypeOK
<1>3. CASE /\ Unread(c) >= BufferSize
           /\ Execute(c, [job[c] EXCEPT !.got = @ + BufferSize])
           /\ UNCHANGED <<db, pc, session, ino, store>>
  <2>1. job[c].got + BufferSize \in Nat
    BY <1>1
  <2> QED
    BY <1>1, <1>2, <1>3, <2>1, JobGot
<1>4. CASE /\ 0 < Unread(c)
           /\ Execute(c, [job[c] EXCEPT !.got = @ + Unread(c), !.left = 0])
           /\ UNCHANGED <<db, pc, session, ino, store>>
  <2>1. job[c].got + Unread(c) \in Nat
    BY <1>1, <1>4
  <2>2. [job[c] EXCEPT !.got = @ + Unread(c), !.left = 0] \in Job
    BY <1>1, <2>1 DEF Job
  <2> QED
    BY <1>2, <1>4, <2>2
<1>5. CASE SendFiles(c, job[c].args)
  BY <1>1, <1>5, SendFilesTypes
<1> QED
  BY <1>3, <1>4, <1>5 DEF SendFile

(* Requests that change the tables and files and then are given up, or end *)
(* the connection or the process.                                          *)
LEMMA RequestTypes ==
  ASSUME NEW c \in Conn, TypeInv, DbTypeOK', users' = users, dirs' = dirs,
         disk' = disk \/ \E paths : disk' = Unlinked(paths),
         Leave(c, "abandoned") \/ Leave(c, "off") \/ Down
  PROVE  TypeInv'
<1>1. dirs \subseteq Directory /\ disk' \in [Path -> Inode \cup {None}]
  BY DEF Unlinked, TypeInv, TypeOK
<1> QED
  BY <1>1, LeaveTypes, DownTypes

LEMMA RemoveRequestTypes ==
  ASSUME NEW c \in Conn, NEW own \in SUBSET Name, NEW dropped \in SUBSET (User \X Name), TypeInv,
         \/ RemoveRequest(c, own, dropped)
         \/ \E last \in Name : RemoveRequestCut(c, own, last, dropped)
  PROVE  TypeInv'
<1>1. ASSUME NEW done, NEW gone, RemoveFiles(uid[c], done, gone)
      PROVE  DbTypeOK' /\ users' = users
  BY <1>1 DEF RemoveFiles, DeleteFiles, DeleteFromLibrary, Cascade, TypeInv, TypeOK, DbTypeOK
<1>2. /\ DbTypeOK' /\ users' = users /\ dirs' = dirs
      /\ \E paths : disk' = Unlinked(paths)
      /\ Leave(c, "abandoned") \/ Leave(c, "off") \/ Down
  BY <1>1 DEF RemoveRequest, RemoveRequestCut, Escapes, Finish
<1> QED
  BY <1>2, RequestTypes

LEMMA ShareRequestTypes ==
  ASSUME NEW c \in Conn, NEW viewer \in User, NEW names \in SUBSET Name, TypeInv,
         ShareRequest(c, viewer, names) \/ RevokeRequest(c, viewer, names)
  PROVE  TypeInv'
<1>1. ASSUME NEW done, LoggedIn(c), ShareFiles(uid[c], viewer, done)
      PROVE  DbTypeOK' /\ users' = users
  BY <1>1 DEF ShareFiles, SharedRows, LoggedIn, TypeInv, TypeOK, DbTypeOK, FileRow, LibraryRow
<1>2. ASSUME NEW done, RevokeFiles(uid[c], viewer, done)
      PROVE  DbTypeOK' /\ users' = users
  BY <1>2 DEF RevokeFiles, RevokedRows, TypeInv, TypeOK, DbTypeOK
<1>3. DbTypeOK' /\ users' = users /\ dirs' = dirs /\ disk' = disk /\ Leave(c, "abandoned")
  BY <1>1, <1>2 DEF ShareRequest, RevokeRequest
<1> QED
  BY <1>3, RequestTypes

(* The handlers that only close, give up or end: nothing else changes.     *)
Quiet(c) ==
  \/ ReadFails(c) \/ WriteFails(c) \/ Refuse(c) \/ UpdateFileInfo(c) \/ UserLoginRefused(c)
  \/ UserLoginThrows(c) \/ UserRegisterIgnored(c) \/ UserListFilesFails(c) \/ ListSent(c)

LEMMA QuietLeaves ==
  ASSUME NEW c \in Conn, Quiet(c)
  PROVE  /\ UNCHANGED <<db, dirs, disk>>
         /\ Leave(c, "off") \/ Leave(c, "abandoned") \/ Down
  BY DEF Quiet, ReadFails, WriteFails, Refuse, UpdateFileInfo, UserLoginRefused, UserLoginThrows,
         UserRegisterIgnored, UserListFilesFails, ListSent, Escapes, Finish

LEMMA StepTypes ==
  ASSUME NEW c \in Conn, TypeInv, Step(c)
  PROVE  TypeInv'
<1>1. CASE Quiet(c)
  BY <1>1, QuietLeaves, QuietTypes
<1>2. CASE Connect(c) \/ Welcomed(c) \/ UserListFiles(c)
  BY <1>2, WaitTypes
<1>3. ASSUME NEW u \in User, UserLogin(c, u) \/ UserRegister(c, u) \/ UserRegisterCut(c, u)
      PROVE  TypeInv'
  BY <1>3, UserLoginTypes, UserRegisterTypes
<1>4. ASSUME NEW n \in 0 .. MaxFiles, StartAddFiles(c, n) PROVE TypeInv'
  BY <1>4, StartAddFilesTypes
<1>5. ASSUME NEW n \in Name, GetFileHeader(c, n) PROVE TypeInv'
  BY <1>5, GetFileHeaderTypes
<1>6. ASSUME NEW s \in 0 .. MaxSize, NEW k \in 0 .. MaxSize + Extra, GetFileSize(c, s, k)
      PROVE  TypeInv'
  BY <1>6, GetFileSizeTypes
<1>7. ASSUME NEW k \in 1 .. MaxSize + Extra, AddFileData(c, k) PROVE TypeInv'
  BY <1>7, AddFileDataTypes
<1>8. ASSUME NEW list \in GetLists, StartSendFiles(c, list) PROVE TypeInv'
  BY <1>8, SendFilesTypes, SessionsAssumption DEF StartSendFiles, LoggedIn
<1>9. CASE SendFile(c)
  BY <1>9, SendFileTypes
<1>10. ASSUME NEW own \in SUBSET Name, NEW dropped \in SUBSET (User \X Name),
              \/ RemoveRequest(c, own, dropped)
              \/ \E last \in Name : RemoveRequestCut(c, own, last, dropped)
       PROVE  TypeInv'
  BY <1>10, RemoveRequestTypes
<1>11. ASSUME NEW viewer \in User, NEW names \in SUBSET Name,
              ShareRequest(c, viewer, names) \/ RevokeRequest(c, viewer, names)
       PROVE  TypeInv'
  BY <1>11, ShareRequestTypes
<1>12. CASE StreamBreaks(c)
  BY <1>12, StreamBreaksTypes
<1> QED
  BY <1>1, <1>2, <1>3, <1>4, <1>5, <1>6, <1>7, <1>8, <1>9, <1>10, <1>11, <1>12 DEF Step, Quiet

LEMMA NextTypes == TypeInv /\ [Next]_vars => TypeInv'
<1>1. CASE Crash
  BY <1>1, DownTypes DEF Crash, TypeInv, TypeOK, DbTypeOK, db
<1>2. CASE UNCHANGED vars
  BY <1>2 DEF vars, TypeInv, TypeOK, DbTypeOK, Sessioned, Uploading
<1> QED
  BY <1>1, <1>2, StepTypes DEF Next

(* The state keeps its types, and whoever is logged in is registered.      *)
THEOREM TypesAlwaysHold == Spec => []TypeInv
  BY InitTypes, NextTypes, PTL DEF Spec

THEOREM TypeCorrect == Spec => []TypeOK
<1>1. TypeInv => TypeOK
  BY DEF TypeInv
<1> QED
  BY <1>1, TypesAlwaysHold, PTL

-----------------------------------------------------------------------------
(* The sessions do to the tables what Database allows, each as the user it *)
(* is logged in as.                                                        *)

(* What a session of u may do to the tables. *)
ActsFor(u) ==
  \/ \E n \in Name : AddFile(u, n)
  \/ \E own \in SUBSET Name, dropped \in SUBSET (User \X Name) : RemoveFiles(u, own, dropped)
  \/ \E viewer \in User, names \in SUBSET Name :
       ShareFiles(u, viewer, names) \/ RevokeFiles(u, viewer, names)

LEMMA EffectiveSubset ==
  ASSUME NEW S, NEW kind, NEW done \in Effective(S, kind)
  PROVE  done \in SUBSET S
  BY DEF Effective

LEMMA UploadActs ==
  ASSUME NEW c \in Conn, NEW bytes, TypeInv, Uploading(c), FileReceived(c, bytes)
  PROVE  uid[c] \in users /\ pc'[c] # pc[c] /\ ActsFor(uid[c])
<1>1. uid[c] \in users /\ job[c].path[2] \in Name
  BY DEF TypeInv, TypeOK, Sessioned, Uploading, Job, Path
<1>2. pc'[c] # pc[c]
  BY DEF FileReceived, Goto, Uploading, TypeInv, TypeOK
<1> QED
  BY <1>1, <1>2 DEF FileReceived, ActsFor

LEMMA RequestActs ==
  ASSUME NEW c \in Conn, NEW own \in SUBSET Name, NEW dropped \in SUBSET (User \X Name),
         NEW viewer, NEW names \in SUBSET Name, TypeInv,
         \/ RemoveRequest(c, own, dropped)
         \/ \E last \in Name : RemoveRequestCut(c, own, last, dropped)
         \/ viewer \in User /\ (ShareRequest(c, viewer, names) \/ RevokeRequest(c, viewer, names))
  PROVE  uid[c] \in users /\ pc'[c] # pc[c] /\ ActsFor(uid[c])
<1>1. LoggedIn(c)
  BY DEF RemoveRequest, RemoveRequestCut, ShareRequest, RevokeRequest
<1>2. uid[c] \in users
  BY <1>1 DEF LoggedIn, TypeInv, Sessioned
<1>3. pc'[c] # pc[c]
  <2>1. Leave(c, "abandoned") \/ Leave(c, "off") \/ Down
    BY DEF RemoveRequest, RemoveRequestCut, ShareRequest, RevokeRequest, Escapes, Finish
  <2> QED
    BY <1>1, <2>1 DEF LoggedIn, Requests, Leave, Down, Goto, TypeInv, TypeOK
<1>4. ActsFor(uid[c])
  <2>1. CASE RemoveRequest(c, own, dropped)
    <3>1. PICK done \in Effective(own, "remove"), gone \in Effective(dropped, "remove") :
            RemoveFiles(uid[c], done, gone)
      BY <2>1 DEF RemoveRequest
    <3>2. done \in SUBSET Name /\ gone \in SUBSET (User \X Name)
      BY EffectiveSubset
    <3> QED
      BY <3>1, <3>2 DEF ActsFor
  <2>2. CASE \E last \in Name : RemoveRequestCut(c, own, last, dropped)
    BY <2>2 DEF RemoveRequestCut, ActsFor
  <2>3. CASE viewer \in User /\ ShareRequest(c, viewer, names)
    <3>1. PICK done \in Effective(names, "share") : ShareFiles(uid[c], viewer, done)
      BY <2>3 DEF ShareRequest
    <3>2. done \in SUBSET Name
      BY EffectiveSubset
    <3> QED
      BY <2>3, <3>1, <3>2 DEF ActsFor
  <2>4. CASE viewer \in User /\ RevokeRequest(c, viewer, names)
    <3>1. PICK done \in Effective(names, "share") : RevokeFiles(uid[c], viewer, done)
      BY <2>4 DEF RevokeRequest
    <3>2. done \in SUBSET Name
      BY EffectiveSubset
    <3> QED
      BY <2>4, <3>1, <3>2 DEF ActsFor
  <2> QED
    BY <2>1, <2>2, <2>3, <2>4
<1> QED
  BY <1>2, <1>3, <1>4

LEMMA SendFilesReads ==
  ASSUME NEW c, NEW list, SendFiles(c, list) PROVE UNCHANGED db
  BY DEF SendFiles

LEMMA StepActs ==
  ASSUME NEW c \in Conn, TypeInv, Step(c)
  PROVE  \/ UNCHANGED db
         \/ \E u \in User : TryRegister(u)
         \/ uid[c] \in users /\ pc'[c] # pc[c] /\ ActsFor(uid[c])
<1>1. CASE Quiet(c)
  BY <1>1, QuietLeaves
<1>2. CASE Connect(c) \/ Welcomed(c) \/ UserListFiles(c)
  BY <1>2 DEF Connect, Welcomed, UserListFiles
<1>3. ASSUME NEW u \in User, UserLogin(c, u) PROVE UNCHANGED db
  BY <1>3 DEF UserLogin
<1>4. ASSUME NEW u \in User, UserRegister(c, u) \/ UserRegisterCut(c, u) PROVE TryRegister(u)
  BY <1>4 DEF UserRegister, UserRegisterCut
<1>5. ASSUME NEW n, StartAddFiles(c, n) \/ GetFileHeader(c, n) PROVE UNCHANGED db
  BY <1>5 DEF StartAddFiles, GetFileHeader
<1>6. ASSUME NEW bytes, NEW m, NEW n, MoreToCome(c, bytes, m, n) PROVE UNCHANGED db
  BY <1>6 DEF MoreToCome
<1>7. ASSUME NEW s, NEW k, GetFileSize(c, s, k)
      PROVE  UNCHANGED db \/ (uid[c] \in users /\ pc'[c] # pc[c] /\ ActsFor(uid[c]))
  BY <1>6, <1>7, UploadActs DEF GetFileSize, Uploading
<1>8. ASSUME NEW k, AddFileData(c, k)
      PROVE  UNCHANGED db \/ (uid[c] \in users /\ pc'[c] # pc[c] /\ ActsFor(uid[c]))
  BY <1>6, <1>8, UploadActs DEF AddFileData, Uploading
<1>9. ASSUME NEW list, StartSendFiles(c, list) PROVE UNCHANGED db
  BY <1>9, SendFilesReads DEF StartSendFiles
<1>10. CASE SendFile(c)
  BY <1>10, SendFilesReads DEF SendFile
<1>13. CASE StreamBreaks(c)
  BY <1>13 DEF StreamBreaks
<1>11. ASSUME NEW own \in SUBSET Name, NEW dropped \in SUBSET (User \X Name),
              \/ RemoveRequest(c, own, dropped)
              \/ \E last \in Name : RemoveRequestCut(c, own, last, dropped)
       PROVE  uid[c] \in users /\ pc'[c] # pc[c] /\ ActsFor(uid[c])
  BY <1>11, RequestActs
<1>12. ASSUME NEW viewer \in User, NEW names \in SUBSET Name,
              ShareRequest(c, viewer, names) \/ RevokeRequest(c, viewer, names)
       PROVE  uid[c] \in users /\ pc'[c] # pc[c] /\ ActsFor(uid[c])
  BY <1>12, RequestActs
<1> QED
  BY <1>1, <1>2, <1>3, <1>4, <1>5, <1>7, <1>8, <1>9, <1>10, <1>11, <1>12, <1>13
  DEF Step, Quiet

LEMMA NextIsDbNext == TypeInv /\ [Next]_vars => [DbNext]_db
<1> SUFFICES ASSUME TypeInv, [Next]_vars PROVE DbNext \/ UNCHANGED db
  OBVIOUS
<1>1. CASE Crash
  BY <1>1 DEF Crash
<1>2. CASE UNCHANGED vars
  BY <1>2 DEF vars, db
<1>3. ASSUME NEW c \in Conn, Step(c) PROVE DbNext \/ UNCHANGED db
  <2>1. \A u \in User : TryRegister(u) => DbNext
    BY DEF DbNext
  <2>2. uid[c] \in users => uid[c] \in User
    BY DEF TypeInv, TypeOK, DbTypeOK
  <2>3. uid[c] \in users /\ ActsFor(uid[c]) => DbNext
    BY <2>2 DEF ActsFor, DbNext
  <2> QED
    BY <1>3, <2>1, <2>3, StepActs
<1> QED
  BY <1>1, <1>2, <1>3 DEF Next

(* Whatever the sessions do to the tables, Database allows it (DbSpec).    *)
THEOREM SessionsImplementDatabase == Spec => DbSpec
<1>1. Init => DbInit
  BY DEF Init
<1>2. TypeInv /\ [Next]_vars => [DbNext]_db
  BY NextIsDbNext
<1> QED
  BY <1>1, <1>2, TypesAlwaysHold, PTL DEF Spec, DbSpec

(* So the clients see the catalogue: any number of sessions, interleaved   *)
(* in any way, cut short by lost connections, crashes and failing          *)
(* statements, publish, share, revoke and remove songs as Catalogue says   *)
(* (CatalogueSpec).                                                        *)
THEOREM SessionsImplementCatalogue == Spec => CatalogueSpec
  BY SessionsImplementDatabase, DatabaseImplementsCatalogue

-----------------------------------------------------------------------------
(* Who may change what. *)

LEMMA SeenIsPublished ==
  ASSUME NEW v \in Seen
  PROVE  v \in User \X User \X Name /\ <<v[2], v[3]>> \in Published
  BY DEF Seen, InLibrary, Published

(* A session of u makes and withdraws songs of u only, shows somebody only *)
(* songs of u, and hides songs of u or hides songs from u.                 *)
LEMMA ActsForOwn ==
  ASSUME NEW u \in users, DbInv, ActsFor(u)
  PROVE  /\ \A s \in (Published \ Published') \cup (Published' \ Published) : s[1] = u
         /\ \A v \in Seen' \ Seen : v[2] = u
         /\ \A v \in Seen \ Seen' : v[1] = u \/ v[2] = u
<1>1. ASSUME NEW n \in Name, AddFile(u, n)
      PROVE  \/ Published' = Published \cup {<<u, n>>} /\ Seen' = Seen \cup {<<u, u, n>>}
             \/ Published' = Published /\ Seen' = Seen
  BY <1>1, AddFileMaps DEF C!Publish, C!vars
<1>2. ASSUME NEW own \in SUBSET Name, NEW dropped \in SUBSET (User \X Name),
             RemoveFiles(u, own, dropped)
      PROVE  /\ Published' = Published \ ({u} \X own)
             /\ Seen' \subseteq Seen
             /\ \A v \in Seen \ Seen' : v[1] = u \/ v[2] = u
  <2>1. C!Remove(u, own, dropped)
    BY <1>2, RemoveFilesMaps
  <2>2. Published' = Published \ ({u} \X own)
    BY <2>1 DEF C!Remove
  <2>3. Seen' = {v \in Seen : /\ <<v[2], v[3]>> \in Published'
                              /\ ~(v[1] = u /\ <<v[2], v[3]>> \in dropped)}
    BY <2>1 DEF C!Remove
  <2>4. ASSUME NEW v \in Seen, v \notin Seen' PROVE v[1] = u \/ v[2] = u
    BY <2>2, <2>3, <2>4, SeenIsPublished
  <2> QED
    BY <2>2, <2>3, <2>4
<1>3. ASSUME NEW viewer \in User, NEW names \in SUBSET Name,
             ShareFiles(u, viewer, names)
      PROVE  /\ Published' = Published /\ Seen \subseteq Seen'
             /\ \A v \in Seen' \ Seen : v[2] = u
  <2>1. Published' = Published
    BY <1>3 DEF ShareFiles, Published
  <2>2. C!Share(u, viewer, names) \/ UNCHANGED C!vars
    BY <1>3, ShareFilesMaps
  <2>3. CASE Seen' = Seen
    BY <2>1, <2>3
  <2>4. CASE Seen' = Seen \cup {<<viewer, u, n>> : n \in {m \in names : <<u, m>> \in Published}}
    <3>1. \A v \in Seen' \ Seen : \E n \in names : v = <<viewer, u, n>>
      BY <2>4
    <3>2. Seen \subseteq Seen'
      BY <2>4
    <3>3. \A n : <<viewer, u, n>>[2] = u
      OBVIOUS
    <3> QED
      BY <2>1, <3>1, <3>2, <3>3
  <2> QED
    BY <2>2, <2>3, <2>4 DEF C!Share, C!vars
<1>4. ASSUME NEW viewer \in User, NEW names \in SUBSET Name,
             RevokeFiles(u, viewer, names)
      PROVE  /\ Published' = Published /\ Seen' \subseteq Seen
             /\ \A v \in Seen \ Seen' : v[2] = u
  <2>1. Published' = Published
    BY <1>4 DEF RevokeFiles, Published
  <2>2. Seen' = Seen \ {<<viewer, u, n>> : n \in names}
    BY <1>4, RevokeFilesMaps DEF C!Revoke
  <2>3. \A v \in Seen \ Seen' : \E n \in names : v = <<viewer, u, n>>
    BY <2>2
  <2> QED
    BY <2>1, <2>2, <2>3
<1>5. CASE \E n \in Name : AddFile(u, n)
  BY <1>1, <1>5
<1>6. CASE \E own \in SUBSET Name, dropped \in SUBSET (User \X Name) : RemoveFiles(u, own, dropped)
  BY <1>2, <1>6
<1>7. CASE \E viewer \in User, names \in SUBSET Name : ShareFiles(u, viewer, names)
  BY <1>3, <1>7
<1>8. CASE \E viewer \in User, names \in SUBSET Name : RevokeFiles(u, viewer, names)
  BY <1>4, <1>8
<1> QED
  BY <1>5, <1>6, <1>7, <1>8 DEF ActsFor

LEMMA NextByOwners ==
  ASSUME TypeInv, DbInv, [Next]_vars
  PROVE  LET actors == {uid[c] : c \in {d \in Conn : pc'[d] # pc[d]}}
         IN  /\ \A s \in (Published \ Published') \cup (Published' \ Published) : s[1] \in actors
             /\ \A v \in Seen' \ Seen : v[2] \in actors
             /\ \A v \in Seen \ Seen' : {v[1], v[2]} \cap actors # {}
<1> DEFINE actors == {uid[c] : c \in {d \in Conn : pc'[d] # pc[d]}}
<1>1. CASE Published' = Published /\ Seen' = Seen
  BY <1>1
<1>2. ASSUME NEW c \in Conn, uid[c] \in users, pc'[c] # pc[c], ActsFor(uid[c])
      PROVE  /\ \A s \in (Published \ Published') \cup (Published' \ Published) : s[1] \in actors
             /\ \A v \in Seen' \ Seen : v[2] \in actors
             /\ \A v \in Seen \ Seen' : {v[1], v[2]} \cap actors # {}
  <2>1. uid[c] \in actors
    BY <1>2
  <2> HIDE DEF actors
  <2> QED
    BY <1>2, <2>1, ActsForOwn
<1>3. ASSUME UNCHANGED db PROVE Published' = Published /\ Seen' = Seen
  BY <1>3 DEF db, Published, Seen, InLibrary, Refers
<1>4. ASSUME NEW u \in User, TryRegister(u) PROVE Published' = Published /\ Seen' = Seen
  BY <1>4, TryRegisterMaps DEF C!CreateAccount
<1>5. CASE Crash \/ UNCHANGED vars
  BY <1>1, <1>3, <1>5 DEF Crash, vars, db
<1>6. ASSUME NEW c \in Conn, Step(c)
      PROVE  \/ Published' = Published /\ Seen' = Seen
             \/ uid[c] \in users /\ pc'[c] # pc[c] /\ ActsFor(uid[c])
  BY <1>3, <1>4, <1>6, StepActs
<1> HIDE DEF actors
<1>7. CASE \E c \in Conn : Step(c)
  <2>1. CASE Published' = Published /\ Seen' = Seen
    BY <2>1
  <2> QED
    BY <1>2, <1>6, <1>7, <2>1 DEF actors
<1> QED
  BY <1>5, <1>7, <1>1 DEF Next, actors

(* Songs are published, withdrawn and shown by sessions of their owner     *)
(* only, and hidden from a viewer by sessions of the owner or the viewer   *)
(* (OnlyOwnersPublish).                                                    *)
THEOREM OwnersAlwaysPublish == Spec => OnlyOwnersPublish
<1>1. DbSpec => []DbInv
  BY DatabaseInvariant
<1>2. TypeInv /\ DbInv /\ [Next]_vars =>
        [LET actors == {uid[c] : c \in {d \in Conn : pc'[d] # pc[d]}}
         IN  /\ \A s \in (Published \ Published') \cup (Published' \ Published) : s[1] \in actors
             /\ \A v \in Seen' \ Seen : v[2] \in actors
             /\ \A v \in Seen \ Seen' : {v[1], v[2]} \cap actors # {}]_vars
  BY NextByOwners
<1> QED
  BY <1>1, <1>2, TypesAlwaysHold, SessionsImplementDatabase, PTL DEF Spec, OnlyOwnersPublish
=============================================================================
