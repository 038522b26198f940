----------------------------- MODULE StoreProofs -----------------------------
(***************************************************************************)
(* The files under files_root and the tables, for every number of          *)
(* connections, users, names and files, and every bound.  Each theorem     *)
(* names the failures it excludes; whatever else fails, it holds.  The     *)
(* theorems of Spec are about any clients; in those of DisciplinedSpec no  *)
(* two sessions upload to one path at a time, which is for the clients to  *)
(* see to: the server does not.                                            *)
(*                                                                         *)
(* The steps of Sessions are first sorted into the eight ways in which     *)
(* they touch streams and files; an invariant is then shown to be kept by  *)
(* each of the eight.                                                      *)
(***************************************************************************)
EXTENDS SessionsProofs

(* username_from_id and does_file_exist answer what the tables say.        *)
Answered == {"username", "exists"} \cap Faults = {}

SongIn(p) == FileExists(p[1], p[2])

-----------------------------------------------------------------------------
(* The invariants, from the weakest hypotheses to the strongest. *)

(* Whatever fails: only an upload and a get hold a stream, no file has two *)
(* paths, a file that is neither linked nor open holds nothing, and a      *)
(* connection that has not read a size has received nothing.               *)
StreamsHeld == \A c \in Conn : ino[c] # None => Uploading(c) \/ pc[c] = "sending"
OneLink == \A p, q \in Path : disk[p] = disk[q] /\ disk[p] # None => p = q
FreeEmpty == \A i \in Inode : i \in InUse(disk, ino) \/ content[i] = <<>>
Fresh == \A c \in Conn : pc[c] \in {"header", "size"} => job[c].got = 0

StreamsInv == StreamsHeld /\ OneLink /\ FreeEmpty /\ Fresh

(* Also whatever fails: an upload writes below the directory of username,  *)
(* the file it writes is linked to no path but its own, and two uploads    *)
(* that write one file have one path.                                      *)
PathsOwn == \A c \in Conn : Uploading(c) => job[c].path[1] = uname[c]
WritesOwn ==
  \A c \in Conn : Uploading(c) /\ ino[c] # None =>
    \A p \in Path : disk[p] = ino[c] => p = job[c].path
OnePath ==
  \A c, d \in Conn : Uploading(c) /\ Uploading(d) /\ ino[c] # None /\ ino[c] = ino[d] =>
    job[c].path = job[d].path

PathsInv == PathsOwn /\ WritesOwn /\ OnePath

(* When username_from_id does not fail, username is the user's.            *)
Named == \A c \in Conn : uid[c] # None => uname[c] = uid[c]

(* For clients of DisciplinedSpec, with Answered: an upload writes below   *)
(* the directory of its user, to a path no song has and no other upload    *)
(* has, and to the file linked there.                                      *)
UploadsNew ==
  \A c \in Conn : Uploading(c) =>
    /\ job[c].path[1] = uid[c]
    /\ ~SongIn(job[c].path)
    /\ ino[c] \in {None, disk[job[c].path]}
Apart ==
  \A c, d \in Conn : c # d /\ Uploading(c) /\ Uploading(d) => job[c].path # job[d].path

UploadsInv == Named /\ UploadsNew /\ Apart

(* When no open fails, what is uploaded is linked, and so is what is       *)
(* logged, unless the user has no directory.                               *)
UploadsLinked == \A c \in Conn : Uploading(c) /\ uid[c] \in dirs => disk[job[c].path] # None

RowsLinked == \A p \in Path : SongIn(p) /\ p[1] \in dirs => disk[p] # None

LinksInv == UploadsLinked /\ RowsLinked

(* When no open and no write fails, the file of an upload holds the bytes  *)
(* received so far, and a logged file is complete.                         *)
UploadsOpen == \A c \in Conn : Uploading(c) /\ uid[c] \in dirs => ino[c] # None
BytesSoFar ==
  \A c \in Conn : Uploading(c) /\ ino[c] # None =>
    content[ino[c]] = [i \in 1 .. job[c].got |-> [by |-> c, of |-> job[c].size]]
SongsWhole ==
  \A p \in Path : SongIn(p) /\ p[1] \in dirs /\ disk[p] # None => Whole(content[disk[p]], Extra # 0)

BytesInv == UploadsOpen /\ BytesSoFar /\ SongsWhole

(* When no open and no unlink fails, what is sent is a song, or has no     *)
(* path any more.                                                          *)
SentSongs ==
  \A c \in Conn : pc[c] = "sending" => \A p \in Path : disk[p] = ino[c] => SongIn(p)

SentInv == SentSongs /\ SentAsAnnounced

-----------------------------------------------------------------------------
(* The ways in which a step touches streams and files. *)

(* No stream, no file: the connection c moves on.  *)
Settles(c) ==
  /\ UNCHANGED <<users, files, ino, dirs, disk, content>>
  /\ ~Uploading(c) /\ pc[c] # "sending"
  /\ \E where \in {"request", "welcome", "goodbye", "header"} : pc' = [pc EXCEPT ![c] = where]
  /\ \A d \in Conn \ {c} : job'[d] = job[d] /\ uid'[d] = uid[d] /\ uname'[d] = uname[d]
  /\ pc'[c] = "header" => job'[c].got = 0
  /\ \/ uid'[c] = uid[c] /\ uname'[c] = uname[c]
     \/ uname'[c] = uid'[c] \/ "username" \in Faults

(* The next part of a song goes out. *)
Sends(c) ==
  /\ UNCHANGED <<users, files, pc, uid, uname, ino, dirs, disk, content>>
  /\ pc[c] = "sending" /\ ino[c] # None
  /\ \A d \in Conn \ {c} : job'[d] = job[d]
  /\ job'[c].size = job[c].size /\ job'[c].got <= Len(content[ino[c]])

(* Connections end; songs may be removed with their files. *)
Ends ==
  /\ Down \/ \E c \in Conn, where \in {"off", "abandoned"} : Leave(c, where)
  /\ files' \subseteq files
  /\ \A u \in users : u \in dirs' <=> u \in dirs
  /\ \A p \in Path : disk'[p] \in {disk[p], None}
  /\ Named => \A p \in Path :
       /\ disk'[p] # disk[p] => SongIn(p) /\ ~SongIn(p)'
       /\ SongIn(p) /\ ~SongIn(p)' => disk'[p] = None \/ Down \/ "unlink" \in Faults

(* An upload to p starts, to the file i or, with None, to no file. *)
Heads(c, p, i) ==
  /\ UNCHANGED <<users, files, uid, uname, dirs>>
  /\ pc[c] = "header" /\ pc' = [pc EXCEPT ![c] = "size"]
  /\ \A d \in Conn \ {c} : job'[d] = job[d]
  /\ job'[c].path = p /\ job'[c].got = job[c].got
  /\ p[1] = uname[c]
  /\ uname[c] = uid[c] => ~SongIn(p) \/ "exists" \in Faults
  /\ ino' = [ino EXCEPT ![c] = i]
  /\ \/ /\ i = None /\ (p[1] \notin dirs \/ "open" \in Faults)
        /\ UNCHANGED <<disk, content>>
     \/ /\ i \in Inode /\ p[1] \in dirs
        /\ disk[p] = i \/ (disk[p] = None /\ i \notin InUse(disk, ino))
        /\ disk' = [disk EXCEPT ![p] = i]
        /\ content' = [content EXCEPT ![i] = <<>>]

(* k bytes of an upload are written after those received. *)
Takes(c, s, k, bytes) ==
  /\ Uploading(c)
  /\ pc[c] = "data" => s = job[c].size
  /\ bytes = Written(c, job[c].got, k, [by |-> c, of |-> s])

Grows(c, s, k, bytes) ==
  /\ Takes(c, s, k, bytes)
  /\ UNCHANGED <<users, files, uid, uname, ino, dirs, disk>>
  /\ content' = bytes
  /\ pc' = [pc EXCEPT ![c] = "data"]
  /\ \A d \in Conn \ {c} : job'[d] = job[d]
  /\ job'[c].path = job[c].path /\ job'[c].size = s /\ job'[c].got = job[c].got + k

(* The last of them: the song is logged, if nothing fails. *)
Logs(c, s, k, bytes) ==
  /\ Takes(c, s, k, bytes)
  /\ job[c].got + k >= s /\ (Extra = 0 => job[c].got + k = s)
  /\ FileReceived(c, bytes)

(* A song is opened and announced. *)
Serves(c, p) ==
  /\ UNCHANGED <<users, files, uid, uname, dirs, disk>>
  /\ ~Uploading(c) /\ pc' = [pc EXCEPT ![c] = "sending"]
  /\ \A d \in Conn \ {c} : job'[d] = job[d]
  /\ disk[p] \in Inode /\ SongIn(p)
  /\ job'[c].size = Len(content[disk[p]]) /\ job'[c].got = 0
  /\ ino' = [ino EXCEPT ![c] = disk[p]] \/ ("open" \in Faults /\ ino' = [ino EXCEPT ![c] = None])
  /\ content' = Reclaimed(content)

(* What a step of c amounts to. *)
Touches(c) ==
  \/ Settles(c) \/ Sends(c) \/ Ends
  \/ \E p \in Path, i \in Inode \cup {None} : Heads(c, p, i)
  \/ \E s \in Nat, k \in Nat, bytes \in [Inode -> Seq(Byte)] :
       Grows(c, s, k, bytes) \/ Logs(c, s, k, bytes)
  \/ \E p \in Path : Serves(c, p)
  \/ StreamBreaks(c)
LEMMA QuietEnds ==
  ASSUME TypeInv, UNCHANGED <<files, dirs, disk>>,
         Down \/ \E c \in Conn, where \in {"off", "abandoned"} : Leave(c, where)
  PROVE  Ends
  BY DEF Ends, SongIn, FileExists

LEMMA RegisterEnds ==
  ASSUME NEW c \in Conn, NEW u \in User, TypeInv, UserRegister(c, u) \/ UserRegisterCut(c, u)
  PROVE  Ends
<1>1. /\ UNCHANGED <<files, disk>>
      /\ u \notin users
      /\ dirs' = dirs \/ dirs' = dirs \cup {u}
      /\ Down \/ \E where \in {"off", "abandoned"} : Leave(c, where)
  BY DEF UserRegister, UserRegisterCut, TryRegister, Escapes, Finish
<1> QED
  BY <1>1 DEF Ends, SongIn, FileExists

(* Songs of a user are deleted, and files at their paths are unlinked.     *)
LEMMA RemovalEnds ==
  ASSUME NEW c \in Conn, TypeInv, LoggedIn(c), NEW done, NEW removed \in SUBSET done,
         files' = DeleteFiles(uid[c], done), dirs' = dirs,
         \A n \in removed : FileExists(uid[c], n),
         disk' = Unlinked({uname[c]} \X removed),
         Down \/ \E where \in {"off", "abandoned"} : Leave(c, where),
         Down \/ "unlink" \in Faults \/ \A n \in done : FileExists(uid[c], n) => n \in removed
  PROVE  Ends
<1>1. files' \subseteq files
  BY DEF DeleteFiles
<1>2. \A p \in Path : disk'[p] \in {disk[p], None}
  BY DEF Unlinked
<1>3. ASSUME Named, NEW p \in Path
      PROVE  /\ disk'[p] # disk[p] => SongIn(p) /\ ~SongIn(p)'
             /\ SongIn(p) /\ ~SongIn(p)' => disk'[p] = None \/ Down \/ "unlink" \in Faults
  <2>1. uname[c] = uid[c]
    BY <1>3 DEF Named, LoggedIn
  <2>2. p = <<p[1], p[2]>>
    BY DEF Path
  <2>3. disk'[p] = IF p[1] = uid[c] /\ p[2] \in removed THEN None ELSE disk[p]
    BY <2>1, <2>2 DEF Unlinked
  <2>4. SongIn(p)' <=> SongIn(p) /\ ~(p[1] = uid[c] /\ p[2] \in done)
    BY DEF SongIn, FileExists, DeleteFiles
  <2> QED
    BY <2>3, <2>4 DEF SongIn
<1> QED
  BY <1>1, <1>2, <1>3 DEF Ends

LEMMA RemoveRequestEnds ==
  ASSUME NEW c \in Conn, NEW own \in SUBSET Name, NEW dropped \in SUBSET (User \X Name), TypeInv,
         \/ RemoveRequest(c, own, dropped)
         \/ \E last \in Name : RemoveRequestCut(c, own, last, dropped)
  PROVE  Ends
<1>1. CASE RemoveRequest(c, own, dropped)
  <2>1. PICK done \in Effective(own, "remove") :
          files' = DeleteFiles(uid[c], done) /\ disk' = Unlinked({uname[c]} \X Deleted(uid[c], done))
    BY <1>1 DEF RemoveRequest, RemoveFiles
  <2>2. LoggedIn(c) /\ dirs' = dirs /\ Leave(c, "abandoned")
    BY <1>1 DEF RemoveRequest
  <2> DEFINE removed == Deleted(uid[c], done)
  <2>3. removed \in SUBSET done /\ \A n \in done : FileExists(uid[c], n) <=> n \in removed
    BY DEF Deleted
  <2> HIDE DEF removed
  <2> QED
    BY <2>1, <2>2, <2>3, RemovalEnds DEF removed
<1>2. ASSUME NEW last \in Name, RemoveRequestCut(c, own, last, dropped)
      PROVE  Ends
  <2>1. /\ LoggedIn(c) /\ files' = DeleteFiles(uid[c], own) /\ dirs' = dirs
        /\ disk' = Unlinked({uname[c]} \X Deleted(uid[c], own \ {last}))
        /\ Down \/ ("unlink" \in Faults /\ Leave(c, "off"))
    BY <1>2 DEF RemoveRequestCut, RemoveFiles, Escapes, Finish
  <2> DEFINE removed == Deleted(uid[c], own \ {last})
  <2>2. removed \in SUBSET own /\ \A n \in removed : FileExists(uid[c], n)
    BY DEF Deleted
  <2> HIDE DEF removed
  <2> QED
    BY <2>1, <2>2, RemovalEnds DEF removed
<1> QED
  BY <1>1, <1>2

LEMMA ShareRequestEnds ==
  ASSUME NEW c \in Conn, NEW viewer \in User, NEW names \in SUBSET Name, TypeInv,
         ShareRequest(c, viewer, names) \/ RevokeRequest(c, viewer, names)
  PROVE  Ends
<1>1. UNCHANGED <<files, dirs, disk>> /\ Leave(c, "abandoned")
  BY DEF ShareRequest, RevokeRequest, ShareFiles, RevokeFiles
<1> QED
  BY <1>1, QuietEnds

LEMMA LoginSettles ==
  ASSUME NEW c \in Conn, NEW u \in User, TypeInv, UserLogin(c, u)
  PROVE  Settles(c)
<1>1. /\ UNCHANGED <<users, files, ino, job, dirs, disk, content>>
      /\ pc[c] = "request" /\ pc' = [pc EXCEPT ![c] = "welcome"]
      /\ uid' = [uid EXCEPT ![c] = u]
      /\ uname' = [uname EXCEPT ![c] = u]
           \/ ("username" \in Faults /\ uname' = [uname EXCEPT ![c] = uname[c]])
  BY DEF UserLogin, UsernameFromId, Goto, Requests, db, store
<1> QED
  BY <1>1 DEF Settles, Uploading, TypeInv, TypeOK

LEMMA WaitSettles ==
  ASSUME NEW c \in Conn, TypeInv, Connect(c) \/ Welcomed(c) \/ UserListFiles(c)
  PROVE  Settles(c)
<1>1. /\ UNCHANGED <<users, files, uid, uname, ino, job, dirs, disk, content>>
      /\ pc[c] \in {"off", "abandoned", "welcome", "request"}
      /\ pc' = [pc EXCEPT ![c] = "request"] \/ pc' = [pc EXCEPT ![c] = "goodbye"]
  BY DEF Connect, Welcomed, UserListFiles, Goto, Requests, db, store, session
<1> QED
  BY <1>1 DEF Settles, Uploading, TypeInv, TypeOK

LEMMA AddFilesTouches ==
  ASSUME NEW c \in Conn, NEW n \in 0 .. MaxFiles, TypeInv, StartAddFiles(c, n)
  PROVE  Settles(c) \/ Ends
<1>1. CASE n = 0
  <2>1. UNCHANGED <<files, dirs, disk>> /\ Leave(c, "off")
    BY <1>1 DEF StartAddFiles, Finish, db
  <2> QED
    BY <2>1, QuietEnds
<1>2. CASE n > 0
  <2> DEFINE j == [NoJob EXCEPT !.left = n]
  <2>1. /\ UNCHANGED <<users, files, uid, uname, ino, dirs, disk, content>>
        /\ pc[c] = "request" /\ pc' = [pc EXCEPT ![c] = "header"]
        /\ job' = [job EXCEPT ![c] = j]
    BY <1>2 DEF StartAddFiles, Goto, Execute, LoggedIn, Requests, db, store, session
  <2>2. j.got = 0
    BY DEF NoJob
  <2> HIDE DEF j
  <2> QED
    BY <2>1, <2>2 DEF Settles, Uploading, TypeInv, TypeOK
<1> QED
  BY <1>1, <1>2 DEF StartAddFiles

LEMMA HeaderTouches ==
  ASSUME NEW c \in Conn, NEW n \in Name, TypeInv, StreamsInv, GetFileHeader(c, n)
  PROVE  \E p \in Path, i \in Inode \cup {None} : Heads(c, p, i)
<1> DEFINE p == <<uname[c], n>>
           j == [job[c] EXCEPT !.path = p]
<1>1. p \in Path /\ p[1] = uname[c] /\ p[2] = n /\ job[c] \in Job
  BY DEF TypeInv, TypeOK, Path
<1>2. j.path = p /\ j.got = job[c].got
  BY <1>1 DEF Job
<1>3. /\ job' = [job EXCEPT ![c] = j] /\ pc' = [pc EXCEPT ![c] = "size"]
      /\ UNCHANGED <<users, files, uid, uname, dirs>>
      /\ pc[c] = "header"
      /\ OpenForWriting(c, p)
      /\ FALSE \in DoesFileExist(uid[c], n)
  BY DEF GetFileHeader, Execute, Goto, db, session
<1>4. ~FileExists(uid[c], n) \/ "exists" \in Faults
  BY <1>3 DEF DoesFileExist, Answers
<1>5. ino[c] = None
  BY <1>3 DEF StreamsInv, StreamsHeld, Uploading
<1>6. uname[c] = uid[c] => ~SongIn(p) \/ "exists" \in Faults
  BY <1>1, <1>4 DEF SongIn
<1> HIDE DEF p, j
<1>7. /\ job'[c].path = p /\ job'[c].got = job[c].got
      /\ \A d \in Conn \ {c} : job'[d] = job[d]
  BY <1>2, <1>3 DEF TypeInv, TypeOK
<1>8. ASSUME NEW i \in Inode \cup {None}, ino' = [ino EXCEPT ![c] = i],
             \/ /\ i = None /\ (p[1] \notin dirs \/ "open" \in Faults)
                /\ UNCHANGED <<disk, content>>
             \/ /\ i \in Inode /\ p[1] \in dirs
                /\ disk[p] = i \/ (disk[p] = None /\ i \notin InUse(disk, ino))
                /\ disk' = [disk EXCEPT ![p] = i]
                /\ content' = [content EXCEPT ![i] = <<>>]
      PROVE  Heads(c, p, i)
  BY <1>1, <1>3, <1>6, <1>7, <1>8 DEF Heads
<1>9. CASE (p[1] \notin dirs \/ "open" \in Faults) /\ UNCHANGED <<disk, ino, content>>
  <2>1. ino' = [ino EXCEPT ![c] = None]
    BY <1>5, <1>9 DEF TypeInv, TypeOK
  <2> QED
    BY <1>1, <1>8, <1>9, <2>1
<1>10. CASE /\ p[1] \in dirs /\ disk[p] # None /\ Open(c, disk[p])
            /\ content' = [content EXCEPT ![disk[p]] = <<>>] /\ UNCHANGED disk
  <2>1. disk[p] \in Inode /\ disk' = [disk EXCEPT ![p] = disk[p]]
    BY <1>1, <1>10 DEF TypeInv, TypeOK
  <2> QED
    BY <1>1, <1>8, <1>10, <2>1 DEF Open
<1>11. CASE /\ p[1] \in dirs /\ disk[p] = None
            /\ Inode \ InUse(disk, ino) # {}
            /\ LET new == CHOOSE i \in Inode : i \notin InUse(disk, ino)
               IN  Open(c, new) /\ disk' = [disk EXCEPT ![p] = new]
            /\ UNCHANGED content
  <2> DEFINE new == CHOOSE i \in Inode : i \notin InUse(disk, ino)
  <2>1. new \in Inode /\ new \notin InUse(disk, ino)
    BY <1>11
  <2>2. Open(c, new) /\ disk' = [disk EXCEPT ![p] = new]
    BY <1>11
  <2> HIDE DEF new
  <2>3. content' = [content EXCEPT ![new] = <<>>]
    <3>1. content[new] = <<>>
      BY <2>1 DEF StreamsInv, FreeEmpty
    <3> QED
      BY <1>11, <2>1, <3>1 DEF TypeInv, TypeOK
  <2> QED
    BY <1>1, <1>8, <1>11, <2>1, <2>2, <2>3 DEF Open
<1> QED
  BY <1>3, <1>9, <1>10, <1>11 DEF OpenForWriting

LEMMA TakeTouches ==
  ASSUME NEW c \in Conn, NEW s \in Nat, NEW k \in Nat, NEW bytes \in [Inode -> Seq(Byte)],
         TypeInv, Takes(c, s, k, bytes),
         \/ MoreToCome(c, bytes, s, job[c].got + k)
         \/ /\ job[c].got + k >= s /\ (Extra = 0 => job[c].got + k = s)
            /\ FileReceived(c, bytes)
  PROVE  Grows(c, s, k, bytes) \/ Logs(c, s, k, bytes)
<1>1. CASE MoreToCome(c, bytes, s, job[c].got + k)
  <2> DEFINE got == job[c].got + k
             j == [job[c] EXCEPT !.size = s, !.got = got]
  <2>1. job[c] \in Job /\ j.size = s /\ j.got = got /\ j.path = job[c].path
    BY DEF TypeInv, TypeOK, Job
  <2>2. /\ content' = bytes /\ job' = [job EXCEPT ![c] = j] /\ pc' = [pc EXCEPT ![c] = "data"]
        /\ UNCHANGED <<users, files, uid, uname, ino, dirs, disk>>
    BY <1>1 DEF MoreToCome, Goto, Execute, db, session
  <2> HIDE DEF j
  <2> QED
    BY <2>1, <2>2 DEF Grows, TypeInv, TypeOK
<1>2. CASE ~MoreToCome(c, bytes, s, job[c].got + k)
  BY <1>2 DEF Logs
<1> QED
  BY <1>1, <1>2

LEMMA GetFileSizeTouches ==
  ASSUME NEW c \in Conn, NEW s \in 0 .. MaxSize, NEW k \in 0 .. MaxSize + Extra, TypeInv,
         StreamsInv, GetFileSize(c, s, k)
  PROVE  \E bytes \in [Inode -> Seq(Byte)] : Grows(c, s, k, bytes) \/ Logs(c, s, k, bytes)
<1> DEFINE bytes == Written(c, 0, k, [by |-> c, of |-> s])
<1>1. /\ s \in Nat /\ k \in Nat /\ Uploading(c) /\ [by |-> c, of |-> s] \in Byte
      /\ pc[c] = "size" /\ k <= s + Extra
  BY SessionsAssumption DEF GetFileSize, Uploading, Byte
<1>2. bytes \in [Inode -> Seq(Byte)]
  BY <1>1, WrittenType
<1>3. job[c].got = 0
  BY <1>1 DEF StreamsInv, Fresh
<1>4. Takes(c, s, k, bytes)
  BY <1>1, <1>3 DEF Takes
<1>5. \/ k < s /\ MoreToCome(c, bytes, s, k)
      \/ k >= s /\ FileReceived(c, bytes)
  BY DEF GetFileSize
<1> HIDE DEF bytes
<1>6. 0 + k = k /\ (Extra = 0 /\ k >= s => k = s)
  BY <1>1
<1> QED
  BY <1>1, <1>2, <1>3, <1>4, <1>5, <1>6, TakeTouches

LEMMA AddFileDataTouches ==
  ASSUME NEW c \in Conn, NEW k \in 1 .. MaxSize + Extra, TypeInv, AddFileData(c, k)
  PROVE  \E s \in Nat, bytes \in [Inode -> Seq(Byte)] :
           Grows(c, s, k, bytes) \/ Logs(c, s, k, bytes)
<1> DEFINE s == job[c].size
           bytes == Written(c, job[c].got, k, [by |-> c, of |-> s])
<1>1. /\ job[c].got \in Nat /\ s \in Nat /\ k \in Nat /\ Uploading(c)
      /\ [by |-> c, of |-> s] \in Byte
  BY SessionsAssumption DEF AddFileData, Uploading, Byte, TypeInv, TypeOK, Job
<1>2. bytes \in [Inode -> Seq(Byte)]
  BY <1>1, WrittenType
<1>3. Takes(c, s, k, bytes)
  BY <1>1 DEF Takes
<1>4. \/ MoreToCome(c, bytes, s, job[c].got + k)
      \/ job[c].got + k = s /\ FileReceived(c, bytes)
  BY DEF AddFileData
<1> HIDE DEF bytes, s
<1> QED
  BY <1>1, <1>2, <1>3, <1>4, TakeTouches

LEMMA SendFilesTouches ==
  ASSUME NEW c \in Conn, NEW list \in Seq(Target), TypeInv, pc[c] \in {"request", "sending"},
         SendFiles(c, list)
  PROVE  Ends \/ \E p \in Path : Serves(c, p)
<1>1. CASE Finish(c)
  <2>1. UNCHANGED <<files, dirs, disk>> /\ Leave(c, "off")
    BY <1>1 DEF SendFiles, Finish, db
  <2> QED
    BY <2>1, QuietEnds
<1>2. CASE ~Finish(c)
  <2>1. PICK i \in 1 .. Len(list) :
          LET p == Located(c, list[i])
          IN  /\ TRUE \in Sendable(c, list[i])
              /\ Execute(c, [args |-> Rest(list, i), left |-> 1, path |-> p,
                             size |-> Len(content[disk[p]]), got |-> 0])
              /\ Open(c, disk[p]) \/ ("open" \in Faults /\ Open(c, None))
              /\ content' = Reclaimed(content)
              /\ Goto(c, "sending")
              /\ UNCHANGED session
    BY <1>2 DEF SendFiles
  <2> DEFINE p == Located(c, list[i])
             j == [args |-> Rest(list, i), left |-> 1, path |-> p,
                   size |-> Len(content[disk[p]]), got |-> 0]
  <2>2. list[i] \in Target
    OBVIOUS
  <2>3. p \in Path /\ disk[p] \in Inode /\ InLibrary(uid[c], p[1], p[2])
    BY <2>1, <2>2, LocatedType, SendableHasFile
  <2>4. SongIn(p)
    BY <2>3 DEF SongIn, InLibrary, FileExists
  <2>5. j.size = Len(content[disk[p]]) /\ j.got = 0
    OBVIOUS
  <2>6. /\ job' = [job EXCEPT ![c] = j] /\ pc' = [pc EXCEPT ![c] = "sending"]
        /\ ino' = [ino EXCEPT ![c] = disk[p]]
             \/ ("open" \in Faults /\ ino' = [ino EXCEPT ![c] = None])
        /\ content' = Reclaimed(content)
        /\ UNCHANGED <<users, files, uid, uname, dirs, disk>>
    BY <2>1 DEF SendFiles, Execute, Open, Goto, session, db
  <2> HIDE DEF p, j
  <2> QED
    BY <2>3, <2>4, <2>5, <2>6 DEF Serves, Uploading, TypeInv, TypeOK
<1> QED
  BY <1>1, <1>2

LEMMA SendFileTouches ==
  ASSUME NEW c \in Conn, TypeInv, SendFile(c)
  PROVE  Sends(c) \/ Ends \/ \E p \in Path : Serves(c, p)
<1>1. pc[c] = "sending" /\ job[c] \in Job /\ BufferSize \in Nat \ {0}
  BY SessionsAssumption DEF SendFile, TypeInv, TypeOK
<1>2. ASSUME NEW n \in Nat, n <= Unread(c), n > 0, NEW j,
             j.size = job[c].size, j.got = job[c].got + n, Execute(c, j),
             UNCHANGED <<db, pc, session, ino, store>>
      PROVE  Sends(c)
  <2>1. ino[c] # None /\ Unread(c) = Len(content[ino[c]]) - job[c].got
    BY <1>2 DEF Unread
  <2>2. Len(content[ino[c]]) \in Nat /\ job[c].got \in Nat
    BY <1>1, <2>1 DEF TypeInv, TypeOK, Job
  <2>3. job[c].got + n <= Len(content[ino[c]])
    BY <1>2, <2>1, <2>2
  <2> QED
    BY <1>1, <1>2, <2>1, <2>3 DEF Sends, Execute, TypeInv, TypeOK, db, session, store
<1>3. CASE /\ Unread(c) >= BufferSize
           /\ Execute(c, [job[c] EXCEPT !.got = @ + BufferSize])
           /\ UNCHANGED <<db, pc, session, ino, store>>
  <2> DEFINE j == [job[c] EXCEPT !.got = @ + BufferSize]
  <2>1. j.size = job[c].size /\ j.got = job[c].got + BufferSize
    BY <1>1 DEF Job
  <2> HIDE DEF j
  <2>2. Execute(c, j)
    BY <1>3 DEF j
  <2>3. Unread(c) \in Int
    BY <1>1 DEF Unread, TypeInv, TypeOK, Job
  <2>4. BufferSize <= Unread(c) /\ BufferSize > 0
    BY <1>1, <1>3, <2>3
  <2> QED
    BY <1>1, <1>2, <1>3, <2>1, <2>2, <2>4
<1>4. CASE /\ 0 < Unread(c)
           /\ Execute(c, [job[c] EXCEPT !.got = @ + Unread(c), !.left = 0])
           /\ UNCHANGED <<db, pc, session, ino, store>>
  <2> DEFINE j == [job[c] EXCEPT !.got = @ + Unread(c), !.left = 0]
  <2>1. j.size = job[c].size /\ j.got = job[c].got + Unread(c)
    BY <1>1 DEF Job
  <2> HIDE DEF j
  <2>2. Execute(c, j)
    BY <1>4 DEF j
  <2>3. Unread(c) \in Int
    BY <1>1 DEF Unread, TypeInv, TypeOK, Job
  <2>4. Unread(c) \in Nat /\ Unread(c) <= Unread(c) /\ Unread(c) > 0
    BY <1>4, <2>3
  <2> QED
    BY <1>2, <1>4, <2>1, <2>2, <2>4
<1>5. CASE SendFiles(c, job[c].args)
  BY <1>1, <1>5, SendFilesTouches DEF Job
<1> QED
  BY <1>3, <1>4, <1>5 DEF SendFile

(* Every step of a connection touches streams and files in one of the      *)
(* eight ways.                                                             *)
LEMMA StepTouches ==
  ASSUME NEW c \in Conn, TypeInv, StreamsInv, Step(c)
  PROVE  Touches(c)
<1>1. CASE Quiet(c)
  BY <1>1, QuietLeaves, QuietEnds DEF Touches, db
<1>2. CASE Connect(c) \/ Welcomed(c) \/ UserListFiles(c)
  BY <1>2, WaitSettles DEF Touches
<1>3. ASSUME NEW u \in User, UserLogin(c, u) \/ UserRegister(c, u) \/ UserRegisterCut(c, u)
      PROVE  Touches(c)
  BY <1>3, LoginSettles, RegisterEnds DEF Touches
<1>4. ASSUME NEW n \in 0 .. MaxFiles, StartAddFiles(c, n) PROVE Touches(c)
  BY <1>4, AddFilesTouches DEF Touches
<1>5. ASSUME NEW n \in Name, GetFileHeader(c, n) PROVE Touches(c)
  BY <1>5, HeaderTouches DEF Touches
<1>6. ASSUME NEW s \in 0 .. MaxSize, NEW k \in 0 .. MaxSize + Extra, GetFileSize(c, s, k)
      PROVE  Touches(c)
  <2>1. s \in Nat /\ k \in Nat
    BY SessionsAssumption
  <2> QED
    BY <1>6, <2>1, GetFileSizeTouches DEF Touches
<1>7. ASSUME NEW k \in 1 .. MaxSize + Extra, AddFileData(c, k) PROVE Touches(c)
  <2>1. k \in Nat
    BY SessionsAssumption
  <2> QED
    BY <1>7, <2>1, AddFileDataTouches DEF Touches
<1>8. ASSUME NEW list \in GetLists, StartSendFiles(c, list) PROVE Touches(c)
  BY <1>8, SendFilesTouches, SessionsAssumption DEF StartSendFiles, LoggedIn, Requests, Touches
<1>9. CASE SendFile(c)
  BY <1>9, SendFileTouches DEF Touches
<1>10. ASSUME NEW own \in SUBSET Name, NEW dropped \in SUBSET (User \X Name),
              \/ RemoveRequest(c, own, dropped)
              \/ \E last \in Name : RemoveRequestCut(c, own, last, dropped)
       PROVE  Touches(c)
  BY <1>10, RemoveRequestEnds DEF Touches
<1>11. ASSUME NEW viewer \in User, NEW names \in SUBSET Name,
              ShareRequest(c, viewer, names) \/ RevokeRequest(c, viewer, names)
       PROVE  Touches(c)
  BY <1>11, ShareRequestEnds DEF Touches
<1>12. CASE StreamBreaks(c)
  BY <1>12 DEF Touches
<1> QED
  BY <1>1, <1>2, <1>3, <1>4, <1>5, <1>6, <1>7, <1>8, <1>9, <1>10, <1>11, <1>12 DEF Step, Quiet
-----------------------------------------------------------------------------
(* Facts on the eight ways. *)

LEMMA ReclaimedKeeps ==
  ASSUME NEW f \in [Inode -> Seq(Byte)], NEW i \in Inode,
         (\E p \in Path : disk'[p] = i) \/ (\E c \in Conn : ino'[c] = i)
  PROVE  Reclaimed(f)[i] = f[i]
  BY DEF Reclaimed, InUse

LEMMA ReclaimedFree ==
  ASSUME NEW f \in [Inode -> Seq(Byte)], content' = Reclaimed(f)
  PROVE  FreeEmpty'
  BY DEF FreeEmpty, Reclaimed

(* A connection that an ending does not touch stays what it was.           *)
LEMMA EndsSessions ==
  ASSUME TypeInv, Ends, NEW d \in Conn
  PROVE  /\ content' = Reclaimed(content)
         /\ \/ UNCHANGED <<pc[d], uid[d], uname[d], ino[d], job[d]>> /\ ~Down
            \/ pc'[d] \in {"off", "abandoned"} /\ uid'[d] = None /\ ino'[d] = None
<1>1. CASE Down
  BY <1>1 DEF Down
<1>2. ASSUME ~Down, NEW c \in Conn, NEW where \in {"off", "abandoned"}, Leave(c, where)
      PROVE  /\ content' = Reclaimed(content)
             /\ \/ UNCHANGED <<pc[d], uid[d], uname[d], ino[d], job[d]>>
                \/ pc'[d] \in {"off", "abandoned"} /\ uid'[d] = None /\ ino'[d] = None
  <2>1. CASE d = c
    BY <1>2, <2>1 DEF Leave, Goto, Open, TypeInv, TypeOK
  <2>2. CASE d # c
    BY <1>2, <2>2 DEF Leave, Goto, Open, Execute, TypeInv, TypeOK
  <2> QED
    BY <1>2, <2>1, <2>2 DEF Leave
<1> QED
  BY <1>1, <1>2 DEF Ends

LEMMA WrittenElsewhere ==
  ASSUME NEW c \in Conn, NEW pos \in Nat, NEW k \in Nat, NEW byte \in Byte, TypeInv,
         NEW i \in Inode, i # ino[c]
  PROVE  Written(c, pos, k, byte)[i] = content[i]
<1>1. CASE ino[c] = None \/ k = 0
  BY <1>1 DEF Written
<1>2. CASE ~(ino[c] = None \/ k = 0)
  <2>1. Written(c, pos, k, byte) =
          [content EXCEPT ![ino[c]] = Overwrite(content[ino[c]], pos, k, byte)]
    BY <1>2 DEF Written
  <2> QED
    BY <2>1 DEF TypeInv, TypeOK
<1> QED
  BY <1>1, <1>2

LEMMA TakesElsewhere ==
  ASSUME NEW c \in Conn, NEW s \in Nat, NEW k \in Nat, NEW bytes, TypeInv,
         Takes(c, s, k, bytes), NEW i \in Inode, i # ino[c]
  PROVE  bytes[i] = content[i]
<1>1. [by |-> c, of |-> s] \in Byte /\ job[c].got \in Nat
  BY DEF Byte, TypeInv, TypeOK, Job
<1> QED
  BY <1>1, WrittenElsewhere DEF Takes

(* What is left of the connection by file.close() and add_files.           *)
LEMMA LogsSessions ==
  ASSUME NEW c \in Conn, NEW s \in Nat, NEW k \in Nat, NEW bytes, TypeInv, Logs(c, s, k, bytes)
  PROVE  /\ UNCHANGED <<users, dirs, disk>>
         /\ content' = Reclaimed(bytes)
         /\ Uploading(c) /\ ino' = [ino EXCEPT ![c] = None]
         /\ \A d \in Conn \ {c} : /\ pc'[d] = pc[d] /\ job'[d] = job[d]
                                  /\ uid'[d] = uid[d] /\ uname'[d] = uname[d]
         /\ \/ pc'[c] = "off" /\ uid'[c] = None
            \/ /\ pc'[c] = "header" /\ job'[c].got = 0
               /\ uid'[c] = uid[c] /\ uname'[c] = uname[c]
<1>1. /\ UNCHANGED <<users, dirs, disk>>
      /\ content' = Reclaimed(bytes)
      /\ Uploading(c) /\ ino' = [ino EXCEPT ![c] = None]
  BY DEF Logs, Takes, FileReceived, Open, AddFile
<1>2. CASE /\ Goto(c, "off") /\ Execute(c, NoJob)
           /\ uid' = [uid EXCEPT ![c] = None] /\ uname' = [uname EXCEPT ![c] = None]
  BY <1>1, <1>2 DEF Goto, Execute, TypeInv, TypeOK
<1>3. CASE /\ Goto(c, "header") /\ Execute(c, [NoJob EXCEPT !.left = job[c].left - 1])
           /\ UNCHANGED session
  <2> DEFINE j == [NoJob EXCEPT !.left = job[c].left - 1]
  <2>1. j.got = 0
    BY DEF NoJob
  <2>2. /\ pc' = [pc EXCEPT ![c] = "header"] /\ job' = [job EXCEPT ![c] = j]
        /\ uid' = uid /\ uname' = uname
    BY <1>3 DEF Goto, Execute, session
  <2> HIDE DEF j
  <2> QED
    BY <1>1, <2>1, <2>2 DEF TypeInv, TypeOK
<1> QED
  BY <1>2, <1>3 DEF Logs, FileReceived

(* The stream goes bad and nothing else changes.                           *)
LEMMA BreaksStream ==
  ASSUME NEW c \in Conn, TypeInv, StreamBreaks(c)
  PROVE  /\ UNCHANGED <<users, files, pc, uid, uname, job, dirs, disk>>
         /\ Uploading(c) /\ "write" \in Faults
         /\ ino' = [ino EXCEPT ![c] = None] /\ content' = Reclaimed(content)
  BY DEF StreamBreaks, Open, db, session

-----------------------------------------------------------------------------
(* Whatever fails. *)

LEMMA InitStreams == Init => StreamsInv
  BY DEF Init, StreamsInv, StreamsHeld, OneLink, FreeEmpty, Fresh

LEMMA EndsStreams ==
  ASSUME TypeInv, StreamsInv, Ends
  PROVE  StreamsInv'
<1>1. StreamsHeld'
  <2> SUFFICES ASSUME NEW c \in Conn, ino'[c] # None PROVE Uploading(c)' \/ pc'[c] = "sending"
    BY DEF StreamsHeld
  <2>1. pc'[c] = pc[c] /\ ino'[c] = ino[c]
    BY EndsSessions
  <2> QED
    BY <2>1 DEF StreamsInv, StreamsHeld, Uploading
<1>2. OneLink'
  BY DEF Ends, StreamsInv, OneLink
<1>3. FreeEmpty'
  <2>1. content' = Reclaimed(content)
    BY DEF Ends, Down, Leave
  <2> QED
    BY <2>1, ReclaimedFree DEF TypeInv, TypeOK
<1>4. Fresh'
  <2> SUFFICES ASSUME NEW c \in Conn, pc'[c] \in {"header", "size"} PROVE job'[c].got = 0
    BY DEF Fresh
  <2>1. pc'[c] = pc[c] /\ job'[c] = job[c]
    BY EndsSessions
  <2> QED
    BY <2>1 DEF StreamsInv, Fresh
<1> QED
  BY <1>1, <1>2, <1>3, <1>4 DEF StreamsInv

LEMMA HeadsStreams ==
  ASSUME NEW c \in Conn, NEW p \in Path, NEW i \in Inode \cup {None}, TypeInv, StreamsInv,
         Heads(c, p, i)
  PROVE  StreamsInv'
<1> USE SessionsAssumption
<1>1. ino[c] = None
  BY DEF Heads, StreamsInv, StreamsHeld, Uploading
<1>2. StreamsHeld' /\ Fresh'
  BY DEF Heads, StreamsInv, StreamsHeld, Fresh, Uploading, TypeInv, TypeOK
<1>3. CASE i = None
  <2>1. UNCHANGED <<disk, ino, content>>
    BY <1>1, <1>3 DEF Heads, TypeInv, TypeOK
  <2> QED
    BY <1>2, <2>1 DEF StreamsInv, OneLink, FreeEmpty, InUse
<1>4. CASE i # None
  <2>1. /\ disk[p] = i \/ (disk[p] = None /\ i \notin InUse(disk, ino))
        /\ disk' = [disk EXCEPT ![p] = i] /\ content' = [content EXCEPT ![i] = <<>>]
        /\ ino' = [ino EXCEPT ![c] = i]
    BY <1>4 DEF Heads
  <2>2. OneLink'
    BY <2>1 DEF StreamsInv, OneLink, InUse, TypeInv, TypeOK
  <2>3. ASSUME NEW j \in Inode, j \in InUse(disk, ino) PROVE j \in InUse(disk', ino')
    <3>1. CASE \E q \in Path : j = disk[q]
      BY <2>1, <3>1 DEF InUse, TypeInv, TypeOK
    <3>2. CASE \E d \in Conn : j = ino[d]
      BY <1>1, <2>1, <3>2 DEF InUse, TypeInv, TypeOK
    <3> QED
      BY <2>3, <3>1, <3>2 DEF InUse
  <2>4. FreeEmpty'
    BY <2>1, <2>3 DEF StreamsInv, FreeEmpty, TypeInv, TypeOK
  <2> QED
    BY <1>2, <2>2, <2>4 DEF StreamsInv
<1> QED
  BY <1>3, <1>4

LEMMA TouchesStreams ==
  ASSUME NEW c \in Conn, TypeInv, StreamsInv, Touches(c)
  PROVE  StreamsInv'
<1> USE SessionsAssumption
<1>1. CASE Settles(c)
  <2>1. StreamsHeld' /\ Fresh'
    BY <1>1 DEF Settles, StreamsInv, StreamsHeld, Fresh, Uploading, TypeInv, TypeOK
  <2> QED
    BY <1>1, <2>1 DEF Settles, StreamsInv, OneLink, FreeEmpty, InUse
<1>2. CASE Sends(c)
  <2>1. Fresh'
    BY <1>2 DEF Sends, StreamsInv, Fresh
  <2> QED
    BY <1>2, <2>1 DEF Sends, StreamsInv, StreamsHeld, OneLink, FreeEmpty, InUse, Uploading
<1>3. CASE Ends
  BY <1>3, EndsStreams
<1>4. CASE \E p \in Path, i \in Inode \cup {None} : Heads(c, p, i)
  BY <1>4, HeadsStreams
<1>5. ASSUME NEW s \in Nat, NEW k \in Nat, NEW bytes \in [Inode -> Seq(Byte)],
             Grows(c, s, k, bytes)
      PROVE  StreamsInv'
  <2>1. StreamsHeld' /\ Fresh' /\ OneLink'
    BY <1>5 DEF Grows, Takes, StreamsInv, StreamsHeld, Fresh, OneLink, Uploading, TypeInv, TypeOK
  <2>2. ASSUME NEW i \in Inode, i \notin InUse(disk, ino) PROVE content'[i] = <<>>
    <3>1. i # ino[c]
      BY <2>2 DEF InUse
    <3>2. Takes(c, s, k, bytes)
      BY <1>5 DEF Grows
    <3>3. bytes[i] = content[i]
      BY <3>1, <3>2, TakesElsewhere
    <3> QED
      BY <1>5, <2>2, <3>3 DEF Grows, StreamsInv, FreeEmpty
  <2> QED
    BY <1>5, <2>1, <2>2 DEF StreamsInv, FreeEmpty, Grows, InUse
<1>6. ASSUME NEW s \in Nat, NEW k \in Nat, NEW bytes \in [Inode -> Seq(Byte)],
             Logs(c, s, k, bytes)
      PROVE  StreamsInv'
  <2>1. /\ UNCHANGED disk /\ content' = Reclaimed(bytes) /\ ino' = [ino EXCEPT ![c] = None]
        /\ \A d \in Conn \ {c} : pc'[d] = pc[d] /\ job'[d] = job[d]
        /\ pc'[c] = "off" \/ (pc'[c] = "header" /\ job'[c].got = 0)
    BY <1>6, LogsSessions
  <2>2. StreamsHeld' /\ Fresh' /\ OneLink'
    BY <2>1 DEF StreamsInv, StreamsHeld, Fresh, OneLink, Uploading, TypeInv, TypeOK
  <2> QED
    BY <2>1, <2>2, ReclaimedFree DEF StreamsInv
<1>7. ASSUME NEW p \in Path, Serves(c, p) PROVE StreamsInv'
  <2>1. StreamsHeld' /\ Fresh' /\ OneLink'
    BY <1>7 DEF Serves, StreamsInv, StreamsHeld, Fresh, OneLink, Uploading, TypeInv, TypeOK
  <2> QED
    BY <1>7, <2>1, ReclaimedFree DEF Serves, StreamsInv, TypeInv, TypeOK
<1>8. CASE StreamBreaks(c)
  <2>1. /\ UNCHANGED <<pc, job, disk>>
        /\ ino' = [ino EXCEPT ![c] = None] /\ content' = Reclaimed(content)
    BY <1>8, BreaksStream
  <2>2. StreamsHeld' /\ Fresh' /\ OneLink'
    BY <2>1 DEF StreamsInv, StreamsHeld, Fresh, OneLink, Uploading, TypeInv, TypeOK
  <2> QED
    BY <2>1, <2>2, ReclaimedFree DEF StreamsInv, TypeInv, TypeOK
<1> QED
  BY <1>1, <1>2, <1>3, <1>4, <1>5, <1>6, <1>7, <1>8 DEF Touches

(* A step is one of a connection that touches, an ending, or none.         *)
LEMMA NextTouches ==
  ASSUME TypeInv, StreamsInv, [Next]_vars
  PROVE  Ends \/ UNCHANGED vars \/ \E c \in Conn : Touches(c)
<1>1. CASE Crash
  BY <1>1, QuietEnds DEF Crash, db
<1> QED
  BY <1>1, StepTouches DEF Next

LEMMA NextStreams == TypeInv /\ StreamsInv /\ [Next]_vars => StreamsInv'
<1> SUFFICES ASSUME TypeInv, StreamsInv, [Next]_vars PROVE StreamsInv'
  OBVIOUS
<1>1. CASE UNCHANGED vars
  BY <1>1 DEF vars, StreamsInv, StreamsHeld, OneLink, FreeEmpty, Fresh, InUse, Uploading
<1> QED
  BY <1>1, NextTouches, EndsStreams, TouchesStreams

(* Streams are held by uploads and gets only, a file has one path, and the *)
(* space of a file that is neither linked nor open is given back.          *)
THEOREM StreamsAlwaysHeld == Spec => []StreamsInv
  BY InitStreams, NextStreams, TypesAlwaysHold, PTL DEF Spec
-----------------------------------------------------------------------------
(* Who writes which file, whatever fails. *)

LEMMA InitPaths == Init => PathsInv
  BY DEF Init, PathsInv, PathsOwn, WritesOwn, OnePath, Uploading

(* A step that starts no upload and links no file.                         *)
LEMMA PathsKept ==
  ASSUME PathsInv, \A p \in Path : disk'[p] \in {disk[p], None},
         \A d \in Conn : Uploading(d)' => /\ Uploading(d)
                                          /\ job'[d].path = job[d].path
                                          /\ uname'[d] = uname[d]
                                          /\ ino'[d] \in {ino[d], None}
  PROVE  PathsInv'
<1>1. PathsOwn'
  BY DEF PathsInv, PathsOwn
<1>2. WritesOwn'
  BY DEF PathsInv, WritesOwn
<1>3. OnePath'
  BY DEF PathsInv, OnePath
<1> QED
  BY <1>1, <1>2, <1>3 DEF PathsInv

LEMMA EndsPaths ==
  ASSUME TypeInv, PathsInv, Ends
  PROVE  PathsInv'
<1>1. \A p \in Path : disk'[p] \in {disk[p], None}
  BY DEF Ends
<1>2. ASSUME NEW d \in Conn, Uploading(d)'
      PROVE  Uploading(d) /\ UNCHANGED <<job[d], uname[d], ino[d]>>
  <2>1. pc'[d] \notin {"off", "abandoned"}
    BY <1>2 DEF Uploading
  <2> QED
    BY <1>2, <2>1, EndsSessions DEF Uploading
<1> QED
  BY <1>1, <1>2, PathsKept

LEMMA HeadsPaths ==
  ASSUME NEW c \in Conn, NEW p \in Path, NEW i \in Inode \cup {None}, TypeInv, StreamsInv,
         PathsInv, Heads(c, p, i)
  PROVE  PathsInv'
<1> USE SessionsAssumption
<1>1. /\ pc[c] = "header" /\ pc' = [pc EXCEPT ![c] = "size"] /\ uname' = uname
      /\ \A d \in Conn \ {c} : job'[d] = job[d]
      /\ job'[c].path = p /\ p[1] = uname[c] /\ ino' = [ino EXCEPT ![c] = i]
  BY DEF Heads
<1>2. \A d \in Conn : Uploading(d)' => d = c \/ Uploading(d)
  BY <1>1 DEF Uploading, TypeInv, TypeOK
<1>3. ino'[c] = i /\ \A d \in Conn \ {c} : ino'[d] = ino[d]
  BY <1>1 DEF TypeInv, TypeOK
<1>4. PathsOwn'
  BY <1>1, <1>2 DEF PathsInv, PathsOwn
<1>5. i # None => /\ disk' = [disk EXCEPT ![p] = i]
                  /\ disk[p] = i \/ i \notin InUse(disk, ino)
  BY DEF Heads
<1>6. i = None => disk' = disk
  BY DEF Heads
<1>7. ASSUME i # None, NEW d \in Conn, Uploading(d), ino[d] = i PROVE job[d].path = p
  BY <1>5, <1>7 DEF PathsInv, WritesOwn, InUse
<1>8. \A q \in Path : i # None /\ disk'[q] = i => q = p
  BY <1>5 DEF StreamsInv, OneLink, InUse, TypeInv, TypeOK
<1>9. \A q \in Path \ {p} : disk'[q] = disk[q]
  BY <1>5, <1>6 DEF TypeInv, TypeOK
<1>10. WritesOwn'
  <2> SUFFICES ASSUME NEW d \in Conn, Uploading(d)', ino'[d] # None, NEW q \in Path,
                      disk'[q] = ino'[d]
               PROVE  q = job'[d].path
    BY DEF WritesOwn
  <2>1. CASE d = c
    BY <1>1, <1>3, <1>8, <2>1
  <2>2. CASE d # c
    <3>1. Uploading(d) /\ ino'[d] = ino[d] /\ job'[d] = job[d]
      BY <1>1, <1>2, <1>3, <2>2
    <3>2. CASE ino[d] = i
      BY <1>7, <1>8, <3>1, <3>2
    <3>3. CASE ino[d] # i
      <4>1. disk'[q] = disk[q]
        BY <1>5, <1>6, <3>1, <3>3 DEF TypeInv, TypeOK
      <4> QED
        BY <3>1, <4>1 DEF PathsInv, WritesOwn
    <3> QED
      BY <3>2, <3>3
  <2> QED
    BY <2>1, <2>2
<1>11. OnePath'
  BY <1>1, <1>2, <1>3, <1>7 DEF PathsInv, OnePath
<1> QED
  BY <1>4, <1>10, <1>11 DEF PathsInv

LEMMA TouchesPaths ==
  ASSUME NEW c \in Conn, TypeInv, StreamsInv, PathsInv, Touches(c)
  PROVE  PathsInv'
<1>1. CASE Settles(c) \/ Sends(c) \/ \E p \in Path : Serves(c, p)
  <2>1. disk' = disk /\ ~Uploading(c)'
    BY <1>1 DEF Settles, Sends, Serves, Uploading, TypeInv, TypeOK
  <2>2. ASSUME NEW d \in Conn \ {c}
        PROVE  /\ UNCHANGED <<job[d], uname[d], ino[d]>>
               /\ Uploading(d)' => Uploading(d)
    BY <1>1 DEF Settles, Sends, Serves, Uploading, TypeInv, TypeOK
  <2> QED
    BY <2>1, <2>2, PathsKept
<1>2. CASE Ends
  BY <1>2, EndsPaths
<1>3. CASE \E p \in Path, i \in Inode \cup {None} : Heads(c, p, i)
  BY <1>3, HeadsPaths
<1>4. ASSUME NEW s \in Nat, NEW k \in Nat, NEW bytes \in [Inode -> Seq(Byte)],
             Grows(c, s, k, bytes)
      PROVE  PathsInv'
  <2>1. /\ disk' = disk /\ ino' = ino /\ uname' = uname
        /\ \A d \in Conn : job'[d].path = job[d].path
    BY <1>4 DEF Grows
  <2>2. \A d \in Conn : Uploading(d)' => Uploading(d)
    BY <1>4 DEF Grows, Takes, Uploading, TypeInv, TypeOK
  <2> QED
    BY <2>1, <2>2, PathsKept
<1>5. ASSUME NEW s \in Nat, NEW k \in Nat, NEW bytes \in [Inode -> Seq(Byte)],
             Logs(c, s, k, bytes)
      PROVE  PathsInv'
  <2>1. /\ disk' = disk /\ ino' = [ino EXCEPT ![c] = None] /\ pc'[c] \in {"off", "header"}
        /\ \A d \in Conn \ {c} : pc'[d] = pc[d] /\ job'[d] = job[d] /\ uname'[d] = uname[d]
    BY <1>5, LogsSessions
  <2>2. ASSUME NEW d \in Conn, Uploading(d)'
        PROVE  Uploading(d) /\ UNCHANGED <<job[d], uname[d], ino[d]>>
    BY <2>1, <2>2 DEF Uploading, TypeInv, TypeOK
  <2> QED
    BY <2>1, <2>2, PathsKept
<1>6. CASE StreamBreaks(c)
  <2>1. UNCHANGED <<pc, uname, job, disk>> /\ ino' = [ino EXCEPT ![c] = None]
    BY <1>6, BreaksStream
  <2>2. \A d \in Conn : ino'[d] \in {ino[d], None}
    BY <2>1 DEF TypeInv, TypeOK
  <2> QED
    BY <2>1, <2>2, PathsKept DEF Uploading
<1> QED
  BY <1>1, <1>2, <1>3, <1>4, <1>5, <1>6 DEF Touches

LEMMA NextPaths == TypeInv /\ StreamsInv /\ PathsInv /\ [Next]_vars => PathsInv'
<1> SUFFICES ASSUME TypeInv, StreamsInv, PathsInv, [Next]_vars PROVE PathsInv'
  OBVIOUS
<1>1. CASE UNCHANGED vars
  BY <1>1 DEF vars, PathsInv, PathsOwn, WritesOwn, OnePath, Uploading
<1> QED
  BY <1>1, NextTouches, EndsPaths, TouchesPaths

LEMMA PathsAlwaysOwn == Spec => []PathsInv
  BY InitPaths, NextPaths, TypesAlwaysHold, StreamsAlwaysHeld, PTL DEF Spec

(* Two sessions write one file only when their users have one name and     *)
(* both upload one name, whatever fails and whatever clients do            *)
(* (ClashesAreOfOnePath).                                                  *)
THEOREM ClashesAlwaysOfOnePath == Spec => []ClashesAreOfOnePath
<1>1. PathsInv => ClashesAreOfOnePath
  BY DEF PathsInv, PathsOwn, OnePath, ClashesAreOfOnePath
<1> QED
  BY <1>1, PathsAlwaysOwn, PTL

-----------------------------------------------------------------------------
(* The files of songs, whatever clients do. *)

LEMMA EndsNamed ==
  ASSUME TypeInv, Named, Ends
  PROVE  Named'
<1> SUFFICES ASSUME NEW d \in Conn, uid'[d] # None PROVE uname'[d] = uid'[d]
  BY DEF Named
<1>1. uid'[d] = uid[d] /\ uname'[d] = uname[d]
  BY EndsSessions
<1> QED
  BY <1>1 DEF Named

LEMMA TouchesNamed ==
  ASSUME "username" \notin Faults, NEW c \in Conn, TypeInv, Named, Touches(c)
  PROVE  Named'
<1>1. CASE Settles(c)
  BY <1>1 DEF Settles, Named
<1>2. CASE Ends
  BY <1>2, EndsNamed
<1>3. CASE \E s \in Nat, k \in Nat, bytes \in [Inode -> Seq(Byte)] : Logs(c, s, k, bytes)
  BY <1>3, LogsSessions DEF Named
<1>4. CASE \/ Sends(c) \/ StreamBreaks(c)
           \/ \E p \in Path, i \in Inode \cup {None} : Heads(c, p, i)
           \/ \E s \in Nat, k \in Nat, bytes \in [Inode -> Seq(Byte)] : Grows(c, s, k, bytes)
           \/ \E p \in Path : Serves(c, p)
  <2>1. UNCHANGED <<uid, uname>>
    BY <1>4, BreaksStream DEF Sends, Heads, Grows, Serves
  <2> QED
    BY <2>1 DEF Named
<1> QED
  BY <1>1, <1>2, <1>3, <1>4 DEF Touches

LEMMA NextNamed ==
  ASSUME "username" \notin Faults
  PROVE  TypeInv /\ StreamsInv /\ Named /\ [Next]_vars => Named'
<1> SUFFICES ASSUME TypeInv, StreamsInv, Named, [Next]_vars PROVE Named'
  OBVIOUS
<1>1. CASE UNCHANGED vars
  BY <1>1 DEF vars, Named
<1> QED
  BY <1>1, NextTouches, EndsNamed, TouchesNamed

LEMMA AlwaysNamed ==
  ASSUME "username" \notin Faults
  PROVE  Spec => []Named
<1>1. Init => Named
  BY DEF Init, Named
<1>2. TypeInv /\ StreamsInv /\ Named /\ [Next]_vars => Named'
  BY NextNamed
<1> QED
  BY <1>1, <1>2, TypesAlwaysHold, StreamsAlwaysHeld, PTL DEF Spec

(* A write takes nothing off a file.                                       *)
LEMMA TakesMore ==
  ASSUME NEW c \in Conn, NEW s \in Nat, NEW k \in Nat, NEW bytes, TypeInv,
         Takes(c, s, k, bytes), NEW i \in Inode
  PROVE  Len(bytes[i]) >= Len(content[i])
<1> DEFINE byte == [by |-> c, of |-> s]
           pos == job[c].got
<1>1. /\ pos \in Nat /\ byte \in Byte /\ content \in [Inode -> Seq(Byte)]
      /\ bytes = Written(c, pos, k, byte)
  BY DEF Takes, Byte, TypeInv, TypeOK, Job
<1>2. Len(content[i]) \in Nat
  BY <1>1
<1>3. CASE bytes[i] = content[i]
  BY <1>2, <1>3
<1>4. CASE i = ino[c] /\ ~(ino[c] = None \/ k = 0)
  <2> DEFINE len == IF Len(content[i]) > pos + k THEN Len(content[i]) ELSE pos + k
  <2>1. bytes[i] = Overwrite(content[i], pos, k, byte)
    BY <1>1, <1>4 DEF Written
  <2>2. len \in Nat /\ len >= Len(content[i])
    BY <1>1, <1>2
  <2>3. bytes[i] = [j \in 1 .. len |->
                      IF pos < j /\ j <= pos + k THEN byte
                      ELSE IF j <= Len(content[i]) THEN content[i][j] ELSE None]
    BY <2>1 DEF Overwrite
  <2> HIDE DEF len
  <2>4. Len(bytes[i]) = len
    BY <2>2, <2>3
  <2> QED
    BY <2>2, <2>4
<1> QED
  BY <1>1, <1>3, <1>4, WrittenElsewhere DEF Written

(* What LoggedFilesKept says of one song's path in one step.               *)
SongKept(p) ==
  /\ disk'[p] = disk[p]
  /\ disk[p] # None /\ content'[disk[p]] # content[disk[p]] =>
       /\ Len(content'[disk[p]]) >= Len(content[disk[p]])
       /\ \E c \in Conn :
            Uploading(c) /\ job[c].path = p /\ uid[c] = p[1] /\ ino[c] = disk[p]

LEMMA TakesKept ==
  ASSUME TypeInv, PathsInv, Named, NEW c \in Conn, NEW s \in Nat, NEW k \in Nat,
         NEW bytes \in [Inode -> Seq(Byte)], Grows(c, s, k, bytes) \/ Logs(c, s, k, bytes),
         NEW p \in Path
  PROVE  SongKept(p)
<1>1. Takes(c, s, k, bytes) /\ Uploading(c)
  BY DEF Grows, Logs, Takes
<1>2. disk' = disk /\ (content' = bytes \/ content' = Reclaimed(bytes))
  BY LogsSessions DEF Grows
<1>3. disk[p] # None => disk[p] \in Inode
  BY DEF TypeInv, TypeOK
<1>4. disk[p] # None => content'[disk[p]] = bytes[disk[p]]
  BY <1>2, <1>3, ReclaimedKeeps
<1>5. disk[p] # None => Len(bytes[disk[p]]) >= Len(content[disk[p]])
  BY <1>1, <1>3, TakesMore
<1>6. disk[p] # None /\ disk[p] # ino[c] => bytes[disk[p]] = content[disk[p]]
  BY <1>1, <1>3, TakesElsewhere
<1>7. disk[p] # None /\ disk[p] = ino[c] => job[c].path = p
  BY <1>1 DEF PathsInv, WritesOwn
<1>8. disk[p] # None /\ disk[p] = ino[c] => uid[c] = p[1]
  <2>1. uid[c] # None
    BY <1>1, SessionsAssumption DEF TypeInv, TypeOK, Sessioned, Uploading, DbTypeOK
  <2> QED
    BY <1>1, <1>7, <2>1 DEF PathsInv, PathsOwn, Named
<1> QED
  BY <1>1, <1>2, <1>4, <1>5, <1>6, <1>7, <1>8 DEF SongKept

LEMMA TouchesKept ==
  ASSUME Answered, TypeInv, StreamsInv, PathsInv, Named, Ends \/ \E c \in Conn : Touches(c),
         NEW p \in Path, SongIn(p), SongIn(p)'
  PROVE  SongKept(p)
<1>1. disk[p] # None => disk[p] \in Inode
  BY DEF TypeInv, TypeOK
<1>2. content \in [Inode -> Seq(Byte)]
  BY DEF TypeInv, TypeOK
<1>3. CASE disk'[p] = disk[p] /\ (content' = content \/ content' = Reclaimed(content))
  <2>1. disk[p] # None => content'[disk[p]] = content[disk[p]]
    BY <1>1, <1>2, <1>3, ReclaimedKeeps
  <2> QED
    BY <1>3, <2>1 DEF SongKept
<1>4. CASE Ends
  <2>1. disk'[p] = disk[p] /\ content' = Reclaimed(content)
    BY <1>4 DEF Ends, Down, Leave
  <2> QED
    BY <1>3, <2>1
<1>5. ASSUME NEW c \in Conn, NEW q \in Path, NEW i \in Inode \cup {None}, Heads(c, q, i)
      PROVE  SongKept(p)
  <2>1. q # p
    <3>1. uname[c] = uid[c]
      BY <1>5 DEF Heads, TypeInv, Sessioned, Named
    <3> QED
      BY <1>5, <3>1 DEF Heads, Answered
  <2>2. disk[p] # None => disk[p] # i \/ UNCHANGED content
    BY <1>5, <2>1 DEF Heads, StreamsInv, OneLink, InUse
  <2>3. disk'[p] = disk[p] /\ (disk[p] # None => content'[disk[p]] = content[disk[p]])
    BY <1>1, <1>5, <2>1, <2>2 DEF Heads, TypeInv, TypeOK
  <2> QED
    BY <2>3 DEF SongKept
<1>6. ASSUME NEW c \in Conn, NEW s \in Nat, NEW k \in Nat, NEW bytes \in [Inode -> Seq(Byte)],
             Grows(c, s, k, bytes) \/ Logs(c, s, k, bytes)
      PROVE  SongKept(p)
  BY <1>6, TakesKept
<1>7. ASSUME NEW c \in Conn,
             \/ Settles(c) \/ Sends(c) \/ StreamBreaks(c)
             \/ \E q \in Path : Serves(c, q)
      PROVE  SongKept(p)
  <2>1. disk' = disk /\ (content' = content \/ content' = Reclaimed(content))
    BY <1>7, BreaksStream DEF Settles, Sends, Serves
  <2> QED
    BY <1>3, <2>1
<1> QED
  BY <1>4, <1>5, <1>6, <1>7 DEF Touches

LEMMA NextKept ==
  ASSUME Answered, TypeInv, StreamsInv, PathsInv, Named, [Next]_vars, NEW f \in files \cap files'
  PROVE  LET p == <<f.owner, f.name>>
             i == disk[p]
         IN  /\ disk'[p] = i
             /\ i # None /\ content'[i] # content[i] =>
                  /\ Len(content'[i]) >= Len(content[i])
                  /\ \E c \in Conn :
                       Uploading(c) /\ job[c].path = p /\ uid[c] = f.owner /\ ino[c] = i
<1> DEFINE p == <<f.owner, f.name>>
<1>1. p \in Path /\ p[1] = f.owner
  BY DEF Path, Directory, TypeInv, TypeOK, DbTypeOK, FileRow
<1>2. SongIn(p) /\ SongIn(p)'
  BY DEF SongIn, FileExists
<1> HIDE DEF p
<1>3. SongKept(p)
  <2>1. CASE UNCHANGED vars
    BY <2>1 DEF vars, SongKept
  <2>2. CASE Ends \/ \E c \in Conn : Touches(c)
    BY <1>1, <1>2, <2>2, TouchesKept
  <2> QED
    BY <2>1, <2>2, NextTouches
<1> QED
  BY <1>1, <1>3 DEF SongKept, p

(* While a song is in the table its path stays linked to one file, and     *)
(* nobody writes to it but an upload of its name by its owner, which cuts  *)
(* nothing off: whatever clients do, and also when two sessions upload the *)
(* name at a time (LoggedFilesKept).                                       *)
THEOREM LoggedFilesAlwaysKept ==
  ASSUME Answered
  PROVE  Spec => LoggedFilesKept
<1>1. TypeInv /\ StreamsInv /\ PathsInv /\ Named /\ [Next]_vars =>
        [\A f \in files \cap files' :
           LET p == <<f.owner, f.name>>
               i == disk[p]
           IN  /\ disk'[p] = i
               /\ i # None /\ content'[i] # content[i] =>
                    /\ Len(content'[i]) >= Len(content[i])
                    /\ \E c \in Conn :
                         Uploading(c) /\ job[c].path = p /\ uid[c] = f.owner /\ ino[c] = i]_vars
  BY NextKept
<1>2. Spec => []Named
  BY AlwaysNamed DEF Answered
<1> QED
  BY <1>1, <1>2, TypesAlwaysHold, StreamsAlwaysHeld, PathsAlwaysOwn, PTL
  DEF Spec, LoggedFilesKept

(* The number get_next_file_id finds is free.                              *)
LEMMA NextFileIdFree ==
  ASSUME DbTypeOK, NEW u, NEW n, NEW id, IsNextFileId(u, id), ~FileExists(u, n)
  PROVE  KeysFree(u, n, id)
<1> SUFFICES ASSUME NEW f \in files, f.owner = u PROVE f.name # n /\ f.id # id
  BY DEF KeysFree
<1>1. f.name # n
  BY DEF FileExists
<1>2. PICK g \in files : id = g.id + 1 /\ f.id <= g.id
  BY DEF IsNextFileId
<1>3. g.id \in Nat /\ f.id \in Nat
  BY DatabaseAssumption DEF DbTypeOK, FileRow, SongId
<1> QED
  BY <1>1, <1>2, <1>3

(* add_file leaves the song in the table, when its statements do not fail: *)
(* the song is inserted, or was there.                                     *)
LEMMA AddFileLogs ==
  ASSUME {"insert", "freedrow"} \cap Faults = {}, DbTypeOK, NEW u, NEW n, AddFile(u, n)
  PROVE  \E f \in files' : f.owner = u /\ f.name = n
<1>1. files \subseteq files'
  BY DEF AddFile, InsertFile
<1>2. CASE FileExists(u, n)
  BY <1>1, <1>2 DEF FileExists
<1>3. CASE ~FileExists(u, n)
  <2>1. \A id \in GetNextFileId(u) : KeysFree(u, n, id)
    <3> SUFFICES ASSUME NEW id \in GetNextFileId(u) PROVE KeysFree(u, n, id)
      OBVIOUS
    <3>1. IsNextFileId(u, id)
      BY DEF GetNextFileId
    <3> QED
      BY <1>3, <3>1, NextFileIdFree
  <2>2. PICK id \in GetNextFileId(u) : InsertFile(u, n, id)
    BY <2>1 DEF AddFile, AddFileFails
  <2>3. [owner |-> u, id |-> id, name |-> n] \in files'
    BY <2>2 DEF InsertFile
  <2> QED
    BY <2>3
<1> QED
  BY <1>2, <1>3

LEMMA ReceivedLogs ==
  ASSUME {"insert", "freedrow"} \cap Faults = {}, TypeInv, NEW c \in Conn, Received(c)
  PROVE  \E f \in files' : f.owner = uid[c] /\ f.name = job[c].path[2]
<1>1. \A bytes, s, k : ~MoreToCome(c, bytes, s, k)
  BY DEF Received, MoreToCome, Goto, TypeInv, TypeOK
<1>2. \E bytes : FileReceived(c, bytes)
  BY <1>1 DEF Received, GetFileSize, AddFileData
<1>3. AddFile(uid[c], job[c].path[2])
  BY <1>2 DEF FileReceived
<1> QED
  BY <1>3, AddFileLogs DEF TypeInv, TypeOK

(* A song that has come in whole is in the table by the end of the handler *)
(* that has received the last of it, when no statement of add_file fails:  *)
(* of any clients, for the last file of a request too, and whatever has    *)
(* become of the name since it was found free (LoggingTakesEffect).        *)
THEOREM LoggingAlwaysTakesEffect ==
  ASSUME {"insert", "freedrow"} \cap Faults = {}
  PROVE  Spec => LoggingTakesEffect
<1>1. TypeInv /\ [Next]_vars =>
        [\A c \in Conn :
           Received(c) => \E f \in files' : f.owner = uid[c] /\ f.name = job[c].path[2]]_vars
  BY ReceivedLogs
<1> QED
  BY <1>1, TypesAlwaysHold, PTL DEF Spec, LoggingTakesEffect

-----------------------------------------------------------------------------
(* The clients of DisciplinedSpec: one upload to a path at a time. *)

(* add_file of mysql_link logs the song it is asked to log, or none.       *)
LEMMA AddFileSongs ==
  ASSUME NEW u, NEW n, AddFile(u, n), NEW p \in Path
  PROVE  /\ SongIn(p)' => SongIn(p) \/ p = <<u, n>>
         /\ SongIn(p) => SongIn(p)'
<1>1. \/ files' = files
      \/ \E id : files' = files \cup {[owner |-> u, id |-> id, name |-> n]}
  BY DEF AddFile, InsertFile
<1>2. p = <<p[1], p[2]>>
  BY DEF Path
<1> QED
  BY <1>1, <1>2 DEF SongIn, FileExists

LEMMA UploadPath ==
  ASSUME NEW c \in Conn, TypeInv, Uploading(c)
  PROVE  job[c].path \in Path /\ uid[c] \in users /\ uid[c] # None
  BY SessionsAssumption DEF TypeInv, TypeOK, Sessioned, Uploading, Job, DbTypeOK

(* An upload goes on undisturbed when its session, its path and its file   *)
(* are left alone.                                                         *)
UploadKept(d) ==
  /\ UNCHANGED <<uid[d], ino[d], disk[job[d].path]>>
  /\ job'[d].path = job[d].path
  /\ SongIn(job[d].path)' => SongIn(job[d].path)

(* An invariant of the uploads is kept by a step that starts none.         *)
LEMMA UploadsKept ==
  ASSUME UploadsInv, Named', \A d \in Conn : Uploading(d)' => Uploading(d) /\ UploadKept(d)
  PROVE  UploadsInv'
<1>1. UploadsNew'
  <2> SUFFICES ASSUME NEW d \in Conn, Uploading(d)'
               PROVE  /\ job'[d].path[1] = uid'[d]
                      /\ ~SongIn(job[d].path)'
                      /\ ino'[d] \in {None, disk'[job'[d].path]}
    BY DEF UploadsNew
  <2>1. Uploading(d) /\ UploadKept(d)
    OBVIOUS
  <2>2. SongIn(job[d].path)' => SongIn(job[d].path)
    BY <2>1 DEF UploadKept, SongIn, FileExists
  <2> QED
    BY <2>1, <2>2 DEF UploadKept, UploadsInv, UploadsNew
<1>2. Apart'
  BY DEF UploadKept, UploadsInv, Apart
<1> QED
  BY <1>1, <1>2 DEF UploadsInv
LEMMA InitUploads == Init => UploadsInv
  BY DEF Init, UploadsInv, Named, UploadsNew, Apart, Uploading

LEMMA EndsUploadKept ==
  ASSUME TypeInv, UploadsInv, Ends, NEW d \in Conn, Uploading(d)'
  PROVE  Uploading(d) /\ UploadKept(d) /\ job'[d] = job[d] /\ ~Down
<1>1. UNCHANGED <<pc[d], uid[d], ino[d], job[d]>> /\ ~Down
  <2>1. pc'[d] \notin {"off", "abandoned"}
    BY DEF Uploading
  <2> QED
    BY <2>1, EndsSessions
<1>2. Uploading(d)
  BY <1>1 DEF Uploading
<1>3. job[d].path \in Path /\ ~SongIn(job[d].path)
  BY <1>2, UploadPath DEF UploadsInv, UploadsNew
<1>4. disk'[job[d].path] = disk[job[d].path]
  BY <1>3 DEF Ends, UploadsInv
<1>5. SongIn(job[d].path)' => SongIn(job[d].path)
  BY <1>1 DEF Ends, SongIn, FileExists
<1> QED
  BY <1>1, <1>2, <1>4, <1>5 DEF UploadKept

LEMMA EndsUploads ==
  ASSUME TypeInv, UploadsInv, Ends
  PROVE  UploadsInv'
<1>1. Named'
  BY EndsNamed DEF UploadsInv
<1> QED
  BY <1>1, EndsUploadKept, UploadsKept

(* What a client of DisciplinedSpec sees to.                               *)
LEMMA HeadsApart ==
  ASSUME OneUploadEach, NEW c \in Conn, NEW p \in Path, NEW i \in Inode \cup {None}, TypeInv,
         Heads(c, p, i), NEW d \in Conn, Uploading(d)
  PROVE  job[d].path # p
<1>1. ~Uploading(c) /\ pc'[c] = "size" /\ job'[c].path = p
  BY DEF Heads, Uploading, TypeInv, TypeOK
<1> QED
  BY <1>1 DEF OneUploadEach

LEMMA HeadsUploads ==
  ASSUME Answered, OneUploadEach, NEW c \in Conn, NEW p \in Path, NEW i \in Inode \cup {None}, TypeInv,
         StreamsInv, UploadsInv, Heads(c, p, i)
  PROVE  UploadsInv'
<1>1. /\ UNCHANGED <<files, uid, uname>>
      /\ pc' = [pc EXCEPT ![c] = "size"] /\ ino' = [ino EXCEPT ![c] = i]
      /\ \A d \in Conn \ {c} : job'[d] = job[d]
      /\ job'[c].path = p
  BY DEF Heads
<1>2. uid[c] # None /\ p[1] = uid[c] /\ uname[c] = uid[c]
  BY DEF Heads, TypeInv, Sessioned, UploadsInv, Named
<1>3. ~SongIn(p) /\ \A d \in Conn : Uploading(d) => job[d].path # p
  BY <1>2, HeadsApart DEF Heads, Answered
<1>4. i = None \/ i = disk'[p]
  BY DEF Heads, TypeInv, TypeOK
<1>5. \A q \in Path \ {p} : disk'[q] = disk[q]
  BY DEF Heads, TypeInv, TypeOK
<1>6. \A q \in Path : SongIn(q)' <=> SongIn(q)
  BY <1>1 DEF SongIn, FileExists
<1>7. \A d \in Conn : Uploading(d)' <=> d = c \/ Uploading(d)
  BY <1>1 DEF Uploading, TypeInv, TypeOK
<1>8. UploadsNew'
  <2> SUFFICES ASSUME NEW d \in Conn, Uploading(d)'
               PROVE  /\ job'[d].path[1] = uid'[d]
                      /\ ~SongIn(job[d].path)'
                      /\ ino'[d] \in {None, disk'[job'[d].path]}
    BY DEF UploadsNew
  <2>1. CASE d = c
    <3>1. ino'[c] = i
      BY <1>1 DEF TypeInv, TypeOK
    <3>2. ~SongIn(job[c].path)'
      BY <1>1, <1>3 DEF SongIn, FileExists
    <3> QED
      BY <1>1, <1>2, <1>4, <2>1, <3>1, <3>2
  <2>2. CASE d # c
    <3>1. Uploading(d) /\ job'[d] = job[d] /\ ino'[d] = ino[d]
      BY <1>1, <1>7, <2>2 DEF TypeInv, TypeOK
    <3>2. job[d].path \in Path \ {p}
      BY <1>3, <3>1, UploadPath
    <3>3. ~SongIn(job[d].path)'
      BY <1>1, <3>1 DEF UploadsInv, UploadsNew, SongIn, FileExists
    <3> QED
      BY <1>1, <1>5, <3>1, <3>2, <3>3 DEF UploadsInv, UploadsNew
  <2> QED
    BY <2>1, <2>2
<1>9. Apart'
  BY <1>1, <1>3, <1>7 DEF UploadsInv, Apart
<1> QED
  BY <1>1, <1>8, <1>9 DEF UploadsInv, Named

LEMMA TakesUploads ==
  ASSUME NEW c \in Conn, NEW s \in Nat, NEW k \in Nat, NEW bytes \in [Inode -> Seq(Byte)],
         TypeInv, UploadsInv, Grows(c, s, k, bytes) \/ Logs(c, s, k, bytes)
  PROVE  UploadsInv'
<1>1. CASE Grows(c, s, k, bytes)
  <2>1. /\ UNCHANGED <<files, uid, uname, ino, disk>>
        /\ Uploading(c) /\ pc' = [pc EXCEPT ![c] = "data"]
        /\ \A d \in Conn : job'[d].path = job[d].path
    BY <1>1 DEF Grows, Takes
  <2>2. Named'
    BY <2>1 DEF UploadsInv, Named
  <2>3. ASSUME NEW d \in Conn, Uploading(d)' PROVE Uploading(d) /\ UploadKept(d)
    <3>1. Uploading(d)
      BY <2>1, <2>3 DEF Uploading, TypeInv, TypeOK
    <3> QED
      BY <2>1, <3>1 DEF UploadKept, SongIn, FileExists
  <2> QED
    BY <2>2, <2>3, UploadsKept
<1>2. CASE Logs(c, s, k, bytes)
  <2>1. /\ UNCHANGED disk /\ Uploading(c) /\ ino' = [ino EXCEPT ![c] = None]
        /\ \A d \in Conn \ {c} : /\ pc'[d] = pc[d] /\ job'[d] = job[d]
                                 /\ uid'[d] = uid[d] /\ uname'[d] = uname[d]
        /\ \/ pc'[c] = "off" /\ uid'[c] = None
           \/ pc'[c] = "header" /\ uid'[c] = uid[c] /\ uname'[c] = uname[c]
    BY <1>2, LogsSessions
  <2>2. AddFile(uid[c], job[c].path[2])
    BY <1>2 DEF Logs, FileReceived
  <2>3. job[c].path = <<uid[c], job[c].path[2]>>
    BY <2>1, UploadPath DEF UploadsInv, UploadsNew, Path
  <2>4. ASSUME NEW d \in Conn, Uploading(d)' PROVE Uploading(d) /\ UploadKept(d)
    <3>1. d # c
      BY <2>1, <2>4 DEF Uploading
    <3>2. Uploading(d) /\ UNCHANGED <<pc[d], uid[d], ino[d], job[d]>>
      BY <2>1, <2>4, <3>1 DEF Uploading, TypeInv, TypeOK
    <3>3. job[d].path \in Path /\ job[d].path # job[c].path
      BY <2>1, <3>1, <3>2, UploadPath DEF UploadsInv, Apart
    <3>4. SongIn(job[d].path)' => SongIn(job[d].path)
      <4>1. \A q \in Path : SongIn(q)' => SongIn(q) \/ q = <<uid[c], job[c].path[2]>>
        BY <2>2, AddFileSongs
      <4> QED
        BY <2>3, <3>2, <3>3, <4>1 DEF SongIn, FileExists
    <3> QED
      BY <2>1, <3>2, <3>4 DEF UploadKept
  <2>5. Named'
    BY <2>1 DEF UploadsInv, Named
  <2> QED
    BY <2>4, <2>5, UploadsKept
<1> QED
  BY <1>1, <1>2

LEMMA TouchesUploads ==
  ASSUME Answered, OneUploadEach, NEW c \in Conn, TypeInv, StreamsInv, UploadsInv, Touches(c)
  PROVE  UploadsInv'
<1>0. Named'
  BY TouchesNamed DEF Answered, UploadsInv
<1>1. CASE Settles(c)
  <2>1. ASSUME NEW d \in Conn, Uploading(d)' PROVE Uploading(d) /\ UploadKept(d)
    <3>1. d # c
      BY <1>1, <2>1 DEF Settles, Uploading, TypeInv, TypeOK
    <3> QED
      BY <1>1, <2>1, <3>1 DEF Settles, UploadKept, Uploading, SongIn, FileExists, TypeInv, TypeOK
  <2> QED
    BY <1>0, <2>1, UploadsKept
<1>2. CASE Sends(c)
  <2>1. ASSUME NEW d \in Conn, Uploading(d)' PROVE Uploading(d) /\ UploadKept(d)
    <3>1. d # c
      BY <1>2, <2>1 DEF Sends, Uploading
    <3> QED
      BY <1>2, <2>1, <3>1 DEF Sends, UploadKept, Uploading, SongIn, FileExists
  <2> QED
    BY <1>0, <2>1, UploadsKept
<1>3. CASE Ends
  BY <1>3, EndsUploads
<1>4. CASE \E p \in Path, i \in Inode \cup {None} : Heads(c, p, i)
  BY <1>4, HeadsUploads
<1>5. CASE \E s \in Nat, k \in Nat, bytes \in [Inode -> Seq(Byte)] :
             Grows(c, s, k, bytes) \/ Logs(c, s, k, bytes)
  BY <1>5, TakesUploads
<1>6. ASSUME NEW p \in Path, Serves(c, p) PROVE UploadsInv'
  <2>1. ASSUME NEW d \in Conn, Uploading(d)' PROVE Uploading(d) /\ UploadKept(d)
    <3>1. d # c
      BY <1>6, <2>1 DEF Serves, Uploading, TypeInv, TypeOK
    <3> QED
      BY <1>6, <2>1, <3>1 DEF Serves, UploadKept, Uploading, SongIn, FileExists, TypeInv, TypeOK
  <2> QED
    BY <1>0, <2>1, UploadsKept
<1>7. CASE StreamBreaks(c)
  <2>1. /\ UNCHANGED <<files, pc, uid, uname, job, disk>> /\ ino' = [ino EXCEPT ![c] = None]
    BY <1>7, BreaksStream
  <2>2. UploadsNew'
    BY <2>1 DEF UploadsInv, UploadsNew, Uploading, SongIn, FileExists, TypeInv, TypeOK
  <2> QED
    BY <2>1, <2>2 DEF UploadsInv, Named, Apart, Uploading
<1> QED
  BY <1>1, <1>2, <1>3, <1>4, <1>5, <1>6, <1>7 DEF Touches

LEMMA NextUploads ==
  ASSUME Answered
  PROVE  TypeInv /\ StreamsInv /\ UploadsInv /\ [Next /\ OneUploadEach]_vars => UploadsInv'
<1> SUFFICES ASSUME TypeInv, StreamsInv, UploadsInv, [Next /\ OneUploadEach]_vars
             PROVE  UploadsInv'
  OBVIOUS
<1>1. CASE UNCHANGED vars
  <2>1. UploadsNew'
    BY <1>1 DEF vars, UploadsInv, UploadsNew, Uploading, SongIn, FileExists
  <2> QED
    BY <1>1, <2>1 DEF vars, UploadsInv, Named, Apart, Uploading
<1> QED
  BY <1>1, NextTouches, EndsUploads, TouchesUploads

LEMMA DisciplinedIsSpec == DisciplinedSpec => Spec
<1>1. [Next /\ OneUploadEach]_vars => [Next]_vars
  OBVIOUS
<1> QED
  BY <1>1, PTL DEF DisciplinedSpec, Spec

(* What DisciplinedSpec assumes of the start of uploads lasts until they   *)
(* end.                                                                    *)
LEMMA UploadsStayApart ==
  ASSUME Answered
  PROVE  DisciplinedSpec => []UploadsInv
<1>1. TypeInv /\ StreamsInv /\ UploadsInv /\ [Next /\ OneUploadEach]_vars => UploadsInv'
  BY NextUploads
<1> QED
  BY <1>1, InitUploads, DisciplinedIsSpec, TypesAlwaysHold, StreamsAlwaysHeld, PTL
  DEF DisciplinedSpec

LEMMA UploadsNeverClash ==
  ASSUME TypeInv, StreamsInv, UploadsInv
  PROVE  NoClash
<1> SUFFICES ASSUME NEW c \in Conn, NEW d \in Conn, c # d, Uploading(c), Uploading(d),
                    ino[c] # None, ino[c] = ino[d]
             PROVE  FALSE
  BY DEF NoClash
<1>1. job[c].path \in Path /\ job[d].path \in Path /\ job[c].path # job[d].path
  BY UploadPath DEF UploadsInv, Apart
<1>2. ino[c] = disk[job[c].path] /\ ino[d] = disk[job[d].path]
  BY DEF UploadsInv, UploadsNew
<1> QED
  BY <1>1, <1>2 DEF StreamsInv, OneLink

(* The file of a song that stays a song stays as it is.                    *)
LEMMA TouchesFrozen ==
  ASSUME Answered, TypeInv, StreamsInv, UploadsInv, Ends \/ \E c \in Conn : Touches(c),
         NEW p \in Path, SongIn(p), SongIn(p)'
  PROVE  disk'[p] = disk[p] /\ (disk[p] # None => content'[disk[p]] = content[disk[p]])
<1>1. disk[p] # None => disk[p] \in Inode
  BY DEF TypeInv, TypeOK
<1>2. content \in [Inode -> Seq(Byte)]
  BY DEF TypeInv, TypeOK
<1>3. CASE Ends
  <2>1. disk'[p] = disk[p] /\ content' = Reclaimed(content)
    BY <1>3 DEF Ends, UploadsInv, Down, Leave
  <2> QED
    BY <1>1, <1>2, <2>1, ReclaimedKeeps
<1>4. ASSUME NEW c \in Conn, Settles(c) \/ Sends(c) PROVE UNCHANGED <<disk, content>>
  BY <1>4 DEF Settles, Sends
<1>5. ASSUME NEW c \in Conn, NEW q \in Path, NEW i \in Inode \cup {None}, Heads(c, q, i)
      PROVE  disk'[p] = disk[p] /\ (disk[p] # None => content'[disk[p]] = content[disk[p]])
  <2>1. q # p
    <3>1. uname[c] = uid[c]
      BY <1>5 DEF Heads, TypeInv, Sessioned, UploadsInv, Named
    <3> QED
      BY <1>5, <3>1 DEF Heads, Answered
  <2>2. disk[p] # None => disk[p] # i \/ UNCHANGED content
    BY <1>5, <2>1 DEF Heads, StreamsInv, OneLink, InUse
  <2> QED
    BY <1>1, <1>5, <2>1, <2>2 DEF Heads, TypeInv, TypeOK
<1>6. ASSUME NEW c \in Conn, NEW s \in Nat, NEW k \in Nat, NEW bytes \in [Inode -> Seq(Byte)],
             Takes(c, s, k, bytes)
      PROVE  disk[p] # None => bytes[disk[p]] = content[disk[p]]
  <2>1. disk[p] # None => disk[p] # ino[c]
    <3>1. Uploading(c)
      BY <1>6 DEF Takes
    <3>2. job[c].path \in Path \ {p} /\ ino[c] \in {None, disk[job[c].path]}
      BY <3>1, UploadPath DEF UploadsInv, UploadsNew
    <3> QED
      BY <3>2 DEF StreamsInv, OneLink
  <2> QED
    BY <1>1, <1>6, <2>1, TakesElsewhere
<1>7. ASSUME NEW c \in Conn, NEW s \in Nat, NEW k \in Nat, NEW bytes \in [Inode -> Seq(Byte)],
             Grows(c, s, k, bytes) \/ Logs(c, s, k, bytes)
      PROVE  disk'[p] = disk[p] /\ (disk[p] # None => content'[disk[p]] = content[disk[p]])
  <2>1. Takes(c, s, k, bytes)
    BY <1>7 DEF Grows, Logs
  <2>2. disk[p] # None => bytes[disk[p]] = content[disk[p]]
    BY <1>6, <2>1
  <2>3. disk' = disk /\ (content' = bytes \/ content' = Reclaimed(bytes))
    BY <1>7, LogsSessions DEF Grows
  <2> QED
    BY <1>1, <2>2, <2>3, ReclaimedKeeps
<1>8. ASSUME NEW c \in Conn, StreamBreaks(c) \/ \E q \in Path : Serves(c, q)
      PROVE  disk'[p] = disk[p] /\ (disk[p] # None => content'[disk[p]] = content[disk[p]])
  <2>1. disk' = disk /\ content' = Reclaimed(content)
    BY <1>8, BreaksStream DEF Serves
  <2> QED
    BY <1>1, <1>2, <2>1, ReclaimedKeeps
<1> QED
  BY <1>3, <1>4, <1>5, <1>7, <1>8 DEF Touches

-----------------------------------------------------------------------------
(* Songs have files. *)

LEMMA InitLinks == Init => LinksInv
  BY DEF Init, DbInit, LinksInv, UploadsLinked, RowsLinked, Uploading, SongIn, FileExists

LEMMA SongOfUser ==
  ASSUME DbInv, NEW p, SongIn(p)
  PROVE  p[1] \in users
  BY DEF DbInv, KeysHold, SongIn, FileExists

(* The steps that start no upload, log nothing and leave the links alone.  *)
LEMMA CalmTouches ==
  ASSUME NEW c \in Conn, TypeInv,
         \/ Settles(c) \/ Sends(c) \/ StreamBreaks(c)
         \/ \E s \in Nat, k \in Nat, bytes \in [Inode -> Seq(Byte)] : Grows(c, s, k, bytes)
         \/ \E p \in Path : Serves(c, p)
  PROVE  /\ UNCHANGED <<users, files, dirs, disk>>
         /\ \A d \in Conn : Uploading(d)' => /\ Uploading(d)
                                             /\ uid'[d] = uid[d]
                                             /\ job'[d].path = job[d].path
<1>1. CASE Settles(c)
  BY <1>1 DEF Settles, Uploading, TypeInv, TypeOK
<1>2. CASE Sends(c)
  BY <1>2 DEF Sends, Uploading
<1>3. CASE StreamBreaks(c)
  BY <1>3, BreaksStream DEF Uploading
<1>4. CASE \E s \in Nat, k \in Nat, bytes \in [Inode -> Seq(Byte)] : Grows(c, s, k, bytes)
  BY <1>4 DEF Grows, Takes, Uploading, TypeInv, TypeOK
<1>5. CASE \E p \in Path : Serves(c, p)
  BY <1>5 DEF Serves, Uploading, TypeInv, TypeOK
<1> QED
  BY <1>1, <1>2, <1>3, <1>4, <1>5

LEMMA CalmLinks ==
  ASSUME LinksInv, UNCHANGED <<files, dirs, disk>>,
         \A d \in Conn : Uploading(d)' => /\ Uploading(d)
                                          /\ uid'[d] = uid[d]
                                          /\ job'[d].path = job[d].path
  PROVE  LinksInv'
<1>1. UploadsLinked'
  BY DEF LinksInv, UploadsLinked
<1>2. RowsLinked'
  BY DEF LinksInv, RowsLinked, SongIn, FileExists
<1> QED
  BY <1>1, <1>2 DEF LinksInv

LEMMA EndsLinks ==
  ASSUME TypeInv, DbInv, UploadsInv, LinksInv, Ends
  PROVE  LinksInv'
<1>1. UploadsLinked'
  <2> SUFFICES ASSUME NEW d \in Conn, Uploading(d)', uid'[d] \in dirs'
               PROVE  disk'[job'[d].path] # None
    BY DEF UploadsLinked
  <2>1. Uploading(d) /\ UploadKept(d)
    BY EndsUploadKept
  <2>2. uid[d] \in dirs
    BY <2>1, UploadPath DEF UploadKept, Ends
  <2> QED
    BY <2>1, <2>2 DEF UploadKept, LinksInv, UploadsLinked
<1>2. RowsLinked'
  <2> SUFFICES ASSUME NEW p \in Path, SongIn(p)', p[1] \in dirs' PROVE disk'[p] # None
    BY DEF RowsLinked
  <2>1. SongIn(p)
    BY DEF Ends, SongIn, FileExists
  <2>2. p[1] \in dirs
    BY <2>1, SongOfUser DEF Ends
  <2>3. disk'[p] = disk[p]
    BY DEF Ends, UploadsInv
  <2> QED
    BY <2>1, <2>2, <2>3 DEF LinksInv, RowsLinked
<1> QED
  BY <1>1, <1>2 DEF LinksInv

LEMMA HeadsLinks ==
  ASSUME "open" \notin Faults, NEW c \in Conn, NEW p \in Path, NEW i \in Inode \cup {None}, TypeInv,
         UploadsInv, LinksInv, Heads(c, p, i)
  PROVE  LinksInv'
<1> USE SessionsAssumption
<1>1. /\ UNCHANGED <<files, dirs, uid>>
      /\ pc' = [pc EXCEPT ![c] = "size"]
      /\ \A d \in Conn \ {c} : job'[d] = job[d]
      /\ job'[c].path = p
  BY DEF Heads
<1>2. \A q \in Path : disk[q] # None => disk'[q] # None
  BY DEF Heads, TypeInv, TypeOK
<1>3. p[1] \in dirs => disk'[p] # None
  BY DEF Heads, TypeInv, TypeOK
<1>4. UploadsLinked'
  <2> SUFFICES ASSUME NEW d \in Conn, Uploading(d)', uid[d] \in dirs
               PROVE  disk'[job'[d].path] # None
    BY <1>1 DEF UploadsLinked
  <2>1. CASE d = c
    <3>1. p[1] = uid[c]
      BY DEF Heads, TypeInv, Sessioned, UploadsInv, Named
    <3> QED
      BY <1>1, <1>3, <2>1, <3>1
  <2>2. CASE d # c
    <3>1. Uploading(d) /\ job'[d] = job[d]
      BY <1>1, <2>2 DEF Uploading, TypeInv, TypeOK
    <3> QED
      BY <1>2, <3>1, UploadPath DEF LinksInv, UploadsLinked
  <2> QED
    BY <2>1, <2>2
<1>5. RowsLinked'
  BY <1>1, <1>2 DEF LinksInv, RowsLinked, SongIn, FileExists
<1> QED
  BY <1>4, <1>5 DEF LinksInv

(* Of the uploads that are left when c has logged its own, and of what is  *)
(* a song then.                                                            *)
LEMMA LogsOthers ==
  ASSUME NEW c \in Conn, NEW s \in Nat, NEW k \in Nat, NEW bytes \in [Inode -> Seq(Byte)],
         TypeInv, UploadsInv, Logs(c, s, k, bytes)
  PROVE  /\ \A d \in Conn : Uploading(d)' =>
              d # c /\ Uploading(d) /\ UNCHANGED <<pc[d], uid[d], ino[d], job[d]>>
         /\ \A p \in Path : SongIn(p)' => SongIn(p) \/ p = job[c].path
         /\ \A p \in Path : SongIn(p) => SongIn(p)'
<1>1. /\ Uploading(c) /\ ino' = [ino EXCEPT ![c] = None]
      /\ \A d \in Conn \ {c} : pc'[d] = pc[d] /\ job'[d] = job[d] /\ uid'[d] = uid[d]
      /\ pc'[c] \in {"off", "header"}
  BY LogsSessions
<1>2. job[c].path = <<uid[c], job[c].path[2]>>
  BY <1>1, UploadPath DEF UploadsInv, UploadsNew, Path
<1>3. AddFile(uid[c], job[c].path[2])
  BY DEF Logs, FileReceived
<1>4. ASSUME NEW p \in Path
      PROVE  /\ SongIn(p)' => SongIn(p) \/ p = job[c].path
             /\ SongIn(p) => SongIn(p)'
  BY <1>2, <1>3, AddFileSongs
<1> QED
  BY <1>1, <1>4 DEF Uploading, TypeInv, TypeOK

LEMMA LogsLinks ==
  ASSUME NEW c \in Conn, NEW s \in Nat, NEW k \in Nat, NEW bytes \in [Inode -> Seq(Byte)],
         TypeInv, UploadsInv, LinksInv, Logs(c, s, k, bytes)
  PROVE  LinksInv'
<1>1. UNCHANGED <<dirs, disk>> /\ Uploading(c)
  BY LogsSessions
<1>2. UploadsLinked'
  BY <1>1, LogsOthers DEF LinksInv, UploadsLinked
<1>3. RowsLinked'
  <2> SUFFICES ASSUME NEW p \in Path, SongIn(p)', p[1] \in dirs PROVE disk[p] # None
    BY <1>1 DEF RowsLinked
  <2>1. CASE SongIn(p)
    BY <2>1 DEF LinksInv, RowsLinked
  <2>2. CASE p = job[c].path
    BY <1>1, <2>2 DEF UploadsInv, UploadsNew, LinksInv, UploadsLinked
  <2> QED
    BY <2>1, <2>2, LogsOthers
<1> QED
  BY <1>2, <1>3 DEF LinksInv

LEMMA NextLinks ==
  ASSUME Answered, "open" \notin Faults
  PROVE  TypeInv /\ DbInv /\ StreamsInv /\ UploadsInv /\ LinksInv /\ [Next]_vars => LinksInv'
<1> SUFFICES ASSUME TypeInv, DbInv, StreamsInv, UploadsInv, LinksInv, [Next]_vars
             PROVE  LinksInv'
  OBVIOUS
<1>1. CASE UNCHANGED vars
  BY <1>1, CalmLinks DEF vars, Uploading
<1>2. ASSUME NEW c \in Conn, Touches(c) PROVE LinksInv'
  <2>1. CASE \/ Settles(c) \/ Sends(c) \/ StreamBreaks(c)
             \/ \E s \in Nat, k \in Nat, bytes \in [Inode -> Seq(Byte)] : Grows(c, s, k, bytes)
             \/ \E p \in Path : Serves(c, p)
    BY <2>1, CalmTouches, CalmLinks
  <2> QED
    BY <1>2, <2>1, EndsLinks, HeadsLinks, LogsLinks DEF Touches
<1> QED
  BY <1>1, <1>2, NextTouches, EndsLinks

(* For clients of DisciplinedSpec, and as long as no open fails, what is   *)
(* uploaded and what is logged is linked to a file, unless the user has no *)
(* directory.                                                              *)
THEOREM LinksAlwaysKept ==
  ASSUME Answered, "open" \notin Faults
  PROVE  DisciplinedSpec => []LinksInv
<1>1. TypeInv /\ DbInv /\ StreamsInv /\ UploadsInv /\ LinksInv /\ [Next]_vars => LinksInv'
  BY NextLinks
<1>2. Spec => []DbInv
  BY SessionsImplementDatabase, DatabaseInvariant, PTL
<1> QED
  BY <1>1, <1>2, InitLinks, TypesAlwaysHold, StreamsAlwaysHeld, UploadsStayApart, DisciplinedIsSpec,
     PTL DEF DisciplinedSpec, Spec

(* For clients of DisciplinedSpec a song in the table has its file,        *)
(* whatever but an open fails and whatever is cut short, unless its owner  *)
(* has no directory (RowsHaveFiles).                                       *)
THEOREM RowsAlwaysHaveFiles ==
  ASSUME Answered, "open" \notin Faults
  PROVE  DisciplinedSpec => []RowsHaveFiles
<1>1. TypeInv /\ LinksInv => RowsHaveFiles
  <2> SUFFICES ASSUME TypeInv, LinksInv, NEW f \in files, f.owner \in dirs
               PROVE  disk[<<f.owner, f.name>>] # None
    BY DEF RowsHaveFiles
  <2>1. <<f.owner, f.name>> \in Path
    BY DEF Path, Directory, TypeInv, TypeOK, DbTypeOK, FileRow
  <2> QED
    BY <2>1 DEF LinksInv, RowsLinked, SongIn, FileExists
<1> QED
  BY <1>1, DisciplinedIsSpec, TypesAlwaysHold, LinksAlwaysKept, PTL
-----------------------------------------------------------------------------
(* Files are complete. *)

LEMMA InitBytes == Init => BytesInv
  BY DEF Init, DbInit, BytesInv, UploadsOpen, BytesSoFar, SongsWhole, Uploading, SongIn, FileExists

(* A write that goes on where the last one ended, of bytes of one kind.    *)
LEMMA OverwriteGoesOn ==
  ASSUME NEW old, NEW pos \in Nat, NEW k \in Nat, NEW byte, old = [i \in 1 .. pos |-> byte]
  PROVE  Overwrite(old, pos, k, byte) = [i \in 1 .. pos + k |-> byte]
<1>1. Len(old) = pos
  OBVIOUS
<1> QED
  BY <1>1 DEF Overwrite

LEMMA TakesOwn ==
  ASSUME NEW c \in Conn, NEW s \in Nat, NEW k \in Nat, NEW bytes \in [Inode -> Seq(Byte)],
         TypeInv, StreamsInv, BytesInv, Takes(c, s, k, bytes), ino[c] # None
  PROVE  bytes[ino[c]] = [i \in 1 .. job[c].got + k |-> [by |-> c, of |-> s]]
<1> DEFINE old == content[ino[c]]
           pos == job[c].got
           byte == [by |-> c, of |-> s]
<1>1. /\ Uploading(c) /\ ino[c] \in Inode /\ pos \in Nat /\ content \in [Inode -> Seq(Byte)]
      /\ bytes = Written(c, pos, k, byte)
  BY DEF Takes, TypeInv, TypeOK, Job
<1>2. old = [i \in 1 .. pos |-> byte]
  <2>1. old = [i \in 1 .. pos |-> [by |-> c, of |-> job[c].size]]
    BY <1>1 DEF BytesInv, BytesSoFar
  <2>2. CASE pc[c] = "data"
    BY <2>1, <2>2 DEF Takes
  <2>3. CASE pc[c] = "size"
    <3>1. pos = 0
      BY <2>3 DEF StreamsInv, Fresh
    <3> QED
      BY <2>1, <3>1
  <2> QED
    BY <1>1, <2>2, <2>3 DEF Uploading
<1> HIDE DEF byte, pos
<1>3. CASE k = 0
  <2>1. bytes = content
    BY <1>1, <1>3 DEF Written
  <2>2. pos + k = pos
    BY <1>1, <1>3
  <2>3. bytes[ino[c]] = [i \in 1 .. pos + k |-> byte]
    BY <1>2, <2>1, <2>2
  <2> QED
    BY <2>3 DEF pos, byte
<1>4. CASE k # 0
  <2>1. bytes = [content EXCEPT ![ino[c]] = Overwrite(old, pos, k, byte)]
    BY <1>1, <1>4 DEF Written
  <2> HIDE DEF old
  <2>2. Overwrite(old, pos, k, byte) = [i \in 1 .. pos + k |-> byte]
    BY <1>1, <1>2, OverwriteGoesOn
  <2>3. bytes[ino[c]] = [i \in 1 .. pos + k |-> byte]
    BY <1>1, <2>1, <2>2
  <2> QED
    BY <2>3 DEF pos, byte
<1> QED
  BY <1>3, <1>4

(* A file of n bytes or more, all announced as n.                          *)
LEMMA WholeFile ==
  ASSUME NEW c \in Conn, NEW n \in Nat, NEW len \in Nat, n <= len, NEW exceeds \in BOOLEAN,
         exceeds \/ n = len,
         NEW bytes, bytes = [i \in 1 .. len |-> [by |-> c, of |-> n]]
  PROVE  Whole(bytes, exceeds)
<1>1. Len(bytes) = len
  OBVIOUS
<1> QED
  BY <1>1 DEF Whole

(* The bytes of an upload are kept where its session and its file are.     *)
LEMMA ReceivedKept ==
  ASSUME BytesInv, NEW d \in Conn, Uploading(d), UNCHANGED <<ino[d], job[d]>>,
         ino[d] # None => content'[ino[d]] = content[ino[d]]
  PROVE  ino'[d] # None =>
           content'[ino'[d]] = [i \in 1 .. job'[d].got |-> [by |-> d, of |-> job'[d].size]]
  BY DEF BytesInv, BytesSoFar

LEMMA OpenFileKept ==
  ASSUME NEW f \in [Inode -> Seq(Byte)], NEW d \in Conn, TypeInv, UNCHANGED ino[d]
  PROVE  ino[d] # None => Reclaimed(f)[ino[d]] = f[ino[d]]
<1>1. ino[d] # None => ino[d] \in Inode
  BY DEF TypeInv, TypeOK
<1> QED
  BY <1>1, ReclaimedKeeps

(* UploadsOpen and BytesSoFar, as one statement of one connection.           *)
UploadSound(d) ==
  /\ uid[d] \in dirs => ino[d] # None
  /\ ino[d] # None =>
       content[ino[d]] = [i \in 1 .. job[d].got |-> [by |-> d, of |-> job[d].size]]

LEMMA EndsSound ==
  ASSUME TypeInv, UploadsInv, BytesInv, Ends, NEW d \in Conn, Uploading(d)'
  PROVE  UploadSound(d)'
<1>1. Uploading(d) /\ UNCHANGED <<uid[d], ino[d], job[d]>>
  BY EndsUploadKept DEF UploadKept
<1>2. uid[d] \in dirs' => uid[d] \in dirs
  BY <1>1, UploadPath DEF Ends
<1>3. ino[d] # None => content'[ino[d]] = content[ino[d]]
  <2>1. content' = Reclaimed(content) /\ content \in [Inode -> Seq(Byte)]
    BY DEF Ends, Down, Leave, TypeInv, TypeOK
  <2> QED
    BY <1>1, <2>1, OpenFileKept
<1> QED
  BY <1>1, <1>2, <1>3, ReceivedKept DEF UploadSound, BytesInv, UploadsOpen

LEMMA HeadsSound ==
  ASSUME OneUploadEach, "open" \notin Faults, NEW c \in Conn, NEW p \in Path,
         NEW i \in Inode \cup {None}, TypeInv, StreamsInv, UploadsInv, BytesInv, Heads(c, p, i),
         NEW d \in Conn, Uploading(d)'
  PROVE  UploadSound(d)'
<1> USE SessionsAssumption
<1>1. /\ UNCHANGED <<uid, dirs>> /\ pc' = [pc EXCEPT ![c] = "size"]
      /\ ino' = [ino EXCEPT ![c] = i]
      /\ \A e \in Conn \ {c} : job'[e] = job[e]
      /\ job'[c].got = 0
  BY DEF Heads, StreamsInv, Fresh
<1>2. CASE d = c
  <2>1. ino'[c] = i /\ p[1] = uid[c]
    BY <1>1 DEF Heads, TypeInv, TypeOK, Sessioned, UploadsInv, Named
  <2>2. p[1] \in dirs => i # None
    BY DEF Heads
  <2>3. i # None => content'[i] = <<>>
    BY DEF Heads, TypeInv, TypeOK
  <2>4. [j \in 1 .. 0 |-> [by |-> c, of |-> job'[c].size]] = <<>>
    OBVIOUS
  <2> QED
    BY <1>1, <1>2, <2>1, <2>2, <2>3, <2>4 DEF UploadSound
<1>3. CASE d # c
  <2>1. Uploading(d) /\ UNCHANGED <<uid[d], ino[d], job[d]>>
    BY <1>1, <1>3 DEF Uploading, TypeInv, TypeOK
  <2>2. ino[d] # None => content'[ino[d]] = content[ino[d]]
    <3>1. job[d].path \in Path /\ job[d].path # p /\ ino[d] \in {None, disk[job[d].path]}
      BY <2>1, UploadPath, HeadsApart DEF UploadsInv, UploadsNew
    <3>2. ino[d] # None => ino[d] # i \/ UNCHANGED content
      BY <3>1 DEF Heads, StreamsInv, OneLink, InUse
    <3>3. ino[d] # None => ino[d] \in Inode
      BY DEF TypeInv, TypeOK
    <3> QED
      BY <3>2, <3>3 DEF Heads, TypeInv, TypeOK
  <2> QED
    BY <1>1, <2>1, <2>2, ReceivedKept DEF UploadSound, BytesInv, UploadsOpen
<1> QED
  BY <1>2, <1>3

LEMMA TakesSound ==
  ASSUME NEW c \in Conn, NEW s \in Nat, NEW k \in Nat, NEW bytes \in [Inode -> Seq(Byte)],
         TypeInv, StreamsInv, UploadsInv, BytesInv, Grows(c, s, k, bytes) \/ Logs(c, s, k, bytes),
         NEW d \in Conn, Uploading(d)'
  PROVE  UploadSound(d)'
<1>1. Takes(c, s, k, bytes) /\ Uploading(c)
  BY DEF Grows, Logs, Takes
<1>2. CASE d = c
  <2>1. Grows(c, s, k, bytes)
    BY <1>2, LogsOthers
  <2>2. /\ UNCHANGED <<uid, ino, dirs>> /\ content' = bytes
        /\ job'[c].got = job[c].got + k /\ job'[c].size = s
    BY <2>1 DEF Grows
  <2>3. ino[c] # None => bytes[ino[c]] = [i \in 1 .. job[c].got + k |-> [by |-> c, of |-> s]]
    BY <1>1, TakesOwn
  <2>4. uid[c] \in dirs => ino[c] # None
    BY <1>1 DEF BytesInv, UploadsOpen
  <2> QED
    BY <1>2, <2>2, <2>3, <2>4 DEF UploadSound
<1>3. CASE d # c
  <2>1. Uploading(d) /\ UNCHANGED <<uid[d], ino[d], job[d], dirs>>
    <3>1. CASE Grows(c, s, k, bytes)
      BY <1>3, <3>1 DEF Grows, Uploading, TypeInv, TypeOK
    <3>2. CASE Logs(c, s, k, bytes)
      BY <3>2, LogsOthers, LogsSessions
    <3> QED
      BY <3>1, <3>2
  <2>2. ino[d] # None => ino[d] \in Inode /\ ino[d] # ino[c]
    BY <1>1, <1>3, <2>1, UploadsNeverClash DEF NoClash, TypeInv, TypeOK
  <2>3. ino[d] # None => bytes[ino[d]] = content[ino[d]]
    <3>1. \A i \in Inode : i # ino[c] => bytes[i] = content[i]
      BY <1>1, TakesElsewhere
    <3> QED
      BY <2>2, <3>1
  <2>4. content' = bytes \/ content' = Reclaimed(bytes)
    BY LogsSessions DEF Grows
  <2>5. ino[d] # None => content'[ino[d]] = content[ino[d]]
    BY <2>1, <2>3, <2>4, OpenFileKept
  <2> QED
    BY <2>1, <2>5, ReceivedKept DEF UploadSound, BytesInv, UploadsOpen
<1> QED
  BY <1>2, <1>3

LEMMA TouchesSound ==
  ASSUME OneUploadEach, {"open", "write"} \cap Faults = {}, NEW c \in Conn, TypeInv, StreamsInv,
         UploadsInv, BytesInv, Touches(c), NEW d \in Conn, Uploading(d)'
  PROVE  UploadSound(d)'
<1>1. CASE Settles(c) \/ Sends(c) \/ \E p \in Path : Serves(c, p)
  <2>1. d # c
    BY <1>1 DEF Settles, Sends, Serves, Uploading, TypeInv, TypeOK
  <2>2. Uploading(d) /\ UNCHANGED <<uid[d], ino[d], job[d], dirs>>
    BY <1>1, <2>1 DEF Settles, Sends, Serves, Uploading, TypeInv, TypeOK
  <2>3. content' = content \/ content' = Reclaimed(content)
    BY <1>1 DEF Settles, Sends, Serves
  <2>4. content \in [Inode -> Seq(Byte)]
    BY DEF TypeInv, TypeOK
  <2>5. ino[d] # None => content'[ino[d]] = content[ino[d]]
    BY <2>2, <2>3, <2>4, OpenFileKept
  <2> QED
    BY <2>2, <2>5, ReceivedKept DEF UploadSound, BytesInv, UploadsOpen
<1>2. CASE Ends
  BY <1>2, EndsSound
<1>3. CASE \E p \in Path, i \in Inode \cup {None} : Heads(c, p, i)
  BY <1>3, HeadsSound
<1>4. CASE \E s \in Nat, k \in Nat, bytes \in [Inode -> Seq(Byte)] :
             Grows(c, s, k, bytes) \/ Logs(c, s, k, bytes)
  BY <1>4, TakesSound
<1>5. ~StreamBreaks(c)
  BY DEF StreamBreaks
<1> QED
  BY <1>1, <1>2, <1>3, <1>4, <1>5 DEF Touches

(* A song is new in the table only when its upload is logged.              *)
LEMMA NewSong ==
  ASSUME TypeInv, UploadsInv, Ends \/ \E c \in Conn : Touches(c),
         NEW p \in Path, SongIn(p)', ~SongIn(p)
  PROVE  \E c \in Conn, s \in Nat, k \in Nat, bytes \in [Inode -> Seq(Byte)] :
           Logs(c, s, k, bytes) /\ p = job[c].path
<1>1. files' # files /\ ~Ends
  BY DEF Ends, SongIn, FileExists
<1>2. PICK c \in Conn : Touches(c)
  BY <1>1
<1>3. \A q \in Path, i \in Inode \cup {None} : ~Heads(c, q, i)
  BY <1>1 DEF Heads
<1>4. PICK s \in Nat, k \in Nat, bytes \in [Inode -> Seq(Byte)] : Logs(c, s, k, bytes)
  BY <1>1, <1>2, <1>3, CalmTouches DEF Touches
<1> QED
  BY <1>4, LogsOthers

LEMMA NextSongsWhole ==
  ASSUME Answered, TypeInv, DbInv, StreamsInv, UploadsInv, LinksInv, BytesInv,
         Ends \/ \E c \in Conn : Touches(c)
  PROVE  SongsWhole'
<1> SUFFICES ASSUME NEW p \in Path, SongIn(p)', p[1] \in dirs', disk'[p] # None
             PROVE  Whole(content'[disk'[p]], Extra # 0)
  BY DEF SongsWhole, Whole
<1>1. CASE SongIn(p)
  <2>1. disk'[p] = disk[p] /\ content'[disk[p]] = content[disk[p]]
    BY <1>1, TouchesFrozen
  <2>2. p[1] \in dirs
    <3>1. p[1] \in users
      BY <1>1, SongOfUser
    <3>2. CASE Ends
      BY <3>1, <3>2 DEF Ends
    <3>3. ASSUME NEW c \in Conn, Touches(c), ~Ends PROVE dirs' = dirs
      BY <3>3, CalmTouches, LogsSessions DEF Touches, Heads
    <3> QED
      BY <3>2, <3>3
  <2> QED
    BY <1>1, <2>1, <2>2 DEF BytesInv, SongsWhole
<1>2. CASE ~SongIn(p)
  <2>1. PICK c \in Conn, s \in Nat, k \in Nat, bytes \in [Inode -> Seq(Byte)] :
          Logs(c, s, k, bytes) /\ p = job[c].path
    BY <1>2, NewSong
  <2>2. Uploading(c) /\ UNCHANGED <<dirs, disk>> /\ content' = Reclaimed(bytes)
    <3>1. Logs(c, s, k, bytes)
      BY <2>1
    <3>2. UNCHANGED <<dirs, disk>> /\ content' = Reclaimed(bytes) /\ Uploading(c)
      BY ONLY <3>1, TypeInv, LogsSessions
    <3> QED
      BY <3>2
  <2>3. p[1] = uid[c] /\ ino[c] = disk[p]
    BY <2>1, <2>2 DEF UploadsInv, UploadsNew, BytesInv, UploadsOpen
  <2>4. disk[p] \in Inode
    BY <2>2 DEF TypeInv, TypeOK
  <2>5. content'[disk[p]] = bytes[disk[p]]
    BY <2>2, <2>4, ReclaimedKeeps
  <2>6. bytes[disk[p]] = [i \in 1 .. job[c].got + k |-> [by |-> c, of |-> s]]
    BY <2>1, <2>2, <2>3, TakesOwn DEF Logs
  <2>7. /\ job[c].got + k \in Nat /\ s <= job[c].got + k
        /\ Extra # 0 \/ s = job[c].got + k
    BY <2>1 DEF Logs, TypeInv, TypeOK, Job
  <2>8. \A len \in Nat :
          len = job[c].got + k => Whole([i \in 1 .. len |-> [by |-> c, of |-> s]], Extra # 0)
    BY <2>7, WholeFile
  <2>9. Whole([i \in 1 .. job[c].got + k |-> [by |-> c, of |-> s]], Extra # 0)
    BY <2>7, <2>8
  <2> QED
    BY <2>2, <2>5, <2>6, <2>9
<1> QED
  BY <1>1, <1>2

LEMMA NextBytes ==
  ASSUME Answered, {"open", "write"} \cap Faults = {}
  PROVE  TypeInv /\ DbInv /\ StreamsInv /\ UploadsInv /\ LinksInv /\ BytesInv
           /\ [Next /\ OneUploadEach]_vars => BytesInv'
<1> SUFFICES ASSUME TypeInv, DbInv, StreamsInv, UploadsInv, LinksInv, BytesInv,
                    [Next /\ OneUploadEach]_vars
             PROVE  BytesInv'
  OBVIOUS
<1>1. CASE UNCHANGED vars
  <2>1. UploadsOpen' /\ BytesSoFar'
    BY <1>1 DEF vars, BytesInv, UploadsOpen, BytesSoFar, Uploading
  <2>2. SongsWhole'
    BY <1>1 DEF vars, BytesInv, SongsWhole, SongIn, FileExists, Whole
  <2> QED
    BY <2>1, <2>2 DEF BytesInv
<1>2. CASE OneUploadEach /\ (Ends \/ \E c \in Conn : Touches(c))
  <2>1. \A d \in Conn : Uploading(d)' => UploadSound(d)'
    BY <1>2, EndsSound, TouchesSound
  <2>2. UploadsOpen' /\ BytesSoFar'
    BY <2>1 DEF UploadSound, UploadsOpen, BytesSoFar
  <2> QED
    BY <1>2, <2>2, NextSongsWhole DEF BytesInv
<1> QED
  BY <1>1, <1>2, NextTouches

(* For clients of DisciplinedSpec, and as long as no open and no write     *)
(* fails, an upload's file holds what has been received of it and the file *)
(* of a song is complete.                                                  *)
THEOREM BytesAlwaysKept ==
  ASSUME Answered, {"open", "write"} \cap Faults = {}
  PROVE  DisciplinedSpec => []BytesInv
<1>1. TypeInv /\ DbInv /\ StreamsInv /\ UploadsInv /\ LinksInv /\ BytesInv
        /\ [Next /\ OneUploadEach]_vars => BytesInv'
  BY NextBytes
<1>2. Spec => []DbInv
  BY SessionsImplementDatabase, DatabaseInvariant, PTL
<1>3. DisciplinedSpec => []LinksInv
  BY LinksAlwaysKept
<1> QED
  BY <1>1, <1>2, <1>3, InitBytes, DisciplinedIsSpec, TypesAlwaysHold, StreamsAlwaysHeld,
     UploadsStayApart, PTL
  DEF DisciplinedSpec

LEMMA SongsWholeLogged ==
  ASSUME TypeInv, BytesInv
  PROVE  LoggedWith(Extra # 0)
<1> SUFFICES ASSUME NEW f \in files, f.owner \in dirs, disk[<<f.owner, f.name>>] # None
             PROVE  Whole(content[disk[<<f.owner, f.name>>]], Extra # 0)
  BY DEF LoggedWith
<1>1. <<f.owner, f.name>> \in Path
  BY DEF Path, Directory, TypeInv, TypeOK, DbTypeOK, FileRow
<1> QED
  BY <1>1 DEF BytesInv, SongsWhole, SongIn, FileExists

(* For clients of DisciplinedSpec the file of a song in the table has all  *)
(* the bytes one client announced, no gap and no bytes of another client   *)
(* (FilesAreComplete).                                                     *)
THEOREM FilesAlwaysComplete ==
  ASSUME Answered, {"open", "write"} \cap Faults = {}
  PROVE  DisciplinedSpec => []FilesAreComplete
<1>1. TypeInv /\ BytesInv => FilesAreComplete
  BY SongsWholeLogged DEF FilesAreComplete, LoggedWith, Whole
<1>2. DisciplinedSpec => []BytesInv
  BY BytesAlwaysKept
<1> QED
  BY <1>1, <1>2, DisciplinedIsSpec, TypesAlwaysHold, PTL

(* And nothing more than that, if they send no more than they announce     *)
(* (FilesAreWhole).                                                        *)
THEOREM FilesAlwaysWhole ==
  ASSUME Answered, {"open", "write"} \cap Faults = {}, Extra = 0
  PROVE  DisciplinedSpec => []FilesAreWhole
<1>1. TypeInv /\ BytesInv => FilesAreWhole
  BY SongsWholeLogged DEF FilesAreWhole
<1>2. DisciplinedSpec => []BytesInv
  BY BytesAlwaysKept
<1> QED
  BY <1>1, <1>2, DisciplinedIsSpec, TypesAlwaysHold, PTL
-----------------------------------------------------------------------------
(* What is sent. *)

LEMMA InitSent == Init => SentInv
  BY DEF Init, SentInv, SentSongs, SentAsAnnounced

(* SentSongs and SentAsAnnounced, as one statement of one connection.      *)
SentSound(d) ==
  /\ ino[d] # None
  /\ Len(content[ino[d]]) = job[d].size
  /\ job[d].got <= job[d].size
  /\ \A p \in Path : disk[p] = ino[d] => SongIn(p)

LEMMA SentKept ==
  ASSUME SentInv, NEW d \in Conn, pc[d] = "sending", UNCHANGED <<ino[d], job[d]>>,
         content'[ino[d]] = content[ino[d]],
         \A p \in Path : disk'[p] = ino[d] => SongIn(p)'
  PROVE  SentSound(d)'
  BY DEF SentSound, SentInv, SentSongs, SentAsAnnounced, SongIn, FileExists

LEMMA EndsSent ==
  ASSUME "unlink" \notin Faults, TypeInv, UploadsInv, SentInv, Ends,
         NEW d \in Conn, pc'[d] = "sending"
  PROVE  SentSound(d)'
<1>1. UNCHANGED <<pc[d], ino[d], job[d]>> /\ ~Down
  BY EndsSessions
<1>2. ino[d] \in Inode
  BY <1>1 DEF SentInv, SentAsAnnounced, TypeInv, TypeOK
<1>3. content'[ino[d]] = content[ino[d]]
  <2>1. content' = Reclaimed(content) /\ content \in [Inode -> Seq(Byte)]
    BY DEF Ends, Down, Leave, TypeInv, TypeOK
  <2> QED
    BY <1>1, <1>2, <2>1, OpenFileKept, SessionsAssumption
<1>4. \A p \in Path : disk'[p] = ino[d] => SongIn(p)'
  <2> SUFFICES ASSUME NEW p \in Path, disk'[p] = ino[d] PROVE SongIn(p)'
    OBVIOUS
  <2>1. disk'[p] # None /\ disk'[p] = disk[p]
    BY <1>2, SessionsAssumption DEF Ends
  <2>2. SongIn(p)
    BY <1>1, <2>1 DEF SentInv, SentSongs
  <2> QED
    BY <1>1, <2>1, <2>2 DEF Ends, UploadsInv
<1> QED
  BY <1>1, <1>3, <1>4, SentKept

LEMMA HeadsSent ==
  ASSUME Answered, NEW c \in Conn, NEW q \in Path, NEW i \in Inode \cup {None}, TypeInv,
         StreamsInv, UploadsInv, SentInv, Heads(c, q, i), NEW d \in Conn, pc'[d] = "sending"
  PROVE  SentSound(d)'
<1>1. d # c /\ pc[d] = "sending" /\ UNCHANGED <<ino[d], job[d]>>
  BY DEF Heads, TypeInv, TypeOK
<1>2. ino[d] \in Inode
  BY <1>1 DEF SentInv, SentAsAnnounced, TypeInv, TypeOK
<1>3. ~SongIn(q)
  <2>1. uname[c] = uid[c]
    BY DEF Heads, TypeInv, Sessioned, UploadsInv, Named
  <2> QED
    BY <2>1 DEF Heads, Answered
<1>4. disk[q] # ino[d]
  BY <1>1, <1>3 DEF SentInv, SentSongs
<1>5. i # ino[d]
  BY <1>2, <1>4, SessionsAssumption DEF Heads, InUse
<1>6. content'[ino[d]] = content[ino[d]]
  BY <1>2, <1>5 DEF Heads, TypeInv, TypeOK
<1>7. \A p \in Path : disk'[p] = ino[d] => disk[p] = ino[d]
  BY <1>5 DEF Heads, TypeInv, TypeOK
<1>8. \A p \in Path : disk'[p] = ino[d] => SongIn(p)'
  BY <1>1, <1>7 DEF Heads, SentInv, SentSongs, SongIn, FileExists
<1> QED
  BY <1>1, <1>6, <1>8, SentKept

LEMMA TakesSent ==
  ASSUME NEW c \in Conn, NEW s \in Nat, NEW k \in Nat, NEW bytes \in [Inode -> Seq(Byte)],
         TypeInv, UploadsInv, SentInv, Grows(c, s, k, bytes) \/ Logs(c, s, k, bytes),
         NEW d \in Conn, pc'[d] = "sending"
  PROVE  SentSound(d)'
<1>1. Takes(c, s, k, bytes) /\ Uploading(c) /\ disk' = disk
  BY LogsSessions DEF Grows, Logs, Takes
<1>2. d # c /\ pc[d] = "sending" /\ UNCHANGED <<ino[d], job[d]>>
  <2>1. CASE Grows(c, s, k, bytes)
    BY <2>1 DEF Grows, TypeInv, TypeOK
  <2>2. CASE Logs(c, s, k, bytes)
    <3>1. /\ ino' = [ino EXCEPT ![c] = None]
          /\ \A e \in Conn \ {c} : pc'[e] = pc[e] /\ job'[e] = job[e]
          /\ pc'[c] \in {"off", "header"}
      BY <2>2, LogsSessions
    <3> QED
      BY <3>1 DEF TypeInv, TypeOK
  <2> QED
    BY <2>1, <2>2
<1>3. ino[d] \in Inode
  BY <1>2 DEF SentInv, SentAsAnnounced, TypeInv, TypeOK
<1>4. ino[d] # ino[c]
  <2>1. job[c].path \in Path /\ ~SongIn(job[c].path) /\ ino[c] \in {None, disk[job[c].path]}
    BY <1>1, UploadPath DEF UploadsInv, UploadsNew
  <2> QED
    BY <1>2, <1>3, <2>1, SessionsAssumption DEF SentInv, SentSongs
<1>5. content'[ino[d]] = content[ino[d]]
  <2>1. \A i \in Inode : i # ino[c] => bytes[i] = content[i]
    BY <1>1, TakesElsewhere
  <2>2. content' = bytes \/ content' = Reclaimed(bytes)
    BY LogsSessions DEF Grows
  <2> QED
    BY <1>2, <1>3, <1>4, <2>1, <2>2, OpenFileKept, SessionsAssumption
<1>6. \A p \in Path : SongIn(p) => SongIn(p)'
  <2>1. CASE Grows(c, s, k, bytes)
    BY <2>1 DEF Grows, SongIn, FileExists
  <2> QED
    BY <2>1, LogsOthers
<1>7. \A p \in Path : disk'[p] = ino[d] => SongIn(p)'
  BY <1>1, <1>2, <1>6 DEF SentInv, SentSongs
<1> QED
  BY <1>2, <1>5, <1>7, SentKept

LEMMA ServesSent ==
  ASSUME "open" \notin Faults, NEW c \in Conn, NEW q \in Path, TypeInv, StreamsInv, Serves(c, q)
  PROVE  SentSound(c)'
<1> DEFINE i == disk[q]
<1>1. /\ i \in Inode /\ ino' = [ino EXCEPT ![c] = i] /\ content' = Reclaimed(content)
      /\ job'[c].size = Len(content[i]) /\ job'[c].got = 0
      /\ UNCHANGED <<files, disk>>
  BY DEF Serves
<1>2. ino'[c] = i
  BY <1>1 DEF TypeInv, TypeOK
<1>3. content'[i] = content[i]
  BY <1>1, ReclaimedKeeps DEF TypeInv, TypeOK
<1>4. Len(content[i]) \in Nat
  BY <1>1 DEF TypeInv, TypeOK
<1>5. \A p \in Path : disk[p] = i => p = q
  BY <1>1, SessionsAssumption DEF StreamsInv, OneLink
<1>6. \A p \in Path : disk'[p] = i => SongIn(p)'
  BY <1>1, <1>5 DEF Serves, SongIn, FileExists
<1>7. i # None
  BY <1>1, SessionsAssumption
<1> HIDE DEF i
<1> QED
  BY <1>1, <1>2, <1>3, <1>4, <1>6, <1>7 DEF SentSound, SongIn, FileExists

LEMMA TouchesSent ==
  ASSUME Answered, {"open", "unlink"} \cap Faults = {}, NEW c \in Conn, TypeInv, StreamsInv,
         UploadsInv, SentInv, Touches(c), NEW d \in Conn, pc'[d] = "sending"
  PROVE  SentSound(d)'
<1>1. ASSUME UNCHANGED <<pc[d], ino[d], job[d], files, disk>>,
             content' = content \/ content' = Reclaimed(content)
      PROVE  SentSound(d)'
  <2>1. ino[d] # None /\ content \in [Inode -> Seq(Byte)]
    BY <1>1 DEF SentInv, SentAsAnnounced, TypeInv, TypeOK
  <2>2. content'[ino[d]] = content[ino[d]]
    BY <1>1, <2>1, OpenFileKept
  <2>3. \A p \in Path : disk'[p] = ino[d] => SongIn(p)'
    BY <1>1 DEF SentInv, SentSongs, SongIn, FileExists
  <2> QED
    BY <1>1, <2>2, <2>3, SentKept
<1>2. CASE Settles(c)
  BY <1>1, <1>2 DEF Settles, TypeInv, TypeOK
<1>3. CASE Sends(c)
  <2>1. CASE d = c
    <3>1. /\ ino[c] # None /\ Len(content[ino[c]]) = job[c].size
          /\ \A p \in Path : disk[p] = ino[c] => SongIn(p)
      BY <1>3 DEF Sends, SentInv, SentSongs, SentAsAnnounced
    <3> QED
      BY <1>3, <2>1, <3>1 DEF Sends, SentSound, SongIn, FileExists
  <2>2. CASE d # c
    BY <1>1, <1>3, <2>2 DEF Sends
  <2> QED
    BY <2>1, <2>2
<1>4. CASE Ends
  BY <1>4, EndsSent
<1>5. CASE \E p \in Path, i \in Inode \cup {None} : Heads(c, p, i)
  BY <1>5, HeadsSent
<1>6. CASE \E s \in Nat, k \in Nat, bytes \in [Inode -> Seq(Byte)] :
             Grows(c, s, k, bytes) \/ Logs(c, s, k, bytes)
  BY <1>6, TakesSent
<1>7. ASSUME NEW p \in Path, Serves(c, p) PROVE SentSound(d)'
  <2>1. CASE d = c
    BY <1>7, <2>1, ServesSent
  <2>2. CASE d # c
    BY <1>1, <1>7, <2>2 DEF Serves, TypeInv, TypeOK
  <2> QED
    BY <2>1, <2>2
<1>8. CASE StreamBreaks(c)
  <2>1. d # c
    BY <1>8, BreaksStream DEF Uploading
  <2> QED
    BY <1>1, <1>8, <2>1, BreaksStream DEF TypeInv, TypeOK
<1> QED
  BY <1>2, <1>3, <1>4, <1>5, <1>6, <1>7, <1>8 DEF Touches

LEMMA NextSent ==
  ASSUME Answered, {"open", "unlink"} \cap Faults = {}
  PROVE  TypeInv /\ StreamsInv /\ UploadsInv /\ SentInv /\ [Next]_vars => SentInv'
<1> SUFFICES ASSUME TypeInv, StreamsInv, UploadsInv, SentInv, [Next]_vars PROVE SentInv'
  OBVIOUS
<1>1. CASE UNCHANGED vars
  BY <1>1 DEF vars, SentInv, SentSongs, SentAsAnnounced, SongIn, FileExists
<1>2. CASE Ends \/ \E c \in Conn : Touches(c)
  <2>1. \A d \in Conn : pc'[d] = "sending" => SentSound(d)'
    BY <1>2, EndsSent, TouchesSent
  <2> QED
    BY <2>1 DEF SentSound, SentInv, SentSongs, SentAsAnnounced
<1> QED
  BY <1>1, <1>2, NextTouches

LEMMA SentInvariant ==
  ASSUME Answered, {"open", "unlink"} \cap Faults = {}
  PROVE  DisciplinedSpec => []SentInv
<1>1. TypeInv /\ StreamsInv /\ UploadsInv /\ SentInv /\ [Next]_vars => SentInv'
  BY NextSent
<1> QED
  BY <1>1, InitSent, TypesAlwaysHold, StreamsAlwaysHeld, UploadsStayApart, DisciplinedIsSpec,
     PTL DEF DisciplinedSpec, Spec

(* For clients of DisciplinedSpec the file a get reads keeps the length    *)
(* the get has announced, whatever becomes of the song meanwhile           *)
(* (SentAsAnnounced); of which song's bytes they are nothing is said.      *)
THEOREM AlwaysSentAsAnnounced ==
  ASSUME Answered, {"open", "unlink"} \cap Faults = {}
  PROVE  DisciplinedSpec => []SentAsAnnounced
<1>1. SentInv => SentAsAnnounced
  BY DEF SentInv
<1> QED
  BY <1>1, SentInvariant, PTL

=============================================================================
