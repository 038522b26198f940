------------------------- MODULE SessionsProperties -------------------------
(***************************************************************************)
(* What the sessions keep true of the tables, of the files under           *)
(* files_root and of what is sent.  Some of it holds whatever fails and    *)
(* whatever clients do, some only under the faults of SafeFaults, and some *)
(* only when no two sessions upload one name at a time, which the code     *)
(* leaves to the clients (DisciplinedSpec).  The properties of the last    *)
(* section are what comments of the code say and the code does not do.     *)
(***************************************************************************)
EXTENDS Sessions

(* The faults under which the files still follow the tables. *)
SafeFaults ==
  {"login", "library", "list", "insert", "freedrow", "remove", "share", "mkdir", "crash"}

(* The environment of DisciplinedSpec: no upload begins to a path that     *)
(* another session is uploading to.  Nothing in get_file_header            *)
(* (connection_file_management.cpp:171-183) asks for this; NoClash, in the *)
(* last section, is what becomes of it without.                            *)
OneUploadEach ==
  \A c, d \in Conn :
    Uploading(d) /\ ~Uploading(c) /\ pc'[c] = "size" => job'[c].path # job[d].path

DisciplinedSpec == Init /\ [][Next /\ OneUploadEach]_vars

-----------------------------------------------------------------------------
(* The files follow the tables, for clients of DisciplinedSpec. *)

(* A song in the table has its file, whatever was interrupted: its row is  *)
(* written after the file (add_file, connection_file_management.cpp:235,   *)
(* 255) and deleted before it (remove_files, 292).  A user whose directory *)
(* could not be made (connection_user_management.cpp:75) has no files.     *)
RowsHaveFiles ==
  \A f \in files : f.owner \in dirs => disk[<<f.owner, f.name>>] # None

(* One client's bytes, as many as it announced; exceeds says what to make  *)
(* of more than that.                                                      *)
Whole(bytes, exceeds) ==
  \E c \in Conn, n \in 0 .. Len(bytes) :
    /\ bytes = [i \in 1 .. Len(bytes) |-> [by |-> c, of |-> n]]
    /\ exceeds \/ n = Len(bytes)

LoggedWith(exceeds) ==
  \A f \in files :
    LET i == disk[<<f.owner, f.name>>]
    IN  f.owner \in dirs /\ i # None => Whole(content[i], exceeds)

(* The file of a song in the table is what one client announced and sent,  *)
(* all of it and nothing else: an upload that was cut short is never       *)
(* logged, and one that starts afresh on the remains of another truncates  *)
(* them (get_file_header, 182).                                            *)
FilesAreWhole == LoggedWith(FALSE)

(* The same where clients may send more than they announced: the excess    *)
(* may be logged with the file when it came in the read that has the size  *)
(* (get_file_size, 228), but a file is never short, never has a gap and    *)
(* never has the bytes of two clients.                                     *)
FilesAreComplete == LoggedWith(TRUE)

(* As long as a get is sending a song, the file it reads has the length    *)
(* send_files announced (50), also when the owner removes the song and     *)
(* uploads another under its name meanwhile: the server never has to send  *)
(* more or less than it said.                                              *)
SentAsAnnounced ==
  \A c \in Conn :
    pc[c] = "sending" => /\ ino[c] # None
                         /\ Len(content[ino[c]]) = job[c].size
                         /\ job[c].got <= job[c].size

-----------------------------------------------------------------------------
(* The files of songs, whatever clients do. *)

(* While a song is in the table its path stays linked to one file, nothing *)
(* is ever cut off that file, and nobody writes to it but a session of the *)
(* owner whose upload of that name had begun before the song was logged:   *)
(* does_file_exist is asked when an upload begins (173) and the row is     *)
(* written when one ends (235, 255), so that of two uploads of a name the  *)
(* second goes on writing to a song that the first has put in the table.   *)
LoggedFilesKept ==
  [][\A f \in files \cap files' :
       LET p == <<f.owner, f.name>>
           i == disk[p]
       IN  /\ disk'[p] = i
           /\ i # None /\ content'[i] # content[i] =>
                /\ Len(content'[i]) >= Len(content[i])
                /\ \E c \in Conn :
                     Uploading(c) /\ job[c].path = p /\ uid[c] = f.owner /\ ino[c] = i]_vars

(* The whole file has come in, and the handler has gone on to add_files. *)
Received(c) ==
  /\ Uploading(c) /\ pc'[c] # "data"
  /\ \/ \E s \in 0 .. MaxSize, k \in 0 .. MaxSize + Extra : GetFileSize(c, s, k)
     \/ \E k \in 1 .. MaxSize + Extra : AddFileData(c, k)

(* When no statement of add_file fails, the song is in the table by the    *)
(* end of the handler that has received the last of its file (235, 255),   *)
(* also when another session has logged the name, or removed it, since it  *)
(* was found free (173): the song_id chosen is free, and an INSERT is      *)
(* refused only for a name that is there.                                  *)
LoggingTakesEffect ==
  [][\A c \in Conn :
       Received(c) => \E f \in files' : f.owner = uid[c] /\ f.name = job[c].path[2]]_vars

(* Two sessions have one file open for writing only when their users have  *)
(* one name and both upload one name, whatever fails: users have a         *)
(* directory each (182), and a file that is open is not given to another   *)
(* path once its own is removed.                                           *)
ClashesAreOfOnePath ==
  \A c, d \in Conn :
    Uploading(c) /\ Uploading(d) /\ ino[c] # None /\ ino[c] = ino[d] =>
      uname[c] = uname[d] /\ job[c].path = job[d].path

-----------------------------------------------------------------------------
(* Who may do what. *)

(* A song appears and disappears, and somebody gains sight of it, only in  *)
(* a step of a session logged in as its owner; somebody loses sight of it  *)
(* only in a step of a session logged in as its owner or as the viewer.    *)
(* The checks on user_id_is_set (connection_file_management.cpp:5, 94,     *)
(* 274, 306, 332) and the conditions on user_id in queries.cpp.  This is   *)
(* said of names that are values in a statement (Database, Name), and of   *)
(* no others: queries.cpp writes names into its statements as they are.    *)
OnlyOwnersPublish ==
  [][LET actors == {uid[c] : c \in {d \in Conn : pc'[d] # pc[d]}}
     IN  /\ \A s \in (Published \ Published') \cup (Published' \ Published) : s[1] \in actors
         /\ \A v \in Seen' \ Seen : v[2] \in actors
         /\ \A v \in Seen \ Seen' : {v[1], v[2]} \cap actors # {}]_vars

-----------------------------------------------------------------------------
(* Progress. *)

(* A get that has started to send ends, and its connection is closed, when *)
(* the peer reads or goes: send_files advances arg_index (21) and send_file *)
(* comes to the end of each file.                                          *)
GetEnds == \A c \in Conn : pc[c] = "sending" ~> pc[c] = "off"

-----------------------------------------------------------------------------
(* What comments of the code say and the code does not do. *)

(* db_link.hpp:12: "Gets a filename, which can uniquely identify the file  *)
(* to be sent so that there are no clashes".  No two sessions write one    *)
(* file at a time.                                                         *)
NoClash ==
  \A c, d \in Conn :
    c # d /\ Uploading(c) /\ Uploading(d) /\ ino[c] # None => ino[c] # ino[d]

(* db_link.hpp:40: "When the stream has been written to, add file logs the *)
(* new file".                                                              *)
LoggedWasWritten ==
  [][\A f \in files' \ files : \E c \in Conn : uid[c] = f.owner /\ ino[c] # None]_vars
=============================================================================
