------------------------------ MODULE Database ------------------------------
(***************************************************************************)
(* The MariaDB tables as mysql_link.cpp uses them through the statements   *)
(* of queries.cpp.  The schema is not in the repository; what is assumed   *)
(* of it is what the code relies on:                                       *)
(*   - users.username and users.email are UNIQUE (mysql_link.cpp:59),      *)
(*   - files has UNIQUE(user_id, filename) (mysql_link.cpp:146) and the    *)
(*     primary key (user_id, song_id) that libraries joins on,             *)
(*   - a user finds his own songs in his library (connection_list_files    *)
(*     .cpp:11, connection_file_management.cpp:29) although no statement   *)
(*     puts them there: inserting a song puts it in its owner's library,   *)
(*   - libraries refers to files and loses its rows with them: no          *)
(*     statement removes them.                                             *)
(* A user_id and the user_name it stands for are one model value.  Each    *)
(* statement is atomic; one that fails (its kind is in Faults) changes     *)
(* nothing, and what mysql_link returns then is in the set of answers.     *)
(*                                                                         *)
(* queries.cpp writes names between the quotes of its statements as they   *)
(* are.  User and Name are the names that stay one value there; one that   *)
(* makes its statement ill formed is a statement that fails, and one that  *)
(* makes another statement of it is not modelled: nothing that is checked  *)
(* or proved here is about such a name.                                    *)
(***************************************************************************)
EXTENDS Naturals, FiniteSets

CONSTANTS User,    \* the user names, each one value in a statement
          Name,    \* the file names, too; none is ".", ".." or has a slash
          MaxId,   \* the largest value of the song_id column
          Faults   \* the kinds of failure that may happen

ASSUME DatabaseAssumption == MaxId \in Nat

VARIABLES users,      \* rows of users, by name
          files,      \* rows of files: [owner, id, name]
          libraries   \* rows of libraries: [user, owner, id]

db == <<users, files, libraries>>

SongId == 1 .. MaxId
FileRow == [owner : User, id : SongId, name : Name]
LibraryRow == [user : User, owner : User, id : SongId]

DbTypeOK == /\ users \subseteq User
            /\ files \subseteq FileRow
            /\ libraries \subseteq LibraryRow

DbInit == users = {} /\ files = {} /\ libraries = {}

-----------------------------------------------------------------------------
(* The statements of queries.cpp, as what they select. *)

(* libraries l JOIN files f ON l.song_user_id = f.user_id AND              *)
(* l.song_id = f.song_id                                                   *)
Refers(l, f) == l.owner = f.owner /\ l.id = f.id

FileExists(u, n) == \E f \in files : f.owner = u /\ f.name = n

InLibrary(u, owner, n) ==
  \E l \in libraries, f \in files :
    l.user = u /\ Refers(l, f) /\ f.owner = owner /\ f.name = n

(* Mutant: COUNT in the place of MAX. *)
IsFileCount(u, id) ==
  LET own == {f \in files : f.owner = u}
  IN  id = Cardinality(own) + 1

(* SELECT COALESCE(MAX(song_id)+1,1) FROM files WHERE user_id = u *)
IsNextFileId(u, id) ==
  LET own == {f \in files : f.owner = u}
  IN  \/ own = {} /\ id = 1
      \/ \E f \in own : id = f.id + 1 /\ \A g \in own : g.id <= f.id

(* Mutant: the rows of libraries stay when their song goes. *)
CascadeForgotten(kept) == libraries

(* What becomes of the libraries when only the songs of kept are left. *)
Cascade(kept) == {l \in libraries : \E f \in kept : Refers(l, f)}

(* INSERT INTO files is refused when one of the two keys is taken. *)
KeysFree(u, n, id) == \A f \in files : f.owner = u => f.name # n /\ f.id # id

InsertFile(u, n, id) ==
  /\ KeysFree(u, n, id)
  /\ files' = files \cup {[owner |-> u, id |-> id, name |-> n]}
  /\ libraries' = libraries \cup {[user |-> u, owner |-> u, id |-> id]}

(* DELETE FROM files WHERE user_id = u AND filename = 'n', for each of the *)
(* names own: n is a value of this text, not a part of it (see above).     *)
DeleteFiles(u, own) == {f \in files : ~(f.owner = u /\ f.name \in own)}

(* DELETE l FROM libraries l JOIN files f JOIN users u, for each of the    *)
(* songs dropped, once the files left are those of kept; names are values  *)
DeleteFromLibrary(u, kept, dropped) ==
  {l \in Cascade(kept) :
     ~(l.user = u /\ \E f \in kept : Refers(l, f) /\ <<f.owner, f.name>> \in dropped)}

(* Mutant: a viewer who is not registered gets a row all the same. *)
SharedRowsUnregistered(owner, viewer, names) ==
  {[user |-> viewer, owner |-> owner, id |-> f.id] :
      f \in {g \in files : g.owner = owner /\ g.name \in names}}

(* INSERT INTO libraries VALUES((SELECT user_id ...), owner, (SELECT       *)
(* song_id ...)): refused when a subselect finds nothing                   *)
SharedRows(owner, viewer, names) ==
  {[user |-> viewer, owner |-> owner, id |-> f.id] :
      f \in {g \in files : viewer \in users /\ g.owner = owner /\ g.name \in names}}

(* Mutant: the statement does not ask whose the song is. *)
RevokedRowsOfAnyOwner(owner, viewer, names) ==
  {l \in libraries : l.user = viewer /\ \E f \in files : Refers(l, f) /\ f.name \in names}

(* The rows DELETE l FROM libraries l JOIN files f JOIN users u finds for  *)
(* each of the names, which are values of the statement.                   *)
RevokedRows(owner, viewer, names) ==
  {l \in libraries : /\ l.owner = owner /\ l.user = viewer
                     /\ \E f \in files : Refers(l, f) /\ f.name \in names}

-----------------------------------------------------------------------------
(* mysql_link: what a call answers or does.  A call whose statement fails  *)
(* changes nothing and answers what a refusal by the tables answers.       *)

Answers(truth, kind) == {truth} \cup IF kind \in Faults THEN {FALSE} ELSE {}

(* Mutant: the count is read and not looked at. *)
DoesFileExistIgnored(u, n) == {FALSE}

DoesFileExist(u, n) == Answers(FileExists(u, n), "exists")

IsFileInLibrary(u, owner, n) == Answers(InLibrary(u, owner, n), "library")

(* username_from_id leaves the string it was to fill as it was. *)
UsernameFromId(u, before) == {u} \cup IF "username" \in Faults THEN {before} ELSE {}

(* Which of the statements of a request's loop take effect. *)
Effective(S, kind) == IF kind \in Faults THEN SUBSET S ELSE {S}

TryRegister(u) ==
  /\ u \notin users
  /\ users' = users \cup {u}
  /\ UNCHANGED <<files, libraries>>

(* Mutant: a text that is no number is taken for 0. *)
GetNextFileIdOrZero(u) == {id \in 0 .. MaxId : IsNextFileId(u, id) \/ "freedrow" \in Faults}

(* get_next_file_id reads the row of a result it has already freed: the    *)
(* text it makes of it is the number selected, another number, or (the     *)
(* INSERT is then refused) no number at all.                               *)
GetNextFileId(u) == {id \in SongId : IsNextFileId(u, id) \/ "freedrow" \in Faults}

(* add_file answers false, and its callers do not look, when the INSERT is *)
(* refused or one of the two statements fails.                             *)
AddFileFails(u, n) ==
  \/ {"insert", "freedrow"} \cap Faults # {}
  \/ \E id \in GetNextFileId(u) : ~KeysFree(u, n, id)

(* The first conjunct is the bound MaxId: the column never overflows. *)
AddFile(u, n) ==
  /\ \E id \in SongId : IsNextFileId(u, id)
  /\ \/ \E id \in GetNextFileId(u) : InsertFile(u, n, id)
     \/ AddFileFails(u, n) /\ UNCHANGED <<files, libraries>>
  /\ UNCHANGED users

(* Mutant: the rows affected are not counted. *)
DeletedUncounted(u, names) == names

(* Mutant: the test on the number of rows affected is the wrong way round. *)
DeletedInverted(u, names) == {n \in names : ~FileExists(u, n)}

(* The names for which remove_file answers true: those that had a row. *)
Deleted(u, names) == {n \in names : FileExists(u, n)}

(* remove_file for the names own, remove_file_from_library for the songs   *)
(* dropped.                                                                *)
RemoveFiles(u, own, dropped) ==
  /\ files' = DeleteFiles(u, own)
  /\ libraries' = DeleteFromLibrary(u, files', dropped)
  /\ UNCHANGED users

ShareFiles(u, viewer, names) ==
  /\ libraries' = libraries \cup SharedRows(u, viewer, names)
  /\ UNCHANGED <<users, files>>

RevokeFiles(u, viewer, names) ==
  /\ libraries' = libraries \ RevokedRows(u, viewer, names)
  /\ UNCHANGED <<users, files>>

-----------------------------------------------------------------------------
(* Everything the connections may do to the tables. *)

DbNext ==
  \E u \in User :
    \/ TryRegister(u)
    \/ /\ u \in users
       /\ \/ \E n \in Name : AddFile(u, n)
          \/ \E own \in SUBSET Name, dropped \in SUBSET (User \X Name) :
               RemoveFiles(u, own, dropped)
          \/ \E viewer \in User, names \in SUBSET Name :
               ShareFiles(u, viewer, names) \/ RevokeFiles(u, viewer, names)

DbSpec == DbInit /\ [][DbNext]_db

(* The two keys of files, and the references libraries makes. *)
KeysHold ==
  /\ \A f, g \in files : f.owner = g.owner /\ (f.name = g.name \/ f.id = g.id) => f = g
  /\ \A l \in libraries : l.user \in users /\ \E f \in files : Refers(l, f)
  /\ \A f \in files : f.owner \in users

(* The tables seen as the catalogue: a song is a row of files, and a       *)
(* viewer sees it when a row of libraries refers to it.                    *)
Published == {<<f.owner, f.name>> : f \in files}
Seen == {v \in User \X User \X Name : InLibrary(v[1], v[2], v[3])}

C == INSTANCE Catalogue WITH accounts <- users, songs <- Published, visible <- Seen

(* The tables, with identifiers that are reused once the largest is        *)
(* deleted, behave as the catalogue of songs does: a new song is seen by   *)
(* its owner alone, a withdrawn one by nobody, and a share or a drop       *)
(* touches the song that was named and no other.                           *)
CatalogueSpec == C!Spec
=============================================================================
