--------------------------- MODULE DatabaseProofs ---------------------------
(***************************************************************************)
(* Database for every set of users, names, failures and every bound on the *)
(* identifiers: the types, the keys and references, and the refinement of  *)
(* Catalogue.                                                              *)
(***************************************************************************)
EXTENDS Database, TLAPS

(* The strengthening all three rest on: a row of libraries always refers   *)
(* to a row of files, so an identifier that is free in files is free in    *)
(* libraries too, and may be given out again.                              *)
DbInv == DbTypeOK /\ KeysHold

LEMMA DbInitInv == DbInit => DbInv
  BY DEF DbInit, DbInv, DbTypeOK, KeysHold

LEMMA TryRegisterInv ==
  ASSUME NEW u \in User, DbInv, TryRegister(u)
  PROVE  DbInv'
  BY DEF DbInv, DbTypeOK, KeysHold, TryRegister, Refers

LEMMA InsertFileInv ==
  ASSUME NEW u \in users, NEW n \in Name, NEW id \in SongId,
         DbInv, InsertFile(u, n, id), UNCHANGED users
  PROVE  DbInv'
<1> DEFINE row == [owner |-> u, id |-> id, name |-> n]
           own == [user |-> u, owner |-> u, id |-> id]
<1>1. /\ row \in FileRow /\ own \in LibraryRow
      /\ files' = files \cup {row} /\ libraries' = libraries \cup {own}
  BY DEF DbInv, DbTypeOK, InsertFile, FileRow, LibraryRow
<1>2. DbTypeOK'
  BY <1>1 DEF DbInv, DbTypeOK
<1>3. \A f, g \in files' : f.owner = g.owner /\ (f.name = g.name \/ f.id = g.id) => f = g
  BY <1>1 DEF DbInv, KeysHold, InsertFile, KeysFree
<1>4. \A l \in libraries' : l.user \in users' /\ \E f \in files' : Refers(l, f)
  BY <1>1 DEF DbInv, KeysHold, Refers
<1>5. \A f \in files' : f.owner \in users'
  BY <1>1 DEF DbInv, KeysHold
<1> QED
  BY <1>2, <1>3, <1>4, <1>5 DEF DbInv, KeysHold, Refers

LEMMA AddFileInv ==
  ASSUME NEW u \in users, NEW n \in Name, DbInv, AddFile(u, n)
  PROVE  DbInv'
<1>1. CASE \E id \in GetNextFileId(u) : InsertFile(u, n, id)
  BY <1>1, InsertFileInv DEF AddFile, GetNextFileId
<1>2. CASE UNCHANGED <<files, libraries>>
  BY <1>2 DEF AddFile, DbInv, DbTypeOK, KeysHold, Refers
<1> QED
  BY <1>1, <1>2 DEF AddFile

LEMMA RemoveFilesInv ==
  ASSUME NEW u \in users, NEW own \in SUBSET Name, NEW dropped \in SUBSET (User \X Name),
         DbInv, RemoveFiles(u, own, dropped)
  PROVE  DbInv'
<1>1. files' \subseteq files /\ users' = users
  BY DEF RemoveFiles, DeleteFiles
<1>2. libraries' \subseteq libraries /\ \A l \in libraries' : \E f \in files' : Refers(l, f)
  BY DEF RemoveFiles, DeleteFromLibrary, Cascade
<1> QED
  BY <1>1, <1>2 DEF DbInv, DbTypeOK, KeysHold, Refers

LEMMA ShareFilesInv ==
  ASSUME NEW u \in users, NEW viewer \in User, NEW names \in SUBSET Name,
         DbInv, ShareFiles(u, viewer, names)
  PROVE  DbInv'
<1>1. \A l \in SharedRows(u, viewer, names) :
        /\ l \in LibraryRow /\ l.user \in users
        /\ \E f \in files : Refers(l, f)
  BY DEF SharedRows, DbInv, DbTypeOK, FileRow, LibraryRow, Refers
<1> QED
  BY <1>1 DEF ShareFiles, DbInv, DbTypeOK, KeysHold, Refers

LEMMA RevokeFilesInv ==
  ASSUME NEW u \in users, NEW viewer \in User, NEW names \in SUBSET Name,
         DbInv, RevokeFiles(u, viewer, names)
  PROVE  DbInv'
  BY DEF RevokeFiles, RevokedRows, DbInv, DbTypeOK, KeysHold, Refers

LEMMA DbNextInv == DbInv /\ [DbNext]_db => DbInv'
<1> SUFFICES ASSUME DbInv, [DbNext]_db PROVE DbInv'
  OBVIOUS
<1>1. ASSUME NEW u \in User, TryRegister(u) PROVE DbInv'
  BY <1>1, TryRegisterInv
<1>2. ASSUME NEW u \in User, u \in users, NEW n \in Name, AddFile(u, n) PROVE DbInv'
  BY <1>2, AddFileInv
<1>3. ASSUME NEW u \in User, u \in users, NEW own \in SUBSET Name,
             NEW dropped \in SUBSET (User \X Name), RemoveFiles(u, own, dropped)
      PROVE  DbInv'
  BY <1>3, RemoveFilesInv
<1>4. ASSUME NEW u \in User, u \in users, NEW viewer \in User, NEW names \in SUBSET Name,
             ShareFiles(u, viewer, names) \/ RevokeFiles(u, viewer, names)
      PROVE  DbInv'
  BY <1>4, ShareFilesInv, RevokeFilesInv
<1>5. CASE UNCHANGED db
  BY <1>5 DEF db, DbInv, DbTypeOK, KeysHold, Refers
<1> QED
  BY <1>1, <1>2, <1>3, <1>4, <1>5 DEF DbNext

(* The tables keep their types, their keys and their references whatever   *)
(* requests are made and whichever statements fail.                        *)
THEOREM DatabaseInvariant == DbSpec => []DbInv
  BY DbInitInv, DbNextInv, PTL DEF DbSpec

(* The rows of the tables (DbTypeOK): whatever get_next_file_id makes of   *)
(* the row it has freed, only a song_id within the column is inserted.     *)
THEOREM RowsAreTyped == DbSpec => []DbTypeOK
<1>1. DbInv => DbTypeOK
  BY DEF DbInv
<1> QED
  BY <1>1, DatabaseInvariant, PTL

(* The two keys of files and the references of libraries (KeysHold).       *)
THEOREM KeysAlwaysHold == DbSpec => []KeysHold
<1>1. DbInv => KeysHold
  BY DEF DbInv
<1> QED
  BY <1>1, DatabaseInvariant, PTL

-----------------------------------------------------------------------------
(* The tables implement the catalogue. *)

LEMMA InitMaps == DbInit => C!Init
  BY DEF DbInit, C!Init, Published, Seen, InLibrary

LEMMA TryRegisterMaps ==
  ASSUME NEW u \in User, TryRegister(u)
  PROVE  C!CreateAccount(u)
  BY DEF TryRegister, C!CreateAccount, Published, Seen, InLibrary, Refers

(* The new row of libraries refers to the new row of files and to no       *)
(* other, and no old row of libraries refers to the new row of files: the  *)
(* identifier was free.                                                    *)
LEMMA InsertFileMaps ==
  ASSUME NEW u \in users, NEW n \in Name, NEW id \in SongId,
         DbInv, InsertFile(u, n, id), UNCHANGED users
  PROVE  C!Publish(u, n)
<1> DEFINE row == [owner |-> u, id |-> id, name |-> n]
           own == [user |-> u, owner |-> u, id |-> id]
<1>1. files' = files \cup {row} /\ libraries' = libraries \cup {own} /\ u \in User
  BY DEF InsertFile, DbInv, DbTypeOK
<1>2. \A f \in files : f.owner = u => f.name # n /\ f.id # id
  BY DEF InsertFile, KeysFree
<1>3. \A l \in libraries : ~Refers(l, row)
  BY <1>2 DEF DbInv, KeysHold, Refers
<1>4. \A f \in files : ~Refers(own, f)
  BY <1>2 DEF Refers
<1>5. <<u, n>> \notin Published
  BY <1>2 DEF Published, DbInv, DbTypeOK, FileRow
<1>6. Published' = Published \cup {<<u, n>>}
  <2>1. <<row.owner, row.name>> = <<u, n>>
    OBVIOUS
  <2> HIDE DEF row
  <2> QED
    BY <1>1, <2>1 DEF Published
<1>7. Seen' = Seen \cup {<<u, u, n>>}
  <2>1. ASSUME NEW v \in User \X User \X Name
        PROVE  InLibrary(v[1], v[2], v[3])' <=>
                 InLibrary(v[1], v[2], v[3]) \/ v = <<u, u, n>>
    <3>1. ASSUME NEW l \in libraries', NEW f \in files', Refers(l, f)
          PROVE  (l \in libraries /\ f \in files) \/ (l = own /\ f = row)
      BY <1>1, <1>3, <1>4, <3>1
    <3>2. Refers(own, row) /\ own.user = u /\ row.owner = u /\ row.name = n
      BY DEF Refers
    <3>4. ASSUME InLibrary(v[1], v[2], v[3])'
          PROVE  InLibrary(v[1], v[2], v[3]) \/ v = <<u, u, n>>
      <4>1. PICK l \in libraries', f \in files' :
              l.user = v[1] /\ Refers(l, f) /\ f.owner = v[2] /\ f.name = v[3]
        BY <3>4 DEF InLibrary, Refers
      <4>2. CASE l \in libraries /\ f \in files
        BY <4>1, <4>2 DEF InLibrary
      <4>3. CASE l = own /\ f = row
        BY <4>1, <4>3
      <4> QED
        BY <3>1, <4>1, <4>2, <4>3
    <3>5. ASSUME InLibrary(v[1], v[2], v[3])
          PROVE  InLibrary(v[1], v[2], v[3])'
      BY <1>1, <3>5 DEF InLibrary, Refers
    <3>6. ASSUME v = <<u, u, n>>
          PROVE  InLibrary(v[1], v[2], v[3])'
      <4>1. v[1] = u /\ v[2] = u /\ v[3] = n
        BY <3>6
      <4>2. own \in libraries' /\ row \in files'
        BY <1>1
      <4> QED
        BY <4>1, <4>2, <3>2 DEF InLibrary, Refers
    <3> QED
      BY <3>4, <3>5, <3>6
  <2> QED
    BY <2>1, <1>1 DEF Seen
<1> QED
  BY <1>5, <1>6, <1>7 DEF C!Publish

LEMMA AddFileMaps ==
  ASSUME NEW u \in users, NEW n \in Name, DbInv, AddFile(u, n)
  PROVE  C!Publish(u, n) \/ UNCHANGED C!vars
<1>1. CASE \E id \in GetNextFileId(u) : InsertFile(u, n, id)
  BY <1>1, InsertFileMaps DEF AddFile, GetNextFileId
<1>2. CASE UNCHANGED <<files, libraries>>
  BY <1>2 DEF AddFile, C!vars, Published, Seen, InLibrary, Refers
<1> QED
  BY <1>1, <1>2 DEF AddFile

LEMMA RemoveFilesMaps ==
  ASSUME NEW u \in users, NEW own \in SUBSET Name, NEW dropped \in SUBSET (User \X Name),
         DbInv, RemoveFiles(u, own, dropped)
  PROVE  C!Remove(u, own, dropped)
<1>1. files' = {f \in files : ~(f.owner = u /\ f.name \in own)}
  BY DEF RemoveFiles, DeleteFiles
<1>2. Published' = Published \ ({u} \X own)
  BY <1>1 DEF Published
<1>3. ASSUME NEW v \in User \X User \X Name
      PROVE  InLibrary(v[1], v[2], v[3])' <=>
               /\ InLibrary(v[1], v[2], v[3])
               /\ <<v[2], v[3]>> \in Published'
               /\ ~(v[1] = u /\ <<v[2], v[3]>> \in dropped)
  <2>1. \A f, g \in files, l \in libraries : Refers(l, f) /\ Refers(l, g) => f = g
    BY DEF Refers, DbInv, KeysHold
  <2>2. \A f, g \in files : f.owner = g.owner /\ f.name = g.name => f = g
    BY DEF DbInv, KeysHold
  <2>3. \A l \in libraries : l \in libraries' <=>
           \E f \in files' : Refers(l, f) /\ ~(l.user = u /\ <<f.owner, f.name>> \in dropped)
    BY <1>1, <2>1 DEF RemoveFiles, DeleteFromLibrary, Cascade
  <2>4. libraries' \subseteq libraries
    BY DEF RemoveFiles, DeleteFromLibrary, Cascade
  <2>5. <<v[2], v[3]>> \in Published' <=> \E f \in files' : f.owner = v[2] /\ f.name = v[3]
    BY DEF Published
  <2>6. ASSUME InLibrary(v[1], v[2], v[3])'
        PROVE  /\ InLibrary(v[1], v[2], v[3])
               /\ <<v[2], v[3]>> \in Published'
               /\ ~(v[1] = u /\ <<v[2], v[3]>> \in dropped)
    <3>1. PICK l \in libraries', f \in files' :
            l.user = v[1] /\ Refers(l, f) /\ f.owner = v[2] /\ f.name = v[3]
      BY <2>6 DEF InLibrary, Refers
    <3>2. l \in libraries /\ f \in files
      BY <1>1, <2>4
    <3>3. ~(l.user = u /\ <<f.owner, f.name>> \in dropped)
      BY <1>1, <2>1, <2>3, <3>1, <3>2
    <3> QED
      BY <3>1, <3>2, <3>3, <2>5 DEF InLibrary
  <2>7. ASSUME InLibrary(v[1], v[2], v[3]), <<v[2], v[3]>> \in Published',
               ~(v[1] = u /\ <<v[2], v[3]>> \in dropped)
        PROVE  InLibrary(v[1], v[2], v[3])'
    <3>1. PICK l \in libraries, f \in files :
            l.user = v[1] /\ Refers(l, f) /\ f.owner = v[2] /\ f.name = v[3]
      BY <2>7 DEF InLibrary
    <3>2. f \in files'
      BY <1>1, <2>2, <2>5, <2>7, <3>1
    <3>3. l \in libraries'
      BY <2>3, <2>7, <3>1, <3>2
    <3> QED
      BY <3>1, <3>2, <3>3 DEF InLibrary, Refers
  <2> QED
    BY <2>6, <2>7
<1>4. Seen' = {v \in Seen : /\ <<v[2], v[3]>> \in Published'
                            /\ ~(v[1] = u /\ <<v[2], v[3]>> \in dropped)}
  BY <1>3 DEF Seen
<1> QED
  BY <1>2, <1>4 DEF C!Remove, RemoveFiles

(* Sharing with somebody who is not registered does nothing.               *)
LEMMA ShareFilesMaps ==
  ASSUME NEW u \in users, NEW viewer \in User, NEW names \in SUBSET Name,
         DbInv, ShareFiles(u, viewer, names)
  PROVE  C!Share(u, viewer, names) \/ UNCHANGED C!vars
<1>1. CASE viewer \notin users
  <2>1. libraries' = libraries
    BY <1>1 DEF ShareFiles, SharedRows
  <2> QED
    BY <2>1 DEF ShareFiles, C!vars, Published, Seen, InLibrary, Refers
<1>2. CASE viewer \in users
  <2> DEFINE shared == {<<viewer, u, n>> : n \in {m \in names : <<u, m>> \in Published}}
  <2>1. Published' = Published
    BY DEF ShareFiles, Published
  <2>2. ASSUME NEW v \in User \X User \X Name
        PROVE  InLibrary(v[1], v[2], v[3])' <=> InLibrary(v[1], v[2], v[3]) \/ v \in shared
    <3>1. v \in shared <=> /\ v[1] = viewer /\ v[2] = u /\ v[3] \in names
                           /\ \E f \in files : f.owner = u /\ f.name = v[3]
      <4>1. \A n : v = <<viewer, u, n>> <=> v[1] = viewer /\ v[2] = u /\ v[3] = n
        OBVIOUS
      <4>2. <<u, v[3]>> \in Published <=> \E f \in files : f.owner = u /\ f.name = v[3]
        BY DEF Published
      <4>3. v \in shared <=> \E n \in names : <<u, n>> \in Published /\ v = <<viewer, u, n>>
        BY Zenon
      <4> QED
        BY <4>1, <4>2, <4>3
    <3> HIDE DEF shared
    <3>2. ASSUME InLibrary(v[1], v[2], v[3])'
          PROVE  InLibrary(v[1], v[2], v[3]) \/ v \in shared
      <4>1. PICK l \in libraries', f \in files :
              l.user = v[1] /\ Refers(l, f) /\ f.owner = v[2] /\ f.name = v[3]
        BY <3>2 DEF InLibrary, Refers, ShareFiles
      <4>2. CASE l \in libraries
        BY <4>1, <4>2 DEF InLibrary
      <4>3. CASE l \notin libraries
        <5>1. PICK g \in files : /\ g.owner = u /\ g.name \in names
                                 /\ l = [user |-> viewer, owner |-> u, id |-> g.id]
          BY <4>1, <4>3 DEF ShareFiles, SharedRows
        <5>2. f = g
          BY <4>1, <5>1 DEF Refers, DbInv, KeysHold
        <5> QED
          BY <3>1, <4>1, <5>1, <5>2
      <4> QED
        BY <4>2, <4>3
    <3>3. ASSUME InLibrary(v[1], v[2], v[3])
          PROVE  InLibrary(v[1], v[2], v[3])'
      BY <3>3 DEF InLibrary, Refers, ShareFiles
    <3>4. ASSUME v \in shared
          PROVE  InLibrary(v[1], v[2], v[3])'
      <4>1. PICK f \in files : f.owner = u /\ f.name = v[3]
        BY <3>1, <3>4
      <4> DEFINE l == [user |-> viewer, owner |-> u, id |-> f.id]
      <4>2. l \in SharedRows(u, viewer, names)
        BY <1>2, <3>1, <3>4, <4>1 DEF SharedRows
      <4>3. l.user = v[1] /\ Refers(l, f) /\ f.owner = v[2] /\ f.name = v[3]
        BY <3>1, <3>4, <4>1 DEF Refers
      <4> QED
        BY <4>2, <4>3 DEF InLibrary, Refers, ShareFiles
    <3> QED
      BY <3>2, <3>3, <3>4
  <2>3. shared \subseteq User \X User \X Name
    <3>1. u \in User /\ \A n \in names : <<viewer, u, n>> \in User \X User \X Name
      BY DEF DbInv, DbTypeOK
    <3> QED
      BY <3>1, Zenon
  <2>4. Seen' = Seen \cup shared
    <3> HIDE DEF shared
    <3> QED
      BY <2>2, <2>3 DEF Seen
  <2> QED
    BY <1>2, <2>1, <2>4 DEF C!Share, ShareFiles
<1> QED
  BY <1>1, <1>2

LEMMA RevokeFilesMaps ==
  ASSUME NEW u \in users, NEW viewer \in User, NEW names \in SUBSET Name,
         DbInv, RevokeFiles(u, viewer, names)
  PROVE  C!Revoke(u, viewer, names)
<1> DEFINE revoked == {<<viewer, u, n>> : n \in names}
<1>1. Published' = Published
  BY DEF RevokeFiles, Published
<1>2. ASSUME NEW v \in User \X User \X Name
      PROVE  InLibrary(v[1], v[2], v[3])' <=> InLibrary(v[1], v[2], v[3]) /\ v \notin revoked
  <2>1. v \in revoked <=> v[1] = viewer /\ v[2] = u /\ v[3] \in names
    <3>1. v = <<v[1], v[2], v[3]>>
      OBVIOUS
    <3> QED
      BY <3>1
  <2> HIDE DEF revoked
  <2>2. \A l \in libraries, f \in files :
          Refers(l, f) => (l \in libraries' <=>
                             ~(l.user = viewer /\ f.owner = u /\ f.name \in names))
    BY DEF RevokeFiles, RevokedRows, Refers, DbInv, KeysHold
  <2>3. libraries' \subseteq libraries /\ files' = files
    BY DEF RevokeFiles
  <2> QED
    BY <2>1, <2>2, <2>3 DEF InLibrary, Refers
<1>3. Seen' = Seen \ revoked
  <2> HIDE DEF revoked
  <2> QED
    BY <1>2 DEF Seen
<1> QED
  BY <1>1, <1>3 DEF C!Revoke, RevokeFiles

LEMMA NextMaps == DbInv /\ [DbNext]_db => [C!Next]_(C!vars)
<1> SUFFICES ASSUME DbInv, [DbNext]_db PROVE C!Next \/ UNCHANGED C!vars
  OBVIOUS
<1>1. ASSUME NEW u \in User, TryRegister(u) PROVE C!Next
  BY <1>1, TryRegisterMaps DEF C!Next
<1>2. ASSUME NEW u \in User, u \in users, NEW n \in Name, AddFile(u, n)
      PROVE  C!Next \/ UNCHANGED C!vars
  BY <1>2, AddFileMaps DEF C!Next
<1>3. ASSUME NEW u \in User, u \in users, NEW own \in SUBSET Name,
             NEW dropped \in SUBSET (User \X Name), RemoveFiles(u, own, dropped)
      PROVE  C!Next
  BY <1>3, RemoveFilesMaps DEF C!Next, C!Song
<1>4. ASSUME NEW u \in User, u \in users, NEW viewer \in User, NEW names \in SUBSET Name,
             ShareFiles(u, viewer, names) \/ RevokeFiles(u, viewer, names)
      PROVE  C!Next \/ UNCHANGED C!vars
  BY <1>4, ShareFilesMaps, RevokeFilesMaps DEF C!Next
<1>5. CASE UNCHANGED db
  BY <1>5 DEF db, C!vars, Published, Seen, InLibrary, Refers
<1> QED
  BY <1>1, <1>2, <1>3, <1>4, <1>5 DEF DbNext

(* The tables behave as the catalogue does, for any number of users and    *)
(* names, whichever statements fail and whatever get_next_file_id makes of *)
(* the row it has freed: an identifier that is given out again never       *)
(* shows a song to somebody it was not shared with (CatalogueSpec).        *)
THEOREM DatabaseImplementsCatalogue == DbSpec => CatalogueSpec
<1>1. DbInit => C!Init
  BY InitMaps
<1>2. DbInv /\ [DbNext]_db => [C!Next]_(C!vars)
  BY NextMaps
<1> QED
  BY <1>1, <1>2, DatabaseInvariant, PTL DEF DbSpec, CatalogueSpec, C!Spec
=============================================================================
