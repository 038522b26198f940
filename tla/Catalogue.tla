----------------------------- MODULE Catalogue -----------------------------
(***************************************************************************)
(* What the service promises about songs, with no identifiers and no       *)
(* tables: who has an account, which songs are published, and which user   *)
(* can see which song in his library.  Every action is one request.        *)
(* Database shows that the three tables and the reuse of song identifiers  *)
(* implement this module (Database!CatalogueSpec).                         *)
(***************************************************************************)

CONSTANTS User,     \* the user names that may be registered
          Name      \* the file names that may be uploaded

VARIABLES accounts, \* the registered users
          songs,    \* the published songs: pairs <<owner, name>>
          visible   \* triples <<viewer, owner, name>>: the libraries' contents

vars == <<accounts, songs, visible>>

Song == User \X Name

Init == accounts = {} /\ songs = {} /\ visible = {}

CreateAccount(u) ==
  /\ u \notin accounts
  /\ accounts' = accounts \cup {u}
  /\ UNCHANGED <<songs, visible>>

(* A new song is seen by its owner and by nobody else. *)
Publish(u, n) ==
  /\ u \in accounts
  /\ <<u, n>> \notin songs
  /\ songs' = songs \cup {<<u, n>>}
  /\ visible' = visible \cup {<<u, u, n>>}
  /\ UNCHANGED accounts

(* u withdraws songs of his own, from everybody's library, and drops songs *)
(* of others from his own library. *)
Remove(u, own, dropped) ==
  /\ u \in accounts
  /\ songs' = songs \ ({u} \X own)
  /\ visible' = {v \in visible : /\ <<v[2], v[3]>> \in songs'
                                 /\ ~(v[1] = u /\ <<v[2], v[3]>> \in dropped)}
  /\ UNCHANGED accounts

Share(owner, viewer, names) ==
  /\ {owner, viewer} \subseteq accounts
  /\ visible' = visible \cup {<<viewer, owner, n>> : n \in {m \in names : <<owner, m>> \in songs}}
  /\ UNCHANGED <<accounts, songs>>

Revoke(owner, viewer, names) ==
  /\ owner \in accounts
  /\ visible' = visible \ {<<viewer, owner, n>> : n \in names}
  /\ UNCHANGED <<accounts, songs>>

Next ==
  \E u \in User :
    \/ CreateAccount(u)
    \/ \E n \in Name : Publish(u, n)
    \/ \E own \in SUBSET Name, dropped \in SUBSET Song : Remove(u, own, dropped)
    \/ \E viewer \in User, names \in SUBSET Name :
         Share(u, viewer, names) \/ Revoke(u, viewer, names)

Spec == Init /\ [][Next]_vars
=============================================================================
