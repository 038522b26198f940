------------------------------ MODULE MCStartup ------------------------------
(* A small instance of Startup for TLC: a name of a setting is the setting *)
(* and one more character, and the lines are those a file may go wrong in. *)
EXTENDS Startup

Names == [s \in Setting |-> <<s, "'">>]
Defaults == [s \in TextSetting |-> IF s = "database" THEN <<"mariadb">> ELSE <<s>>]
Databases == {<<"mysql">>, <<"mariadb">>}

Threads == Names["worker_threads"]
Root == Names["files_root"]
Password == Names["mariadb_passwd"]

Lines ==
  {<<>>,
   <<"#">> \o Threads \o <<"=", "1">>,
   Threads \o <<"=", "1">>,
   <<" ">> \o Threads \o <<" ", "=", " ", " ", "0", "3", " ">>,
   Threads \o <<"=", "x">>,
   Threads \o <<" ", "1">>,
   Threads \o <<"=", " ">>,
   Names["max_request_size"] \o <<"=", "9", "9", "9", "9", "x">>,
   Names["database"] \o <<"=", "files">>,
   Root \o <<"=", "a", " ", "b", "c">>,
   Root \o <<"=", "a", "=", "b">>,
   Password \o <<"=", "a">>}

Characters == UNION {{l[i] : i \in DOMAIN l} : l \in Lines \cup {Names[s] : s \in Setting}}
              \cup TextSetting \cup {"mysql", "mariadb"}
=============================================================================
