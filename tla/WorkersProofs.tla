--------------------------- MODULE WorkersProofs ---------------------------
(***************************************************************************)
(* Workers for every number of workers and connections: handlers never     *)
(* overlap, and active_connections holds the open connections until two    *)
(* threads meet in it.                                                     *)
(***************************************************************************)
EXTENDS Workers, TLAPS

(* Every connection that exists was made for the first worker. *)
FirstOnly == \A c \in Conn : home[c] = IF phase[c] = "none" THEN 0 ELSE 1

(* stop() has not come to the end of the workers. *)
InRange == main # "ended" => joining \in 1 .. Workers

Inv == TypeOK /\ FirstOnly /\ InRange /\ HandlersNeverOverlap

(* The counts are all equal, so the first worker is chosen. *)
LEMMA ChosenIsFirst ==
  ASSUME NEW w \in Worker, Chosen(w)
  PROVE  w = 1
<1>1. 1 \in Worker /\ w \in Nat /\ w >= 1
  BY WorkersAssumption DEF Worker
<1>2. CASE w > 1
  <2>1. 1 \in 1 .. w - 1
    BY <1>1, <1>2
  <2> QED
    BY <2>1 DEF Chosen, ActiveConnectionCount
<1> QED
  BY <1>1, <1>2

LEMMA FirstIsWorker == 1 \in Worker
  BY WorkersAssumption DEF Worker

LEMMA InitInv == Init => Inv
<1> SUFFICES ASSUME Init PROVE Inv
  OBVIOUS
<1>1. idle \in [Worker -> 0 .. MaxIdle]
  <2>1. PICK n \in 0 .. MaxIdle : idle = [w \in Worker |-> n]
    BY DEF Init
  <2> QED
    BY <2>1
<1>2. joining \in 1 .. Workers /\ joining \in 1 .. Workers + 1
  BY WorkersAssumption DEF Init
<1>3. FirstOnly /\ HandlersNeverOverlap
  BY DEF Init, FirstOnly, HandlersNeverOverlap
<1>4. TypeOK
  BY <1>1, <1>2 DEF Init, TypeOK, Main, Phase
<1> QED
  BY <1>2, <1>3, <1>4 DEF Inv, InRange

LEMMA ChangeType ==
  ASSUME NEW w, NEW result \in SUBSET Conn, TypeOK, Change(w, result)
  PROVE  active' \in [Worker -> SUBSET Conn]
  BY DEF TypeOK, Change

LEMMA DoAcceptInv ==
  ASSUME NEW c \in Conn, Inv, DoAccept(c)
  PROVE  Inv'
<1>1. PICK w \in Worker :
        /\ w = 1
        /\ idle' = [idle EXCEPT ![w] = IF @ > 0 THEN @ - 1 ELSE 0]
        /\ home' = [home EXCEPT ![c] = w]
        /\ raced' = (raced \/ WorkerChanges(w))
  BY ChosenIsFirst DEF DoAccept
<1>2. idle' \in [Worker -> 0 .. MaxIdle]
  BY <1>1, WorkersAssumption DEF Inv, TypeOK
<1> QED
  BY <1>1, <1>2 DEF DoAccept, Enter, Inv, TypeOK, FirstOnly, InRange, HandlersNeverOverlap, Main, Phase,
                    threads, WorkerChanges

LEMMA HandleFinishInv ==
  ASSUME NEW c \in Conn, Inv, phase[c] # "none", HandleFinish(c), UNCHANGED <<idle, threads, raced>>,
         main' = main \/ (main # "ended" /\ main' = "deaf")
  PROVE  Inv'
<1>1. active' \in [Worker -> SUBSET Conn]
  <2>1. home[c] \in Worker /\ active[home[c]] \ {c} \in SUBSET Conn
    BY FirstIsWorker DEF Inv, TypeOK, FirstOnly
  <2> QED
    BY <2>1, ChangeType DEF HandleFinish, Inv
<1>2. TypeOK'
  BY <1>1 DEF HandleFinish, Enter, Inv, TypeOK, Main, Phase, threads
<1>3. InRange'
  BY DEF Inv, InRange, threads
<1>4. FirstOnly' /\ HandlersNeverOverlap'
  BY DEF HandleFinish, Enter, Inv, TypeOK, FirstOnly, HandlersNeverOverlap
<1> QED
  BY <1>2, <1>3, <1>4 DEF Inv

LEMMA InsertedInv ==
  ASSUME NEW c \in Conn, Inv, Inserted(c)
  PROVE  Inv'
<1>1. active' \in [Worker -> SUBSET Conn]
  <2>1. home[c] \in Worker /\ active[home[c]] \cup {c} \in SUBSET Conn
    BY FirstIsWorker DEF Inserted, Inv, TypeOK, FirstOnly
  <2> QED
    BY <2>1, ChangeType DEF Inserted, Inv
<1> QED
  BY <1>1 DEF Inserted, Inv, TypeOK, FirstOnly, InRange, HandlersNeverOverlap, Main, threads

LEMMA MainStepInv ==
  ASSUME Inv, MainStep
  PROVE  Inv'
<1>1. CASE Accepted \/ Signal
  BY <1>1 DEF Accepted, Signal, Inv, TypeOK, FirstOnly, InRange, HandlersNeverOverlap, Main, threads, conns
<1>2. CASE StopContexts
  BY <1>2 DEF StopContexts, Inv, TypeOK, FirstOnly, InRange, HandlersNeverOverlap, Main, conns,
              WorkerChanges
<1>3. CASE JoinClears
  <2>1. active' \in [Worker -> SUBSET Conn]
    BY <1>3, ChangeType DEF JoinClears, Inv
  <2>2. idle' \in [Worker -> 0 .. MaxIdle]
    <3>1. idle' = [idle EXCEPT ![joining] = 0] /\ 0 \in 0 .. MaxIdle
      BY <1>3, WorkersAssumption DEF JoinClears
    <3> QED
      BY <3>1 DEF Inv, TypeOK
  <2> QED
    BY <1>3, <2>1, <2>2
    DEF JoinClears, Inv, TypeOK, FirstOnly, InRange, HandlersNeverOverlap, Main, Phase, Worker, threads
<1>4. CASE JoinReturns
  <2>1. joining + 1 \in 1 .. Workers + 1 /\ (joining # Workers => joining + 1 \in 1 .. Workers)
    BY <1>4, WorkersAssumption DEF JoinReturns, Inv, InRange
  <2> QED
    BY <1>4, <2>1
    DEF JoinReturns, Inv, TypeOK, FirstOnly, InRange, HandlersNeverOverlap, Main, conns, WorkerChanges
<1>5. ASSUME NEW c \in Conn, DoAccept(c) PROVE Inv'
  BY <1>5, DoAcceptInv
<1>6. ASSUME NEW c \in Conn, Inserted(c) PROVE Inv'
  BY <1>6, InsertedInv
<1>7. ASSUME NEW c \in Conn, Start(c) PROVE Inv'
  BY <1>7 DEF Start, Enter, Inv, TypeOK, FirstOnly, InRange, HandlersNeverOverlap, Main, Phase, threads
<1>8. ASSUME NEW c \in Conn, AcceptFails(c) PROVE Inv'
  <2>1. raced' \in BOOLEAN
    BY <1>8 DEF AcceptFails, Inv, TypeOK, WorkerChanges
  <2> QED
    BY <1>8, <2>1 DEF AcceptFails, Inv, TypeOK, FirstOnly, InRange, HandlersNeverOverlap, Main,
                      threads, conns
<1>9. ASSUME NEW c \in Conn, Dropped(c) PROVE Inv'
  BY <1>9, HandleFinishInv DEF Dropped
<1> QED
  BY <1>1, <1>2, <1>3, <1>4, <1>5, <1>6, <1>7, <1>8, <1>9 DEF MainStep

(* A handler starts only when none runs: all would run on one thread.      *)
LEMMA HandleInv ==
  ASSUME NEW c \in Conn, Inv, Handle(c)
  PROVE  Inv'
<1>1. \A d \in Conn : phase[d] \notin {"handling", "erasing"}
  BY DEF Handle, Runs, Inv, FirstOnly
<1> QED
  BY <1>1 DEF Handle, Enter, Inv, TypeOK, FirstOnly, InRange, HandlersNeverOverlap, Phase, threads

LEMMA HandlerEndsInv ==
  ASSUME NEW c \in Conn, Inv, HandlerEnds(c)
  PROVE  Inv'
<1>1. CASE Continues(c)
  BY <1>1 DEF Continues, Enter, Inv, TypeOK, FirstOnly, InRange, HandlersNeverOverlap, Phase, threads
<1>2. CASE GivesUp(c)
  BY <1>2 DEF GivesUp, Enter, Inv, TypeOK, FirstOnly, InRange, HandlersNeverOverlap, Phase, threads
<1>3. CASE Closes(c)
  BY <1>3 DEF Closes, Enter, Inv, TypeOK, FirstOnly, InRange, HandlersNeverOverlap, Phase, threads,
              MainChanges
<1>4. CASE Erased(c)
  BY <1>4, HandleFinishInv DEF Erased
<1> QED
  BY <1>1, <1>2, <1>3, <1>4 DEF HandlerEnds

LEMMA NextInv == Inv /\ [Next]_vars => Inv'
<1> SUFFICES ASSUME Inv, [Next]_vars PROVE Inv'
  OBVIOUS
<1>1. CASE Breaks
  BY <1>1 DEF Breaks, Inv, TypeOK, FirstOnly, InRange, HandlersNeverOverlap, Main, Phase
<1>2. ASSUME NEW w \in Worker, RunReturns(w) PROVE Inv'
  BY <1>2 DEF RunReturns, Inv, TypeOK, FirstOnly, InRange, HandlersNeverOverlap, conns
<1>3. CASE UNCHANGED vars
  BY <1>3 DEF vars, Inv, TypeOK, FirstOnly, InRange, HandlersNeverOverlap
<1> QED
  BY <1>1, <1>2, <1>3, MainStepInv, HandleInv, HandlerEndsInv DEF Next

(* The types of Workers (TypeOK). *)
THEOREM TypesHold == Spec => []TypeOK
<1>1. Inv => TypeOK
  BY DEF Inv
<1> QED
  BY <1>1, InitInv, NextInv, PTL DEF Spec

(* Whatever the number of workers, no two handlers run at one time: the    *)
(* premise of Sessions (HandlersNeverOverlap).                             *)
THEOREM HandlersAreSequential == Spec => []HandlersNeverOverlap
<1>1. Inv => HandlersNeverOverlap
  BY DEF Inv
<1> QED
  BY <1>1, InitInv, NextInv, PTL DEF Spec

-----------------------------------------------------------------------------
(* The set of active connections. *)

(* The main thread has at most one connection that is not yet its          *)
(* worker's, and none while it asks for one or no longer accepts.          *)
OneAccepting ==
  /\ main \in {"accept", "deaf"} => \A c \in Conn : phase[c] # "accepting"
  /\ \A c, d \in Conn : phase[c] = "accepting" /\ phase[d] = "accepting" => c = d

(* While that connection is being put in, it is the only one missing.      *)
OneMissing ==
  ~raced /\ main = "insert" =>
    \A w \in Worker : active[w] = {c \in Conn : home[c] = w /\ phase[c] # "accepting"}

SetInv == Inv /\ OneAccepting /\ OneMissing /\ ActiveAreOpen

(* Until two threads have met in it, a change does what it says.           *)
LEMMA ChangeExact ==
  ASSUME NEW w, NEW result, ~raced, Change(w, result)
  PROVE  active' = [active EXCEPT ![w] = result]
  BY DEF Change

LEMMA InitSet == Init => SetInv
<1> SUFFICES ASSUME Init PROVE SetInv
  OBVIOUS
<1>1. OneAccepting /\ OneMissing
  BY DEF Init, OneAccepting, OneMissing
<1>2. ActiveAreOpen
  BY DEF Init, ActiveAreOpen, Worker
<1> QED
  BY <1>1, <1>2, InitInv DEF SetInv

LEMMA DoAcceptSet ==
  ASSUME NEW c \in Conn, SetInv, DoAccept(c)
  PROVE  OneAccepting' /\ OneMissing' /\ ActiveAreOpen'
<1>1. /\ main = "accept" /\ main' = "insert" /\ phase[c] = "none" /\ active' = active
      /\ phase' = [phase EXCEPT ![c] = "accepting"]
  BY DEF DoAccept, Enter
<1>2. PICK w \in Worker : home' = [home EXCEPT ![c] = w] /\ raced' = (raced \/ WorkerChanges(w))
  BY DEF DoAccept
<1>3. OneAccepting' /\ ActiveAreOpen'
  BY <1>1 DEF SetInv, Inv, TypeOK, OneAccepting, ActiveAreOpen
<1>4. ASSUME ~raced', NEW v \in Worker
      PROVE  active'[v] = {d \in Conn : home'[d] = v /\ phase'[d] # "accepting"}
  <2>1. active[v] = {d \in Conn : home[d] = v}
    BY <1>1, <1>2, <1>4 DEF SetInv, ActiveAreOpen
  <2>2. home[c] # v
    BY <1>1, <1>4 DEF SetInv, Inv, FirstOnly, Worker
  <2>3. \A d \in Conn : home[d] = v <=> (home'[d] = v /\ phase'[d] # "accepting")
    BY <1>1, <1>2, <2>2 DEF SetInv, Inv, TypeOK, OneAccepting
  <2> QED
    BY <1>1, <2>1, <2>3
<1> QED
  BY <1>3, <1>4 DEF OneMissing

LEMMA InsertedSet ==
  ASSUME NEW c \in Conn, SetInv, Inserted(c)
  PROVE  OneAccepting' /\ OneMissing' /\ ActiveAreOpen'
<1>1. OneAccepting' /\ OneMissing'
  BY DEF Inserted, SetInv, OneAccepting, OneMissing
<1>2. ASSUME ~raced', NEW v \in Worker
      PROVE  active'[v] = {d \in Conn : home'[d] = v}
  <2>1. active' = [active EXCEPT ![home[c]] = active[home[c]] \cup {c}] /\ home' = home /\ ~raced
    BY <1>2, ChangeExact DEF Inserted
  <2>2. active[v] = {d \in Conn : home[d] = v /\ phase[d] # "accepting"}
    BY <2>1, <1>2 DEF SetInv, OneMissing, Inserted
  <2>3. \A d \in Conn : phase[d] = "accepting" <=> d = c
    BY DEF Inserted, SetInv, OneAccepting
  <2>4. active \in [Worker -> SUBSET Conn]
    BY DEF SetInv, Inv, TypeOK
  <2>5. CASE v = home[c]
    BY <2>1, <2>2, <2>3, <2>4, <2>5
  <2>6. CASE v # home[c]
    BY <2>1, <2>2, <2>3, <2>4, <2>6
  <2> QED
    BY <2>5, <2>6
<1> QED
  BY <1>1, <1>2 DEF ActiveAreOpen

(* Erasing on either thread: the connection goes from the set and from its *)
(* worker at one time.                                                     *)
LEMMA HandleFinishSet ==
  ASSUME NEW c \in Conn, SetInv, phase[c] # "none", HandleFinish(c), raced' = raced,
         \/ main' = main /\ phase[c] # "accepting"
         \/ main = "drop" /\ main' = "deaf" /\ phase[c] = "accepting"
  PROVE  OneAccepting' /\ OneMissing' /\ ActiveAreOpen'
<1>1. phase' = [phase EXCEPT ![c] = "none"] /\ home' = [home EXCEPT ![c] = 0]
  BY DEF HandleFinish, Enter
<1>2. OneAccepting'
  BY <1>1 DEF SetInv, Inv, TypeOK, OneAccepting
<1>3. ASSUME ~raced, NEW v \in Worker, NEW S \in SUBSET Conn, active[v] = S
      PROVE  active'[v] = IF v = home[c] THEN S \ {c} ELSE S
  <2>1. active' = [active EXCEPT ![home[c]] = active[home[c]] \ {c}]
    BY <1>3, ChangeExact DEF HandleFinish
  <2> QED
    BY <2>1, <1>3 DEF SetInv, Inv, TypeOK
<1>4. \A v \in Worker, d \in Conn : home'[d] = v <=> home[d] = v /\ d # c
  BY <1>1 DEF SetInv, Inv, TypeOK, Worker
<1>5. ASSUME ~raced', main' = "insert", NEW v \in Worker
      PROVE  active'[v] = {d \in Conn : home'[d] = v /\ phase'[d] # "accepting"}
  <2> DEFINE S == {d \in Conn : home[d] = v /\ phase[d] # "accepting"}
  <2>1. active[v] = S
    BY <1>5 DEF SetInv, OneMissing
  <2>2. active'[v] = IF v = home[c] THEN S \ {c} ELSE S
    BY <2>1, <1>3, <1>5
  <2>3. \A d \in Conn : d # c => phase'[d] = phase[d]
    BY <1>1 DEF SetInv, Inv, TypeOK
  <2> QED
    BY <2>2, <2>3, <1>4
<1>6. ASSUME ~raced', main' \notin {"insert", "clear", "join", "ended"}, NEW v \in Worker
      PROVE  active'[v] = {d \in Conn : home'[d] = v}
  <2> DEFINE S == {d \in Conn : home[d] = v}
  <2>1. active[v] = S
    BY <1>6 DEF SetInv, ActiveAreOpen
  <2>2. active'[v] = IF v = home[c] THEN S \ {c} ELSE S
    BY <2>1, <1>3, <1>6
  <2> QED
    BY <2>2, <1>4
<1> QED
  BY <1>2, <1>5, <1>6 DEF OneMissing, ActiveAreOpen

(* A step that leaves the set and the connections' workers alone.          *)
LEMMA QuietSet ==
  ASSUME SetInv, UNCHANGED <<active, home>>, raced' \in BOOLEAN, raced => raced',
         \A c \in Conn : phase'[c] = "accepting" <=> phase[c] = "accepting",
         \/ main' = main
         \/ main \notin {"insert", "clear", "join", "ended"} /\ main' \notin {"insert", "accept", "deaf"}
  PROVE  OneAccepting' /\ OneMissing' /\ ActiveAreOpen'
  BY DEF SetInv, OneAccepting, OneMissing, ActiveAreOpen

LEMMA StartSet ==
  ASSUME NEW c \in Conn, SetInv, Start(c)
  PROVE  OneAccepting' /\ OneMissing' /\ ActiveAreOpen'
  BY DEF Start, Enter, SetInv, Inv, TypeOK, OneAccepting, OneMissing, ActiveAreOpen

LEMMA MainStepSet ==
  ASSUME SetInv, MainStep
  PROVE  OneAccepting' /\ OneMissing' /\ ActiveAreOpen'
<1>1. CASE Accepted \/ Signal
  BY <1>1, QuietSet DEF Accepted, Signal, conns, SetInv, Inv, TypeOK
<1>2. CASE StopContexts
  BY <1>2, QuietSet DEF StopContexts, conns, WorkerChanges, SetInv, Inv, TypeOK
<1>3. CASE JoinClears
  BY <1>3 DEF JoinClears, SetInv, OneAccepting, OneMissing, ActiveAreOpen
<1>4. CASE JoinReturns
  BY <1>4 DEF JoinReturns, conns, SetInv, OneAccepting, OneMissing, ActiveAreOpen
<1>5. ASSUME NEW c \in Conn, AcceptFails(c) PROVE OneAccepting' /\ OneMissing' /\ ActiveAreOpen'
  BY <1>5, QuietSet DEF AcceptFails, conns, WorkerChanges, SetInv, Inv, TypeOK
<1>6. ASSUME NEW c \in Conn, Dropped(c) PROVE OneAccepting' /\ OneMissing' /\ ActiveAreOpen'
  BY <1>6, HandleFinishSet DEF Dropped
<1> QED
  BY <1>1, <1>2, <1>3, <1>4, <1>5, <1>6, DoAcceptSet, InsertedSet, StartSet DEF MainStep

(* A handler that gives up leaves its connection in the set, where nothing *)
(* but the end of the server takes it out: it is there already, unless     *)
(* join() has begun to empty the set.                                      *)
LEMMA GivesUpSet ==
  ASSUME NEW c \in Conn, SetInv, GivesUp(c)
  PROVE  OneAccepting' /\ OneMissing' /\ ActiveAreOpen'
<1>1. CASE c \in active[home[c]]
  BY <1>1, QuietSet DEF GivesUp, Enter, SetInv, Inv, TypeOK
<1>2. CASE c \notin active[home[c]]
  <2>1. home[c] \in Worker
    BY FirstIsWorker DEF GivesUp, SetInv, Inv, FirstOnly
  <2>2. raced \/ main \in {"clear", "join", "ended"}
    BY <1>2, <2>1 DEF GivesUp, SetInv, OneMissing, ActiveAreOpen
  <2> QED
    BY <1>2, <2>2 DEF GivesUp, Enter, SetInv, Inv, TypeOK, OneAccepting, OneMissing, ActiveAreOpen
<1> QED
  BY <1>1, <1>2

LEMMA HandlersSet ==
  ASSUME NEW c \in Conn, SetInv, Handle(c) \/ HandlerEnds(c)
  PROVE  OneAccepting' /\ OneMissing' /\ ActiveAreOpen'
<1>1. CASE Handle(c) \/ Continues(c)
  BY <1>1, QuietSet DEF Handle, Continues, Enter, SetInv, Inv, TypeOK
<1>2. CASE Closes(c)
  BY <1>2, QuietSet DEF Closes, Enter, MainChanges, SetInv, Inv, TypeOK
<1>3. CASE Erased(c)
  BY <1>3, HandleFinishSet DEF Erased
<1> QED
  BY <1>1, <1>2, <1>3, GivesUpSet DEF HandlerEnds

LEMMA NextSet == SetInv /\ [Next]_vars => SetInv'
<1> SUFFICES ASSUME SetInv, [Next]_vars PROVE OneAccepting' /\ OneMissing' /\ ActiveAreOpen'
  BY NextInv DEF SetInv
<1>1. CASE Breaks
  BY <1>1 DEF Breaks, OneAccepting, OneMissing, ActiveAreOpen
<1>2. ASSUME NEW w \in Worker, RunReturns(w) PROVE OneAccepting' /\ OneMissing' /\ ActiveAreOpen'
  BY <1>2, QuietSet DEF RunReturns, conns, SetInv, Inv, TypeOK
<1>3. CASE UNCHANGED vars
  BY <1>3, QuietSet DEF vars, SetInv, Inv, TypeOK
<1> QED
  BY <1>1, <1>2, <1>3, MainStepSet, HandlersSet DEF Next

(* Until two threads have met in it and until the server stops,            *)
(* active_connections of every worker holds exactly the connections made   *)
(* for it that are not closed (ActiveAreOpen): the abandoned ones stay.    *)
THEOREM ActiveAlwaysOpen == Spec => []ActiveAreOpen
<1>1. SetInv => ActiveAreOpen
  BY DEF SetInv
<1> QED
  BY <1>1, InitSet, NextSet, PTL DEF Spec

-----------------------------------------------------------------------------
(* The end. *)

(* stop() has come to the worker joining: the threads of those before it   *)
(* have ended, handlers run on live threads only, and the sets that were   *)
(* emptied stay empty.                                                     *)
EndInv ==
  /\ SetInv
  /\ \A c \in Conn : phase[c] \in {"handling", "erasing"} => home[c] \in alive
  /\ \A w \in Worker : w < joining => w \notin alive
  /\ ~raced => \A w \in Worker : w < joining \/ (main = "join" /\ w = joining) => active[w] = {}
  /\ main \notin {"clear", "join", "ended"} => joining = 1
  /\ main = "ended" => alive = {} /\ (raced \/ joining = Workers + 1)

LEMMA EndImplies == EndInv => NothingRunsAtTheEnd
  BY WorkersAssumption DEF EndInv, NothingRunsAtTheEnd, Worker

LEMMA InitEnd == Init => EndInv
<1> SUFFICES ASSUME Init PROVE EndInv
  OBVIOUS
<1> QED
  BY InitSet DEF Init, EndInv, Worker

(* Erasing takes nothing out of a set that is empty. *)
LEMMA HandleFinishEnd ==
  ASSUME NEW c \in Conn, EndInv, SetInv', phase[c] # "none", HandleFinish(c),
         UNCHANGED <<idle, threads, raced>>,
         main' = main \/ (main = "drop" /\ main' = "deaf")
  PROVE  EndInv'
<1>1. phase' = [phase EXCEPT ![c] = "none"] /\ home' = [home EXCEPT ![c] = 0]
  BY DEF HandleFinish, Enter
<1>2. \A d \in Conn : phase'[d] \in {"handling", "erasing"} => home'[d] \in alive'
  BY <1>1 DEF EndInv, SetInv, Inv, TypeOK, threads
<1>3. ASSUME ~raced', NEW w \in Worker, w < joining' \/ (main' = "join" /\ w = joining')
      PROVE  active'[w] = {}
  <2>1. active' = [active EXCEPT ![home[c]] = active[home[c]] \ {c}]
    BY <1>3, ChangeExact DEF HandleFinish
  <2>2. active[w] = {}
    BY <1>3 DEF EndInv, threads
  <2> QED
    BY <2>1, <2>2 DEF EndInv, SetInv, Inv, TypeOK
<1> QED
  BY <1>2, <1>3 DEF EndInv, threads

LEMMA JoinClearsEnd ==
  ASSUME EndInv, SetInv', JoinClears
  PROVE  EndInv'
<1>1. \A c \in Conn : phase'[c] \in {"handling", "erasing"} =>
                         phase'[c] = phase[c] /\ home'[c] = home[c]
  BY DEF JoinClears
<1>2. ASSUME ~raced', NEW w \in Worker, w < joining' \/ (main' = "join" /\ w = joining')
      PROVE  active'[w] = {}
  <2>1. active' = [active EXCEPT ![joining] = {}]
    BY <1>2, ChangeExact DEF JoinClears
  <2>2. joining' = joining /\ raced' = raced
    BY DEF JoinClears, threads
  <2> QED
    BY <1>2, <2>1, <2>2 DEF EndInv, SetInv, Inv, TypeOK
<1> QED
  BY <1>1, <1>2 DEF EndInv, JoinClears, threads

LEMMA JoinReturnsEnd ==
  ASSUME EndInv, SetInv', JoinReturns
  PROVE  EndInv'
<1>1. joining \in 1 .. Workers
  BY DEF JoinReturns, EndInv, SetInv, Inv, InRange
<1>2. /\ joining' = joining + 1 /\ joining \notin alive /\ main = "join"
      /\ main' = IF joining = Workers THEN "ended" ELSE "clear"
      /\ raced => raced'
      /\ UNCHANGED <<alive, active, phase, home>>
  BY DEF JoinReturns, conns
<1>3. \A w \in Worker : w < joining' => w \notin alive'
  BY <1>1, <1>2, WorkersAssumption DEF EndInv, Worker
<1>4. main' = "ended" => alive' = {}
  BY <1>1, <1>2, <1>3, WorkersAssumption DEF EndInv, SetInv, Inv, TypeOK, Worker
<1>5. ~raced' => \A w \in Worker : w < joining' \/ (main' = "join" /\ w = joining') => active'[w] = {}
  BY <1>1, <1>2, WorkersAssumption DEF EndInv, Worker
<1> QED
  BY <1>1, <1>2, <1>3, <1>4, <1>5 DEF EndInv

LEMMA InsertedEnd ==
  ASSUME NEW c \in Conn, EndInv, SetInv', Inserted(c)
  PROVE  EndInv'
<1>1. joining' = 1 /\ main' = "listen"
  BY DEF Inserted, EndInv, threads
<1> QED
  BY <1>1 DEF Inserted, EndInv, threads, Worker

LEMMA DoAcceptEnd ==
  ASSUME NEW c \in Conn, EndInv, SetInv', DoAccept(c)
  PROVE  EndInv'
<1>1. PICK w \in Worker : home' = [home EXCEPT ![c] = w]
  BY DEF DoAccept
<1>2. joining' = 1 /\ main' = "insert"
  BY DEF DoAccept, EndInv, threads
<1> QED
  BY <1>1, <1>2 DEF DoAccept, Enter, EndInv, SetInv, Inv, TypeOK, threads, Worker

LEMMA MainStepEnd ==
  ASSUME EndInv, SetInv', MainStep
  PROVE  EndInv'
<1>1. CASE Accepted \/ Signal \/ StopContexts
  BY <1>1 DEF Accepted, Signal, StopContexts, EndInv, threads, conns, Worker
<1>2. ASSUME NEW c \in Conn, Start(c) \/ AcceptFails(c) PROVE EndInv'
  BY <1>2 DEF Start, AcceptFails, Enter, EndInv, SetInv, Inv, TypeOK, threads, conns, Worker
<1>3. ASSUME NEW c \in Conn, Dropped(c) PROVE EndInv'
  BY <1>3, HandleFinishEnd DEF Dropped
<1> QED
  BY <1>1, <1>2, <1>3, JoinClearsEnd, JoinReturnsEnd, DoAcceptEnd, InsertedEnd DEF MainStep

LEMMA HandlersEnd ==
  ASSUME NEW c \in Conn, EndInv, SetInv', Handle(c) \/ HandlerEnds(c)
  PROVE  EndInv'
<1>1. CASE Handle(c) \/ Continues(c)
  BY <1>1 DEF Handle, Continues, Enter, EndInv, SetInv, Inv, TypeOK, threads
<1>2. CASE GivesUp(c)
  BY <1>2 DEF GivesUp, Enter, EndInv, SetInv, Inv, TypeOK, threads
<1>3. CASE Closes(c)
  BY <1>3 DEF Closes, Enter, EndInv, SetInv, Inv, TypeOK, threads
<1>4. CASE Erased(c)
  BY <1>4, HandleFinishEnd DEF Erased
<1> QED
  BY <1>1, <1>2, <1>3, <1>4 DEF HandlerEnds

LEMMA NextEnd == EndInv /\ [Next]_vars => EndInv'
<1> SUFFICES ASSUME EndInv, [Next]_vars PROVE EndInv'
  OBVIOUS
<1>1. SetInv'
  BY NextSet DEF EndInv
<1>2. CASE Breaks
  BY <1>1, <1>2 DEF Breaks, EndInv
<1>3. ASSUME NEW w \in Worker, RunReturns(w) PROVE EndInv'
  BY <1>1, <1>3 DEF RunReturns, Runs, conns, EndInv, SetInv, Inv, TypeOK
<1>4. CASE UNCHANGED vars
  BY <1>1, <1>4 DEF vars, EndInv
<1> QED
  BY <1>1, <1>2, <1>3, <1>4, MainStepEnd, HandlersEnd DEF Next

(* When stop() returns, no thread and no handler runs, and no worker holds *)
(* a connection unless two threads met in its set (NothingRunsAtTheEnd).   *)
THEOREM NothingEverRunsAtTheEnd == Spec => []NothingRunsAtTheEnd
  BY EndImplies, InitEnd, NextEnd, PTL DEF Spec
=============================================================================
