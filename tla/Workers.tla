------------------------------ MODULE Workers ------------------------------
(***************************************************************************)
(* The threads: the main thread, which accepts connections and stops the   *)
(* server (server.cpp, connection_manager.cpp), and the worker threads,    *)
(* each of which runs the handlers of the connections made for it          *)
(* (worker_thread.cpp).  What a handler does is left to Sessions; here it  *)
(* begins and it ends, and it leaves the connection with something         *)
(* outstanding, with nothing outstanding, or closed.                       *)
(***************************************************************************)
EXTENDS Naturals, FiniteSets

CONSTANTS Conn,     \* connection objects that may exist at one time
          Workers,  \* worker_threads of the configuration
          MaxIdle   \* bound: connections made in advance for one worker

ASSUME WorkersAssumption == Workers \in Nat \ {0} /\ MaxIdle \in Nat

Worker == 1 .. Workers   \* the indices of the vector workers, from 1

VARIABLES main,   \* what the main thread does
          joining,\* the worker stop() is at
          idle,   \* how many available_connections each worker has
          active, \* active_connections of each worker
          home,   \* the worker each connection was made for, 0 for none
          phase,  \* what each connection does
          halted, \* the workers whose io_context is stopped
          alive,  \* the workers whose thread runs
          raced   \* two threads have changed one active_connections at a time

conns == <<active, home, phase>>
threads == <<joining, halted, alive>>
vars == <<main, joining, idle, active, home, phase, halted, alive, raced>>

(* "accept": do_accept asks for a connection; "insert": it is being put in *)
(* active_connections; "listen": async_accept and the signal set are       *)
(* outstanding; "start": current_connection->start(); "drop": it is being  *)
(* taken out of active_connections; "deaf": only the signal set is         *)
(* outstanding; "clear": join() empties the active_connections of joining; *)
(* "join": it waits for the thread.                                        *)
Main == {"accept", "insert", "listen", "start", "drop", "deaf", "stop", "clear", "join", "ended"}

(* "accepting": its socket is the one async_accept fills; "waiting": an    *)
(* operation of the connection is outstanding; "handling": its handler     *)
(* runs; "erasing": its handler is in handle_finish; "abandoned": nothing  *)
(* is outstanding and nothing closes it.                                   *)
Phase == {"none", "accepting", "waiting", "handling", "erasing", "abandoned"}

TypeOK ==
  /\ main \in Main
  /\ joining \in 1 .. Workers + 1
  /\ idle \in [Worker -> 0 .. MaxIdle]
  /\ active \in [Worker -> SUBSET Conn]
  /\ home \in [Conn -> Worker \cup {0}]
  /\ phase \in [Conn -> Phase]
  /\ halted \subseteq Worker
  /\ alive \subseteq Worker
  /\ raced \in BOOLEAN

(* worker_connections has no default (config_vars.cpp:82): without an      *)
(* entry in the configuration the number is whatever the memory holds.     *)
Init ==
  /\ main = "accept"
  /\ joining = 1
  /\ idle \in {[w \in Worker |-> n] : n \in 0 .. MaxIdle}
  /\ active = [w \in Worker |-> {}]
  /\ home = [c \in Conn |-> 0]
  /\ phase = [c \in Conn |-> "none"]
  /\ halted = {}
  /\ alive = Worker
  /\ raced = FALSE

Enter(c, where) == phase' = [phase EXCEPT ![c] = where]

(* No lock guards active_connections.  Once the main thread and a worker   *)
(* have changed one at the same time, it holds anything after any change,  *)
(* and the process may end (Breaks).                                       *)
MainChanges(w) ==
  \/ main \in {"insert", "drop"} /\ \E c \in Conn : phase[c] = "accepting" /\ home[c] = w
  \/ main = "clear" /\ joining = w

WorkerChanges(w) == \E c \in Conn : phase[c] = "erasing" /\ home[c] = w

Change(w, result) ==
  \E set \in IF raced THEN SUBSET Conn ELSE {result} :
    active' = [active EXCEPT ![w] = set]

(* Mutant: the connections are counted. *)
ActiveConnectionsCounted(w) == Cardinality(active[w])

(* active_connection_count(): active_conn_count is 0 and nothing changes   *)
(* it.                                                                     *)
ActiveConnectionCount(w) == 0

(* connection_manager::get_available_connection: the first worker whose    *)
(* count no other is below.                                                *)
Chosen(w) ==
  /\ \A v \in Worker : ActiveConnectionCount(w) <= ActiveConnectionCount(v)
  /\ \A v \in 1 .. w - 1 : ActiveConnectionCount(w) < ActiveConnectionCount(v)

-----------------------------------------------------------------------------
(* The main thread. *)

(* Mutant: the first of the connections made in advance, also when there   *)
(* is none.                                                                *)
DoAcceptUnchecked(c) ==
  /\ main = "accept"
  /\ phase[c] = "none"
  /\ \E w \in Worker :
       /\ Chosen(w)
       /\ idle' = [idle EXCEPT ![w] = @ - 1]
       /\ home' = [home EXCEPT ![c] = w]
       /\ raced' = (raced \/ WorkerChanges(w))
  /\ Enter(c, "accepting")
  /\ main' = "insert"
  /\ UNCHANGED <<active, threads>>

(* do_accept, with worker_thread::get_available_connection: one of the     *)
(* connections made in advance, or a new one.                              *)
DoAccept(c) ==
  /\ main = "accept"
  /\ phase[c] = "none"
  /\ \E w \in Worker :
       /\ Chosen(w)
       /\ idle' = [idle EXCEPT ![w] = IF @ > 0 THEN @ - 1 ELSE 0]
       /\ home' = [home EXCEPT ![c] = w]
       /\ raced' = (raced \/ WorkerChanges(w))
  /\ Enter(c, "accepting")
  /\ main' = "insert"
  /\ UNCHANGED <<active, threads>>

Inserted(c) ==
  /\ main = "insert"
  /\ phase[c] = "accepting"
  /\ Change(home[c], active[home[c]] \cup {c})
  /\ main' = "listen"
  /\ UNCHANGED <<idle, home, phase, threads, raced>>

Accepted ==
  /\ main = "listen"
  /\ main' = "start"
  /\ UNCHANGED <<idle, conns, threads, raced>>

(* start() runs on the main thread; once its read is outstanding, the      *)
(* connection is its worker's.                                             *)
Start(c) ==
  /\ main = "start"
  /\ phase[c] = "accepting"
  /\ Enter(c, "waiting")
  /\ main' = "accept"
  /\ UNCHANGED <<idle, active, home, threads, raced>>

(* Accepting fails: finish() runs on the main thread, and nothing is       *)
(* accepted any more.                                                      *)
AcceptFails(c) ==
  /\ main = "listen"
  /\ phase[c] = "accepting"
  /\ raced' = (raced \/ WorkerChanges(home[c]))
  /\ main' = "drop"
  /\ UNCHANGED <<idle, conns, threads>>

(* Mutant: the connection stays where it was. *)
HandleFinishForgotten(c) ==
  /\ Enter(c, "none")
  /\ home' = [home EXCEPT ![c] = 0]
  /\ UNCHANGED active

(* worker_thread::handle_finish; the object goes with its last handler.    *)
HandleFinish(c) ==
  /\ Enter(c, "none")
  /\ home' = [home EXCEPT ![c] = 0]
  /\ Change(home[c], active[home[c]] \ {c})

Dropped(c) ==
  /\ main = "drop"
  /\ phase[c] = "accepting"
  /\ HandleFinish(c)
  /\ main' = "deaf"
  /\ UNCHANGED <<idle, threads, raced>>

Signal ==
  /\ main \in {"listen", "deaf"}
  /\ main' = "stop"
  /\ UNCHANGED <<idle, conns, threads, raced>>

(* Mutant: the threads are joined and not told to stop. *)
StopContextsForgotten ==
  /\ main = "stop"
  /\ main' = "clear"
  /\ raced' = (raced \/ WorkerChanges(joining))
  /\ UNCHANGED <<idle, conns, threads>>

(* connection_manager::stop stops every io_context first.                  *)
StopContexts ==
  /\ main = "stop"
  /\ halted' = Worker
  /\ main' = "clear"
  /\ raced' = (raced \/ WorkerChanges(joining))
  /\ UNCHANGED <<joining, alive, idle, conns>>

(* worker_thread::join lets go of the connections, while the last handler  *)
(* of the worker may still run; those with nothing outstanding go.         *)
JoinClears ==
  LET gone == {c \in Conn : home[c] = joining /\ phase[c] = "abandoned"}
  IN  /\ main = "clear"
      /\ Change(joining, {})
      /\ idle' = [idle EXCEPT ![joining] = 0]
      /\ phase' = [c \in Conn |-> IF c \in gone THEN "none" ELSE phase[c]]
      /\ home' = [c \in Conn |-> IF c \in gone THEN 0 ELSE home[c]]
      /\ main' = "join"
      /\ UNCHANGED <<threads, raced>>

(* Mutant: join() does not wait for the thread. *)
JoinDetaches ==
  /\ main = "join"
  /\ joining' = joining + 1
  /\ main' = IF joining = Workers THEN "ended" ELSE "clear"
  /\ UNCHANGED <<idle, conns, halted, alive, raced>>

(* The worker after this one is next; its handlers may be running.         *)
JoinReturns ==
  /\ main = "join"
  /\ joining \notin alive
  /\ joining' = joining + 1
  /\ main' = IF joining = Workers THEN "ended" ELSE "clear"
  /\ raced' = (raced \/ WorkerChanges(joining + 1))
  /\ UNCHANGED <<idle, conns, halted, alive>>

-----------------------------------------------------------------------------
(* A worker thread: io_context->run(). *)

Runs(w) == \E c \in Conn : home[c] = w /\ phase[c] \in {"handling", "erasing"}

Handle(c) ==
  /\ phase[c] = "waiting"
  /\ home[c] \in alive \ halted
  /\ ~Runs(home[c])
  /\ Enter(c, "handling")
  /\ UNCHANGED <<main, idle, active, home, threads, raced>>

(* The handler has started another operation. *)
Continues(c) ==
  /\ phase[c] = "handling"
  /\ Enter(c, "waiting")
  /\ UNCHANGED <<main, idle, active, home, threads, raced>>

(* Nothing holds the object but active_connections; when that has lost it, *)
(* it goes.                                                                *)
GivesUp(c) ==
  /\ phase[c] = "handling"
  /\ \/ /\ c \in active[home[c]]
        /\ Enter(c, "abandoned")
        /\ UNCHANGED home
     \/ /\ c \notin active[home[c]]
        /\ Enter(c, "none")
        /\ home' = [home EXCEPT ![c] = 0]
  /\ UNCHANGED <<main, idle, active, threads, raced>>

(* finish() runs on the worker thread. *)
Closes(c) ==
  /\ phase[c] = "handling"
  /\ Enter(c, "erasing")
  /\ raced' = (raced \/ MainChanges(home[c]))
  /\ UNCHANGED <<main, idle, active, home, threads>>

Erased(c) ==
  /\ phase[c] = "erasing"
  /\ HandleFinish(c)
  /\ UNCHANGED <<main, idle, threads, raced>>

(* run() returns once the io_context is stopped: the work guard keeps it   *)
(* running when there is nothing to do.                                    *)
RunReturns(w) ==
  /\ w \in alive \cap halted
  /\ ~Runs(w)
  /\ alive' = alive \ {w}
  /\ UNCHANGED <<main, joining, halted, idle, conns, raced>>

(* The broken container ends the process. *)
Breaks ==
  /\ raced
  /\ main # "ended"
  /\ main' = "ended"
  /\ active' = [w \in Worker |-> {}]
  /\ home' = [c \in Conn |-> 0]
  /\ phase' = [c \in Conn |-> "none"]
  /\ alive' = {}
  /\ UNCHANGED <<idle, joining, halted, raced>>

-----------------------------------------------------------------------------
MainStep ==
  \/ Accepted \/ Signal \/ StopContexts \/ JoinClears \/ JoinReturns
  \/ \E c \in Conn : DoAccept(c) \/ Inserted(c) \/ Start(c) \/ AcceptFails(c) \/ Dropped(c)

HandlerEnds(c) == Continues(c) \/ GivesUp(c) \/ Closes(c) \/ Erased(c)

Next ==
  \/ MainStep \/ Breaks
  \/ \E c \in Conn : Handle(c) \/ HandlerEnds(c)
  \/ \E w \in Worker : RunReturns(w)

Spec == Init /\ [][Next]_vars

(* The main thread goes on with stop() once it is in it, handle_finish     *)
(* returns, and so does run() when it can.  Nobody has to connect, to send *)
(* or to signal, and no handler has to end.                                *)
Fairness ==
  /\ WF_vars(StopContexts) /\ WF_vars(JoinClears) /\ WF_vars(JoinReturns)
  /\ \A c \in Conn : WF_vars(Erased(c))
  /\ \A w \in Worker : WF_vars(RunReturns(w))

FairSpec == Spec /\ Fairness

-----------------------------------------------------------------------------
(* Never do two handlers run at one time, whatever the number of workers:  *)
(* every connection is made for the first of them.  Sessions takes its     *)
(* handlers to be atomic for this reason; handlers of two workers would    *)
(* share files_root with no lock between them.                             *)
HandlersNeverOverlap ==
  \A c, d \in Conn :
    {phase[c], phase[d]} \subseteq {"handling", "erasing"} => c = d

(* As long as no two threads have met in it, and until the server stops,   *)
(* active_connections of a worker holds the connections made for it that   *)
(* are not closed, those with nothing outstanding included, and no others. *)
ActiveAreOpen ==
  ~raced /\ main \notin {"insert", "clear", "join", "ended"} =>
    \A w \in Worker : active[w] = {c \in Conn : home[c] = w}

(* When stop() returns no thread runs, no handler runs and, had no two     *)
(* threads met in it, no worker holds a connection.                        *)
NothingRunsAtTheEnd ==
  main = "ended" => /\ alive = {}
                    /\ \A c \in Conn : phase[c] \notin {"handling", "erasing"}
                    /\ ~raced => \A w \in Worker : active[w] = {}

(* Once the server stops, it comes to its end, unless a handler that was   *)
(* running runs for ever, as that of a request with an open quote does     *)
(* (request.cpp:110): join() waits for that one and for nothing else.      *)
StopEnds ==
  main = "stop" ~> main = "ended" \/ \E c \in Conn : [](phase[c] = "handling")
=============================================================================
