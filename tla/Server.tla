-------------------------------- MODULE Server --------------------------------
(***************************************************************************)
(* The life of the server process (main.cpp, server/server.cpp,            *)
(* server/worker.cpp, the loop of server/event_loop.cpp): the main thread  *)
(* starts the workers, joins them and stops them again; SIGINT and SIGTERM *)
(* run stop() in whatever thread they interrupt, at any moment.  What a    *)
(* worker does for its connections is module EventLoop's concern.         *)
(***************************************************************************)
EXTENDS Integers, FiniteSets

CONSTANTS NumWorkers,
          Signals,      \* bound of the model: the signals that are delivered
          Main,         \* the main thread
          MaxClients,   \* bound of the model: connections of a worker at a time
          MaxFailures   \* bound of the model: system calls that fail

ASSUME ServerAssumption ==
    /\ NumWorkers \in Nat \ {0}
    /\ IsFiniteSet(Signals) /\ Main \notin Signals
    /\ MaxClients \in Nat /\ MaxFailures \in Nat

VARIABLES main,        \* [at, worker]: starting, joining, stopping, exited
          pc,          \* of each worker's thread
          event_loop,  \* whether the worker's event loop exists
          running,     \* its flag
          socket,      \* its listening socket: none, open, shut, closed
          clients,     \* how many connections it has
          failures,
          stopper      \* per run of stop(): [at, worker], over the workers in turn

vars == <<main, pc, event_loop, running, socket, clients, failures, stopper>>

Workers == 1 .. NumWorkers
Stoppers == Signals \cup {Main}

WorkerPcs == {"unborn", "bind", "create", "enter", "check", "poll", "cleanup", "close",
              "returned", "failed"}
StopperPcs == {"idle", "test", "clear", "shutdown", "done"}

Finished(w) == pc[w] \in {"returned", "failed"}
InLoop(w) == pc[w] \in {"check", "poll"}

Init ==
    /\ main = [at |-> "starting", worker |-> 1]
    /\ pc = [w \in Workers |-> "unborn"]
    /\ event_loop = [w \in Workers |-> FALSE]
    /\ running = [w \in Workers |-> FALSE]
    /\ socket = [w \in Workers |-> "none"]
    /\ clients = [w \in Workers |-> 0]
    /\ failures = 0
    /\ stopper = [s \in Stoppers |-> [at |-> "idle", worker |-> 1]]

Goto(w, label) == pc' = [pc EXCEPT ![w] = label]

-----------------------------------------------------------------------------
(* The main thread. *)

\* The next worker, or the next phase after the last one.
MainNext(phase) ==
    main' = IF main.worker < NumWorkers THEN [main EXCEPT !.worker = @ + 1]
                                        ELSE [at |-> phase, worker |-> 1]

start ==
    /\ main.at = "starting"
    /\ Goto(main.worker, "bind")
    /\ MainNext("joining")
    /\ UNCHANGED <<event_loop, running, socket, clients, failures, stopper>>

wait ==
    /\ main.at = "joining"
    /\ Finished(main.worker)
    /\ MainNext("stopping")
    /\ UNCHANGED <<pc, event_loop, running, socket, clients, failures, stopper>>

\* main calls stop() itself, and returns after it.
MainStops ==
    /\ main.at = "stopping"
    /\ stopper[Main].at = "idle"
    /\ stopper' = [stopper EXCEPT ![Main].at = "test"]
    /\ UNCHANGED <<main, pc, event_loop, running, socket, clients, failures>>

Exit ==
    /\ main.at = "stopping"
    /\ stopper[Main].at = "done"
    /\ main' = [main EXCEPT !.at = "exited"]
    /\ UNCHANGED <<pc, event_loop, running, socket, clients, failures, stopper>>

-----------------------------------------------------------------------------
(* stop(), in the main thread or in a signal handler. *)

\* A signal is delivered once the handlers are set, which is before start.
signal_handler(s) ==
    /\ main.at # "exited"
    /\ stopper[s].at = "idle"
    /\ stopper' = [stopper EXCEPT ![s].at = "test"]
    /\ UNCHANGED <<main, pc, event_loop, running, socket, clients, failures>>

\* A loop over the workers that goes one too far.
StopPastEnd(s) ==
    stopper' = [stopper EXCEPT ![s] =
                  IF @.worker <= NumWorkers THEN [at |-> "test", worker |-> @.worker + 1]
                                            ELSE [@ EXCEPT !.at = "done"]]

StopNext(s) ==
    stopper' = [stopper EXCEPT ![s] =
                  IF @.worker < NumWorkers THEN [at |-> "test", worker |-> @.worker + 1]
                                           ELSE [@ EXCEPT !.at = "done"]]

\* Worker::stop does nothing for a worker whose event loop does not exist yet.
StopTest(s) ==
    /\ stopper[s].at = "test"
    /\ IF event_loop[stopper[s].worker]
       THEN stopper' = [stopper EXCEPT ![s].at = "clear"]
       ELSE StopNext(s)
    /\ UNCHANGED <<main, pc, event_loop, running, socket, clients, failures>>

\* A stop that leaves the flag alone and only shuts the socket down.
StopKeepsRunning(s) ==
    /\ stopper[s].at = "clear"
    /\ stopper' = [stopper EXCEPT ![s].at = "shutdown"]
    /\ UNCHANGED <<main, pc, event_loop, running, socket, clients, failures>>

StopClear(s) ==
    /\ stopper[s].at = "clear"
    /\ running' = [running EXCEPT ![stopper[s].worker] = FALSE]
    /\ stopper' = [stopper EXCEPT ![s].at = "shutdown"]
    /\ UNCHANGED <<main, pc, event_loop, socket, clients, failures>>

StopShutdown(s) ==
    /\ stopper[s].at = "shutdown"
    /\ socket' = [socket EXCEPT ![stopper[s].worker] = IF @ = "open" THEN "shut" ELSE @]
    /\ StopNext(s)
    /\ UNCHANGED <<main, pc, event_loop, running, clients, failures>>

-----------------------------------------------------------------------------
(* A worker's thread. *)

create_socket_and_bind(w) ==
    /\ pc[w] = "bind"
    /\ socket' = [socket EXCEPT ![w] = "open"]
    /\ Goto(w, "create")
    /\ UNCHANGED <<main, event_loop, running, clients, failures, stopper>>

CreateEventLoop(w) ==
    /\ pc[w] = "create"
    /\ event_loop' = [event_loop EXCEPT ![w] = TRUE]
    /\ Goto(w, "enter")
    /\ UNCHANGED <<main, running, socket, clients, failures, stopper>>

\* A loop that is entered without running = true.
EnterNotRunning(w) ==
    /\ pc[w] = "enter"
    /\ Goto(w, "check")
    /\ UNCHANGED <<main, event_loop, running, socket, clients, failures, stopper>>

EnterLoop(w) ==
    /\ pc[w] = "enter"
    /\ running' = [running EXCEPT ![w] = TRUE]
    /\ Goto(w, "check")
    /\ UNCHANGED <<main, event_loop, socket, clients, failures, stopper>>

CheckRunning(w) ==
    /\ pc[w] = "check"
    /\ Goto(w, IF running[w] THEN "poll" ELSE "cleanup")
    /\ UNCHANGED <<main, event_loop, running, socket, clients, failures, stopper>>

\* poll returns: a client is accepted, a connection is closed, or there is
\* nothing to do (a timeout, a signal, a socket that was shut down).
Poll(w) ==
    /\ pc[w] = "poll"
    /\ \/ socket[w] = "open" /\ clients[w] < MaxClients
            /\ clients' = [clients EXCEPT ![w] = @ + 1]
       \/ clients[w] > 0 /\ clients' = [clients EXCEPT ![w] = @ - 1]
       \/ UNCHANGED clients
    /\ Goto(w, "check")
    /\ UNCHANGED <<main, event_loop, running, socket, failures, stopper>>

\* A shutdown that forgets the connections.
CleanupNone(w) ==
    /\ pc[w] = "cleanup"
    /\ Goto(w, "close")
    /\ UNCHANGED <<main, event_loop, running, socket, clients, failures, stopper>>

Cleanup(w) ==
    /\ pc[w] = "cleanup"
    /\ clients' = [clients EXCEPT ![w] = 0]
    /\ Goto(w, "close")
    /\ UNCHANGED <<main, event_loop, running, socket, failures, stopper>>

CloseSocket(w) ==
    /\ pc[w] = "close"
    /\ socket' = [socket EXCEPT ![w] = "closed"]
    /\ Goto(w, "returned")
    /\ UNCHANGED <<main, event_loop, running, clients, failures, stopper>>

\* socket, bind, listen or poll throws: the thread ends as it is, its
\* connections and its listening socket stay open.
Fail(w) ==
    /\ pc[w] \in {"bind", "poll"}
    /\ failures < MaxFailures
    /\ failures' = failures + 1
    /\ Goto(w, "failed")
    /\ UNCHANGED <<main, event_loop, running, socket, clients, stopper>>

-----------------------------------------------------------------------------
MainStep == start \/ wait \/ MainStops \/ Exit
StopStep(s) == StopTest(s) \/ StopClear(s) \/ StopShutdown(s)
WorkerStep(w) ==
    \/ create_socket_and_bind(w) \/ CreateEventLoop(w) \/ EnterLoop(w) \/ CheckRunning(w)
    \/ Poll(w) \/ Cleanup(w) \/ CloseSocket(w)

\* The process has ended.
Over == main.at = "exited" /\ UNCHANGED vars

Next ==
    \/ main.at # "exited"
       /\ \/ MainStep
          \/ \E s \in Stoppers : StopStep(s)
          \/ \E s \in Signals : signal_handler(s)
          \/ \E w \in Workers : WorkerStep(w) \/ Fail(w)
    \/ Over

Spec == Init /\ [][Next]_vars

\* Every thread keeps running, and poll returns within its timeout of a second.
FairSpec ==
    /\ Spec
    /\ WF_vars(main.at # "exited" /\ MainStep)
    /\ \A s \in Stoppers : WF_vars(main.at # "exited" /\ StopStep(s))
    /\ \A w \in Workers : WF_vars(main.at # "exited" /\ WorkerStep(w))

-----------------------------------------------------------------------------
(* Properties *)

TypeOK ==
    /\ main \in [at : {"starting", "joining", "stopping", "exited"}, worker : Workers]
    /\ pc \in [Workers -> WorkerPcs]
    /\ event_loop \in [Workers -> BOOLEAN]
    /\ running \in [Workers -> BOOLEAN]
    /\ socket \in [Workers -> {"none", "open", "shut", "closed"}]
    /\ clients \in [Workers -> 0 .. MaxClients]
    /\ failures \in 0 .. MaxFailures
    /\ stopper \in [Stoppers -> [at : StopperPcs, worker : Workers]]

\* Some run of stop() has come as far as clearing worker w's flag.
StopReached(w) ==
    \E s \in Stoppers :
        /\ stopper[s].at # "idle"
        /\ \/ stopper[s].worker > w
           \/ stopper[s].worker = w /\ stopper[s].at \in {"shutdown", "done"}

\* A worker leaves its event loop only when it was told to: not because of its
\* clients, and not because another worker failed (event_loop.cpp run, stop).
ServesUntilStopped ==
    \A w \in Workers : pc[w] \in {"cleanup", "close", "returned"} => StopReached(w)

\* main ends only when no worker's thread runs any more, and what is still open
\* then belongs to workers that failed: the rest have closed their connections
\* and their listening socket (main.cpp, server.cpp wait, event_loop.cpp run).
ExitIsClean ==
    main.at = "exited" =>
        \A w \in Workers :
            \/ pc[w] = "failed"
            \/ pc[w] = "returned" /\ clients[w] = 0 /\ socket[w] = "closed"

\* A signal that comes when every worker serves (or has ended) ends the process,
\* whatever the workers were doing and whichever of them fail.
StopsWhenServing ==
    \A s \in Signals :
        (stopper[s] = [at |-> "test", worker |-> 1] /\ \A w \in Workers : InLoop(w) \/ Finished(w))
            ~> main.at = "exited"

\* "when a terminate signal is received, the server is stopped using this
\* pointer and the signal handler" (server.cpp:40).
SignalStopsServer == \A s \in Signals : stopper[s].at # "idle" ~> main.at = "exited"
=============================================================================
