----------------------------- MODULE ServerProofs -----------------------------
(***************************************************************************)
(* Proofs about Server, for any number of workers, signals, connections    *)
(* and failures.                                                           *)
(***************************************************************************)
EXTENDS Server, TLAPS

LEMMA WorkersFacts ==
    /\ NumWorkers \in Nat /\ NumWorkers >= 1
    /\ 1 \in Workers
    /\ \A n \in Workers : n \in Nat /\ n >= 1 /\ n <= NumWorkers
    /\ \A n \in Workers : n < NumWorkers => n + 1 \in Workers
    /\ Main \in Stoppers
BY ServerAssumption DEF ServerAssumption, Workers, Stoppers

-----------------------------------------------------------------------------
(* Type correctness. *)

LEMMA TypeInit == Init => TypeOK
BY WorkersFacts, ServerAssumption
   DEF Init, TypeOK, ServerAssumption, WorkerPcs, StopperPcs

LEMMA TypeMain ==
    ASSUME TypeOK, MainStep
    PROVE  TypeOK'
<1> USE WorkersFacts DEF TypeOK, WorkerPcs, StopperPcs
<1>1. CASE start
  BY <1>1 DEF start, MainNext, Goto
<1>2. CASE wait
  BY <1>2 DEF wait, MainNext
<1>3. CASE MainStops
  BY <1>3 DEF MainStops
<1>4. CASE Exit
  BY <1>4 DEF Exit
<1>5. QED
  BY <1>1, <1>2, <1>3, <1>4 DEF MainStep

LEMMA StopNextType ==
    ASSUME TypeOK, NEW s \in Stoppers, StopNext(s)
    PROVE  stopper' \in [Stoppers -> [at : StopperPcs, worker : Workers]]
BY WorkersFacts DEF TypeOK, StopNext, StopperPcs

LEMMA TypeStop ==
    ASSUME TypeOK, NEW s \in Stoppers, StopStep(s) \/ (s \in Signals /\ signal_handler(s))
    PROVE  TypeOK'
<1>1. CASE StopTest(s)
  <2>1. stopper' \in [Stoppers -> [at : StopperPcs, worker : Workers]]
    BY <1>1, StopNextType DEF TypeOK, StopTest, StopperPcs
  <2>2. QED
    BY <1>1, <2>1 DEF TypeOK, StopTest
<1>2. CASE StopClear(s)
  BY <1>2 DEF TypeOK, StopClear, StopperPcs
<1>3. CASE StopShutdown(s)
  <2>1. stopper' \in [Stoppers -> [at : StopperPcs, worker : Workers]]
    BY <1>3, StopNextType DEF StopShutdown
  <2>2. socket' \in [Workers -> {"none", "open", "shut", "closed"}]
    BY <1>3 DEF TypeOK, StopShutdown
  <2>3. QED
    BY <1>3, <2>1, <2>2 DEF TypeOK, StopShutdown
<1>4. CASE signal_handler(s)
  BY <1>4 DEF TypeOK, signal_handler, StopperPcs
<1>5. QED
  BY <1>1, <1>2, <1>3, <1>4 DEF StopStep

LEMMA TypeWorker ==
    ASSUME TypeOK, NEW w \in Workers, WorkerStep(w) \/ Fail(w)
    PROVE  TypeOK'
<1> USE DEF TypeOK, Goto, WorkerPcs
<1>1. CASE create_socket_and_bind(w)
  BY <1>1 DEF create_socket_and_bind
<1>2. CASE CreateEventLoop(w)
  BY <1>2 DEF CreateEventLoop
<1>3. CASE EnterLoop(w)
  BY <1>3 DEF EnterLoop
<1>4. CASE CheckRunning(w)
  BY <1>4 DEF CheckRunning
<1>5. CASE Poll(w)
  <2>1. clients' \in [Workers -> 0 .. MaxClients]
    BY <1>5, ServerAssumption DEF Poll, ServerAssumption
  <2>2. QED
    BY <1>5, <2>1 DEF Poll
<1>6. CASE Cleanup(w)
  BY <1>6, ServerAssumption DEF Cleanup, ServerAssumption
<1>7. CASE CloseSocket(w)
  BY <1>7 DEF CloseSocket
<1>8. CASE Fail(w)
  <2>1. failures' \in 0 .. MaxFailures
    BY <1>8, ServerAssumption DEF Fail, ServerAssumption
  <2>2. QED
    BY <1>8, <2>1 DEF Fail
<1>9. QED
  BY <1>1, <1>2, <1>3, <1>4, <1>5, <1>6, <1>7, <1>8 DEF WorkerStep

\* Every variable of the server specification has its type in every reachable
\* state: in particular no run of stop() leaves the list of workers
\* (server.cpp stop, wait).
THEOREM TypeCorrect == Spec => []TypeOK
<1>1. TypeOK /\ [Next]_vars => TypeOK'
  <2> SUFFICES ASSUME TypeOK, [Next]_vars
               PROVE  TypeOK'
    OBVIOUS
  <2>1. CASE UNCHANGED vars
    BY <2>1 DEF TypeOK, vars
  <2>2. CASE Next
    BY <2>1, <2>2, TypeMain, TypeStop, TypeWorker DEF Next, Over, Stoppers
  <2>3. QED
    BY <2>1, <2>2
<1>2. QED
  BY TypeInit, <1>1, PTL DEF Spec

-----------------------------------------------------------------------------
(* A worker serves until it is stopped. *)

\* What a run of stop() has reached it has reached for good.
StopperReached(s, w) ==
    /\ stopper[s].at # "idle"
    /\ \/ stopper[s].worker > w
       \/ stopper[s].worker = w /\ stopper[s].at \in {"shutdown", "done"}

\* Why a worker may leave its loop: its flag is clear only before it has entered
\* the loop, or because a run of stop() has cleared it.
LeavingInv ==
    \A w \in Workers :
        /\ InLoop(w) /\ ~running[w] => StopReached(w)
        /\ pc[w] \in {"cleanup", "close", "returned"} => StopReached(w)

LEMMA StopReachedStable ==
    ASSUME TypeOK, [Next]_vars, NEW w \in Workers, StopReached(w)
    PROVE  StopReached(w)'
<1>1. PICK s \in Stoppers : StopperReached(s, w)
  BY DEF StopReached, StopperReached
<1>2. stopper[s].worker \in Workers /\ stopper \in [Stoppers -> [at : StopperPcs, worker : Workers]]
  BY DEF TypeOK
<1>3. SUFFICES StopperReached(s, w)'
  BY DEF StopReached, StopperReached
<1>4. CASE UNCHANGED stopper
  BY <1>1, <1>4 DEF StopperReached
<1>5. ASSUME NEW r \in Stoppers, StopTest(r)
      PROVE  StopperReached(s, w)'
  BY <1>1, <1>2, <1>5, WorkersFacts DEF StopTest, StopNext, StopperReached
<1>6. ASSUME NEW r \in Stoppers, StopClear(r)
      PROVE  StopperReached(s, w)'
  BY <1>1, <1>2, <1>6, WorkersFacts DEF StopClear, StopperReached
<1>7. ASSUME NEW r \in Stoppers, StopShutdown(r)
      PROVE  StopperReached(s, w)'
  BY <1>1, <1>2, <1>7, WorkersFacts DEF StopShutdown, StopNext, StopperReached
<1>8. ASSUME NEW r \in Signals, signal_handler(r)
      PROVE  StopperReached(s, w)'
  BY <1>1, <1>2, <1>8 DEF signal_handler, StopperReached, Stoppers
<1>9. CASE MainStep
  <2>1. CASE MainStops
    BY <1>1, <1>2, <2>1 DEF MainStops, StopperReached
  <2>2. CASE start \/ wait \/ Exit
    BY <1>4, <2>2 DEF start, wait, Exit
  <2>3. QED
    BY <1>9, <2>1, <2>2 DEF MainStep
<1>10. ASSUME NEW v \in Workers, WorkerStep(v) \/ Fail(v)
       PROVE  StopperReached(s, w)'
  BY <1>4, <1>10 DEF WorkerStep, Fail, create_socket_and_bind, CreateEventLoop, EnterLoop,
                     CheckRunning, Poll, Cleanup, CloseSocket
<1>11. QED
  BY <1>4, <1>5, <1>6, <1>7, <1>8, <1>9, <1>10 DEF Next, StopStep, Over, vars

LEMMA LeavingInit == Init => LeavingInv
BY DEF Init, LeavingInv, InLoop

LEMMA LeavingNext ==
    ASSUME TypeOK, LeavingInv, [Next]_vars
    PROVE  LeavingInv'
<1> SUFFICES ASSUME NEW w \in Workers
             PROVE  /\ (InLoop(w) /\ ~running[w] => StopReached(w))'
                    /\ (pc[w] \in {"cleanup", "close", "returned"} => StopReached(w))'
  BY DEF LeavingInv
<1> USE DEF LeavingInv, InLoop
<1>1. StopReached(w) => StopReached(w)'
  BY StopReachedStable
<1>2. CASE UNCHANGED <<pc, running>>
  BY <1>1, <1>2
<1>3. CASE start
  BY <1>1, <1>3 DEF start, Goto, TypeOK
<1>4. ASSUME NEW s \in Stoppers, StopClear(s)
      PROVE  /\ (InLoop(w) /\ ~running[w] => StopReached(w))'
             /\ (pc[w] \in {"cleanup", "close", "returned"} => StopReached(w))'
  <2>1. stopper' = [stopper EXCEPT ![s].at = "shutdown"]
    BY <1>4 DEF StopClear
  <2>2. stopper[s].worker = w => StopReached(w)'
    BY <2>1 DEF StopReached, TypeOK
  <2>3. stopper[s].worker # w => running'[w] = running[w]
    BY <1>4 DEF StopClear, TypeOK
  <2>4. pc' = pc
    BY <1>4 DEF StopClear
  <2>5. QED
    BY <1>1, <2>2, <2>3, <2>4
<1>5. ASSUME NEW v \in Workers, WorkerStep(v) \/ Fail(v)
      PROVE  /\ (InLoop(w) /\ ~running[w] => StopReached(w))'
             /\ (pc[w] \in {"cleanup", "close", "returned"} => StopReached(w))'
  <2> USE <1>1 DEF Goto, TypeOK
  <2>1. CASE create_socket_and_bind(v) \/ CreateEventLoop(v) \/ Fail(v)
    BY <2>1 DEF create_socket_and_bind, CreateEventLoop, Fail
  <2>2. CASE EnterLoop(v)
    BY <2>2 DEF EnterLoop
  <2>3. CASE CheckRunning(v)
    BY <2>3 DEF CheckRunning
  <2>4. CASE Poll(v)
    BY <2>4 DEF Poll
  <2>5. CASE Cleanup(v) \/ CloseSocket(v)
    BY <2>5 DEF Cleanup, CloseSocket
  <2>6. QED
    BY <1>5, <2>1, <2>2, <2>3, <2>4, <2>5 DEF WorkerStep
<1>6. CASE wait \/ MainStops \/ Exit \/ UNCHANGED vars
  BY <1>2, <1>6 DEF wait, MainStops, Exit, vars
<1>7. ASSUME NEW s \in Stoppers, StopTest(s) \/ StopShutdown(s)
      PROVE  UNCHANGED <<pc, running>>
  BY <1>7 DEF StopTest, StopShutdown
<1>8. ASSUME NEW s \in Signals, signal_handler(s)
      PROVE  UNCHANGED <<pc, running>>
  BY <1>8 DEF signal_handler
<1>9. QED
  BY <1>2, <1>3, <1>4, <1>5, <1>6, <1>7, <1>8 DEF Next, MainStep, StopStep, Over

\* No worker leaves its event loop unless a run of stop() has come to it: neither
\* its clients nor the failure of another worker end it (event_loop.cpp run,
\* stop; worker.cpp stop).
THEOREM WorkersServeUntilStopped == Spec => []ServesUntilStopped
<1>1. LeavingInv => ServesUntilStopped
  BY DEF LeavingInv, ServesUntilStopped
<1>2. TypeOK /\ LeavingInv /\ [Next]_vars => LeavingInv'
  BY LeavingNext
<1>3. QED
  BY TypeCorrect, LeavingInit, <1>1, <1>2, PTL DEF Spec

-----------------------------------------------------------------------------
(* The process ends with nothing running and nothing open. *)

\* The main thread is where it is because of what the workers have done, and a
\* worker that has passed its cleanup has closed what it had.
JoinInv ==
    /\ main.at = "starting" => \A w \in Workers : w >= main.worker => pc[w] = "unborn"
    /\ main.at = "joining" => \A w \in Workers : w < main.worker => Finished(w)
    /\ main.at \in {"stopping", "exited"} => \A w \in Workers : Finished(w)

ClosedInv ==
    \A w \in Workers :
        /\ pc[w] \in {"close", "returned"} => clients[w] = 0
        /\ pc[w] = "returned" => socket[w] = "closed"

LEMMA FinishedStable ==
    ASSUME TypeOK, JoinInv, [Next]_vars, NEW w \in Workers, Finished(w)
    PROVE  Finished(w)'
<1> USE DEF Finished
<1>1. CASE UNCHANGED pc
  BY <1>1
<1>2. CASE start
  BY <1>2, WorkersFacts DEF start, JoinInv, Goto, TypeOK
<1>3. ASSUME NEW v \in Workers, WorkerStep(v) \/ Fail(v)
      PROVE  Finished(w)'
  BY <1>3 DEF WorkerStep, Fail, create_socket_and_bind, CreateEventLoop, EnterLoop,
              CheckRunning, Poll, Cleanup, CloseSocket, Goto, TypeOK
<1>4. CASE wait \/ MainStops \/ Exit \/ UNCHANGED vars
  BY <1>1, <1>4 DEF wait, MainStops, Exit, vars
<1>5. ASSUME NEW s \in Stoppers, StopStep(s)
      PROVE  UNCHANGED pc
  BY <1>5 DEF StopStep, StopTest, StopClear, StopShutdown
<1>6. ASSUME NEW s \in Signals, signal_handler(s)
      PROVE  UNCHANGED pc
  BY <1>6 DEF signal_handler
<1>7. QED
  BY <1>1, <1>2, <1>3, <1>4, <1>5, <1>6 DEF Next, MainStep, Over

LEMMA JoinNext ==
    ASSUME TypeOK, JoinInv, [Next]_vars
    PROVE  JoinInv'
<1>1. \A w \in Workers : Finished(w) => Finished(w)'
  BY FinishedStable
<1>2. CASE UNCHANGED main /\ main.at # "starting"
  BY <1>1, <1>2 DEF JoinInv
<1>3. CASE UNCHANGED <<main, pc>>
  BY <1>3 DEF JoinInv, Finished
<1>4. CASE start
  <2>1. main.worker \in Workers /\ main \in [at : {"starting", "joining", "stopping", "exited"}, worker : Workers]
    BY DEF TypeOK
  <2>2. CASE main.worker < NumWorkers
    <3>1. main' = [main EXCEPT !.worker = main.worker + 1]
      BY <1>4, <2>2 DEF start, MainNext
    <3>2. \A w \in Workers : w >= main.worker + 1 => pc'[w] = "unborn"
      BY <1>4, <2>1, WorkersFacts DEF start, Goto, JoinInv, TypeOK
    <3>3. QED
      BY <1>4, <2>1, <3>1, <3>2 DEF JoinInv, start
  <2>3. CASE ~(main.worker < NumWorkers)
    <3>1. main' = [at |-> "joining", worker |-> 1]
      BY <1>4, <2>3 DEF start, MainNext
    <3>2. QED
      BY <3>1, WorkersFacts DEF JoinInv
  <2>4. QED
    BY <2>2, <2>3
<1>5. CASE wait
  <2>1. main.worker \in Workers /\ main \in [at : {"starting", "joining", "stopping", "exited"}, worker : Workers]
    BY DEF TypeOK
  <2>2. \A w \in Workers : w <= main.worker => Finished(w)'
    BY <1>1, <1>5, <2>1, WorkersFacts DEF wait, JoinInv
  <2>3. CASE main.worker < NumWorkers
    <3>1. main' = [main EXCEPT !.worker = main.worker + 1]
      BY <1>5, <2>3 DEF wait, MainNext
    <3>2. \A w \in Workers : w < main.worker + 1 => Finished(w)'
      BY <2>1, <2>2, WorkersFacts
    <3>3. QED
      BY <1>5, <2>1, <3>1, <3>2 DEF JoinInv, wait
  <2>4. CASE ~(main.worker < NumWorkers)
    <3>1. main' = [at |-> "stopping", worker |-> 1]
      BY <1>5, <2>4 DEF wait, MainNext
    <3>2. \A w \in Workers : Finished(w)'
      BY <2>1, <2>2, <2>4, WorkersFacts
    <3>3. QED
      BY <3>1, <3>2 DEF JoinInv
  <2>5. QED
    BY <2>3, <2>4
<1>6. CASE Exit
  BY <1>1, <1>6 DEF Exit, JoinInv, TypeOK
<1>7. ASSUME NEW v \in Workers, WorkerStep(v) \/ Fail(v)
      PROVE  JoinInv'
  <2>1. UNCHANGED main /\ pc[v] # "unborn" /\ \A w \in Workers \ {v} : pc'[w] = pc[w]
    BY <1>7 DEF WorkerStep, Fail, create_socket_and_bind, CreateEventLoop, EnterLoop,
                CheckRunning, Poll, Cleanup, CloseSocket, Goto, TypeOK
  <2>2. QED
    BY <1>1, <2>1 DEF JoinInv
<1>8. CASE MainStops \/ UNCHANGED vars
  BY <1>3, <1>8 DEF MainStops, vars
<1>9. ASSUME NEW s \in Stoppers, StopStep(s)
      PROVE  UNCHANGED <<main, pc>>
  BY <1>9 DEF StopStep, StopTest, StopClear, StopShutdown
<1>10. ASSUME NEW s \in Signals, signal_handler(s)
       PROVE  UNCHANGED <<main, pc>>
  BY <1>10 DEF signal_handler
<1>11. QED
  BY <1>3, <1>4, <1>5, <1>6, <1>7, <1>8, <1>9, <1>10 DEF Next, MainStep, Over

LEMMA ClosedNext ==
    ASSUME TypeOK, ClosedInv, [Next]_vars
    PROVE  ClosedInv'
<1> USE DEF ClosedInv, TypeOK
<1>1. CASE UNCHANGED <<pc, clients, socket>>
  BY <1>1
<1>2. CASE start
  BY <1>2 DEF start, Goto
<1>3. ASSUME NEW s \in Stoppers, StopShutdown(s)
      PROVE  ClosedInv'
  BY <1>3 DEF StopShutdown
<1>4. ASSUME NEW v \in Workers, WorkerStep(v) \/ Fail(v)
      PROVE  ClosedInv'
  <2> USE DEF Goto
  <2>1. CASE create_socket_and_bind(v)
    BY <2>1 DEF create_socket_and_bind
  <2>2. CASE CreateEventLoop(v) \/ EnterLoop(v) \/ CheckRunning(v) \/ Fail(v)
    BY <2>2 DEF CreateEventLoop, EnterLoop, CheckRunning, Fail
  <2>3. CASE Poll(v)
    BY <2>3 DEF Poll
  <2>4. CASE Cleanup(v)
    BY <2>4 DEF Cleanup
  <2>5. CASE CloseSocket(v)
    BY <2>5 DEF CloseSocket
  <2>6. QED
    BY <1>4, <2>1, <2>2, <2>3, <2>4, <2>5 DEF WorkerStep
<1>5. CASE wait \/ MainStops \/ Exit \/ UNCHANGED vars
  BY <1>1, <1>5 DEF wait, MainStops, Exit, vars
<1>6. ASSUME NEW s \in Stoppers, StopTest(s) \/ StopClear(s)
      PROVE  UNCHANGED <<pc, clients, socket>>
  BY <1>6 DEF StopTest, StopClear
<1>7. ASSUME NEW s \in Signals, signal_handler(s)
      PROVE  UNCHANGED <<pc, clients, socket>>
  BY <1>7 DEF signal_handler
<1>8. QED
  BY <1>1, <1>2, <1>3, <1>4, <1>5, <1>6, <1>7 DEF Next, MainStep, StopStep, Over

\* When main returns every worker's thread has ended, and each that did not fail
\* has closed its connections and its listening socket (main.cpp; server.cpp
\* wait; event_loop.cpp run; worker.cpp run).
THEOREM ExitLeavesNothingOpen == Spec => []ExitIsClean
<1>1. Init => JoinInv /\ ClosedInv
  BY WorkersFacts DEF Init, JoinInv, ClosedInv
<1>2. TypeOK /\ JoinInv /\ ClosedInv /\ [Next]_vars => JoinInv' /\ ClosedInv'
  BY JoinNext, ClosedNext
<1>3. JoinInv /\ ClosedInv => ExitIsClean
  BY DEF JoinInv, ClosedInv, ExitIsClean, Finished
<1>4. QED
  BY TypeCorrect, <1>1, <1>2, <1>3, PTL DEF Spec
=============================================================================
