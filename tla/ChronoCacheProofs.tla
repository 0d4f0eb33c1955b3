-------------------------- MODULE ChronoCacheProofs --------------------------
(***************************************************************************)
(* Theorems about ChronoCache for any number of threads, keys, calls and   *)
(* restarts, proved with TLAPS.  First the types and the numbers of the    *)
(* events; then what the events say, followed from the request a thread    *)
(* executes to the entry it writes, from there to the event, and back from *)
(* the event through the replay to the entry: the log and the cache agree. *)
(***************************************************************************)
EXTENDS ChronoCache, SequenceTheorems, TLAPS


USE DEF NoTTL

-----------------------------------------------------------------------------
(* Type correctness *)

LEMMA NoOpType == NoOp \in Operation
BY CacheAssumption DEF NoOp, Call, Operation, OpKinds

\* A deadline is a time, or no deadline.
LEMMA DeadlineType ==
    ASSUME now \in Nat, NEW ttl \in Nat \cup {NoTTL}
    PROVE  Deadline(ttl) \in Nat \cup {NoTTL}
BY DEF Deadline

\* A client's request is an operation, and not a replay's.
LEMMA RequestType ==
    ASSUME TypeOK, NEW t \in Threads, ClientCall(t)
    PROVE  \E o \in Operation : ~o.replay /\ op' = [op EXCEPT ![t] = o]
<1>1. PICK k \in Keys :
         \/ \E v \in Values, ttl \in TTLs \cup {NoTTL} :
                StartCall(t, Call("set", k, v, ttl, Deadline(ttl), FALSE))
         \/ \E ttl \in TTLs : StartCall(t, Call("expire", k, NoValue, ttl, NoTTL, FALSE))
         \/ \E kind \in {"get", "del", "persist", "pttl"} :
                StartCall(t, Call(kind, k, NoValue, NoTTL, NoTTL, FALSE))
  BY DEF ClientCall
<1>2. \A ttl \in TTLs \cup {NoTTL} :
         ttl \in Nat \cup {NoTTL} /\ Deadline(ttl) \in Nat \cup {NoTTL}
  BY CacheAssumption, DeadlineType DEF TypeOK
<1>3. CASE \E v \in Values, ttl \in TTLs \cup {NoTTL} :
             StartCall(t, Call("set", k, v, ttl, Deadline(ttl), FALSE))
  BY <1>2, <1>3 DEF StartCall, Call, Operation, OpKinds
<1>4. CASE \E ttl \in TTLs : StartCall(t, Call("expire", k, NoValue, ttl, NoTTL, FALSE))
  BY <1>2, <1>4 DEF StartCall, Call, Operation, OpKinds
<1>5. CASE \E kind \in {"get", "del", "persist", "pttl"} :
             StartCall(t, Call(kind, k, NoValue, NoTTL, NoTTL, FALSE))
  BY <1>5 DEF StartCall, Call, Operation, OpKinds
<1> QED
  BY <1>1, <1>3, <1>4, <1>5

\* The next event of a key is an event, and what is left is a sequence of them.
LEMMA NextEventType ==
    ASSUME TypeOK, NEW t \in InitThreads, NEW k \in Keys, AtEvent(t, k)
    PROVE  /\ NextEvent(t, k) \in Event
           /\ Tail(rem[t][k]) \in Seq(Event)
<1>1. rem[t][k] \in Seq(Event) /\ rem[t][k] # <<>>
  BY DEF TypeOK, AtEvent
<1> QED
  BY <1>1 DEF NextEvent

\* What the replay asks of the cache is an operation of the replay.
LEMMA ReplayCallType ==
    ASSUME now \in Nat, NEW t \in InitThreads, rnow[t] \in Nat, NEW k \in Keys,
           NEW e \in Event, ~ExpiredInDowntime(t, e)
    PROVE  ReplayCall(t, k, e) \in Operation /\ ReplayCall(t, k, e).replay
<1> DEFINE ttl == IF HasDeadline(e) THEN EventDeadline(e) - rnow[t] ELSE NoTTL
<1>1. ttl \in Nat \cup {NoTTL}
  BY DEF ExpiredInDowntime, EventDeadline, Event
<1>2. Deadline(ttl) \in Nat \cup {NoTTL}
  BY <1>1 DEF Deadline
<1>3. e.value \in Values \cup {NoValue}
  BY DEF Event
<1> HIDE DEF ttl
<1> QED
  BY <1>1, <1>2, <1>3 DEF ReplayCall, Call, Operation, OpKinds, ttl

\* The event of a logged change is an event.
LEMMA NewEventType ==
    ASSUME TypeOK, NEW t \in Threads
    PROVE  NewEvent(t) \in Event
<1>1. op[t] \in Operation /\ map[op[t].key] \in Entry /\ counter[t] \in Nat /\ now \in Nat
  BY DEF TypeOK, Operation
<1>2. EventType(op[t].kind) \in EventTypes
  BY DEF EventType, EventTypes
<1> QED
  BY <1>1, <1>2 DEF NewEvent, Event, Operation, Entry

\* Compaction and delivery leave a sequence of events.
LEMMA CompactType ==
    ASSUME NEW S, NEW s \in Seq(S), NEW i \in 1 .. Len(s) - 1
    PROVE  [j \in 1 .. Len(s) - 1 |-> IF j < i THEN s[j] ELSE s[j + 1]] \in Seq(S)
<1>1. Len(s) - 1 \in Nat
  OBVIOUS
<1>2. \A j \in 1 .. Len(s) - 1 : (IF j < i THEN s[j] ELSE s[j + 1]) \in S
  OBVIOUS
<1> QED
  BY <1>1, <1>2, IsASeq

LEMMA TypeInit == Init => TypeOK
<1> SUFFICES ASSUME Init PROVE TypeOK
  OBVIOUS
<1>1. Absent \in Entry
  BY DEF Absent, Entry
<1> QED
  <2>1. /\ state \in States /\ map \in [Keys -> Entry] /\ logger \in BOOLEAN
        /\ lock \in [Keys -> Threads \cup {NoThread}] /\ seq \in [Keys -> Nat]
    BY <1>1 DEF Init, States
  <2>2. queue \in [Keys -> SUBSET Event] /\ topic \in [Keys -> Seq(Event)]
    BY DEF Init
  <2>3. /\ pc \in [Threads -> {"idle"} \cup CallPcs \cup InitPcs]
        /\ op \in [Threads -> Operation] /\ counter \in [Threads -> Nat]
    BY NoOpType DEF Init
  <2>4. /\ rem \in [InitThreads -> [Keys -> Seq(Event)]] /\ last \in [InitThreads -> [Keys -> Nat]]
        /\ rnow \in [InitThreads -> Nat] /\ with_replay \in [InitThreads -> BOOLEAN]
    BY DEF Init
  <2> QED
    BY <2>1, <2>2, <2>3, <2>4 DEF Init, TypeOK

LEMMA TypeOperation ==
    ASSUME TypeOK, NEW t \in Threads, OperationStep(t)
    PROVE  TypeOK'
<1> USE DEF TypeOK, cacheVars, kafkaVars, replayVars, boundVars
<1>k. op[t] \in Operation /\ op[t].key \in Keys /\ map[op[t].key] \in Entry
  BY DEF Operation
<1>a. Absent \in Entry
  BY DEF Absent, Entry
<1>r. ASSUME Return(t)
      PROVE  pc' \in [Threads -> {"idle"} \cup CallPcs \cup InitPcs] /\ op' \in [Threads -> Operation]
  BY <1>r, NoOpType DEF Return, InitPcs
<1>w. ASSUME NEW e \in Entry, WriteAndLog(t, e)
      PROVE  /\ map' \in [Keys -> Entry] /\ lock' \in [Keys -> Threads \cup {NoThread}]
             /\ pc' \in [Threads -> {"idle"} \cup CallPcs \cup InitPcs] /\ op' \in [Threads -> Operation]
  BY <1>w, <1>k DEF WriteAndLog, CallPcs
<1>d. ASSUME RemoveDead(t)
      PROVE  /\ map' \in [Keys -> Entry] /\ lock' \in [Keys -> Threads \cup {NoThread}]
             /\ pc' \in [Threads -> {"idle"} \cup CallPcs \cup InitPcs] /\ op' \in [Threads -> Operation]
  BY <1>d, <1>a, <1>k, <1>r DEF RemoveDead
<1>1. CASE set(t)
  <2>1. [value |-> op[t].value, expires_at |-> op[t].expires_at] \in Entry
    BY <1>k DEF Operation, Entry
  <2> QED
    BY <1>1, <1>w, <2>1 DEF set, NothingElse
<1>2. CASE get(t) \/ pttl(t)
  BY <1>2, <1>d, <1>r DEF get, pttl, Read, NothingElse
<1>3. CASE del(t)
  BY <1>3, <1>a, <1>w, <1>r DEF del, NothingElse
<1>4. CASE expire(t)
  <2>1. [map[op[t].key] EXCEPT !.expires_at = Deadline(op[t].ttl_ms)] \in Entry
    BY <1>k, DeadlineType DEF Operation, Entry
  <2> QED
    BY <1>4, <1>d, <1>w, <2>1 DEF expire, NothingElse
<1>5. CASE persist(t)
  <2>1. [map[op[t].key] EXCEPT !.expires_at = NoTTL] \in Entry
    BY <1>k DEF Entry
  <2> QED
    BY <1>5, <1>d, <1>r, <1>w, <2>1 DEF persist, NothingElse
<1>u. Unlock(t) => lock' \in [Keys -> Threads \cup {NoThread}]
  BY <1>k DEF Unlock
<1>6. CASE LogRefused(t)
  <2>1. CASE LogSkipped(t)
    BY <1>6, <2>1, <1>r, <1>k, <1>u DEF LogRefused, LogSkipped
  <2>2. CASE LogThrows(t)
    BY <1>6, <2>2, <1>k, <1>u, NoOpType DEF LogRefused, LogThrows, States
  <2> QED
    BY <1>6, <2>1, <2>2 DEF LogRefused
<1>7. CASE next_seq(t)
  <2>1. counter' \in [Threads -> Nat] /\ pc' \in [Threads -> {"idle"} \cup CallPcs \cup InitPcs]
    BY <1>7, <1>k DEF next_seq, CallPcs
  <2> QED
    BY <1>7, <2>1 DEF next_seq
<1>8. CASE produce_cache_event(t)
  <2>1. seq' \in [Keys -> Nat] /\ counter' \in [Threads -> Nat]
    BY <1>8, <1>k DEF produce_cache_event
  <2>2. queue' \in [Keys -> SUBSET Event]
    <3>1. queue[op[t].key] \cup {NewEvent(t)} \in SUBSET Event
      BY <1>k, NewEventType
    <3> QED
      BY <1>8, <3>1 DEF produce_cache_event
  <2> QED
    BY <1>8, <2>1, <2>2, <1>r, <1>u DEF produce_cache_event
<1> QED
  BY <1>1, <1>2, <1>3, <1>4, <1>5, <1>6, <1>7, <1>8 DEF OperationStep

LEMMA TypeInitStep ==
    ASSUME TypeOK, NEW t \in InitThreads, InitCall(t) \/ InitStep(t)
    PROVE  TypeOK'
<1> USE DEF TypeOK, cacheVars, kafkaVars, replayVars, boundVars, Goto, InitPcs
<1>t. t \in Threads
  BY CacheAssumption
<1>1. CASE InitCall(t)
  <2>1. with_replay' \in [InitThreads -> BOOLEAN]
    BY <1>1, CacheAssumption, Zenon DEF InitCall
  <2> QED
    BY <1>1, <2>1 DEF InitCall
<1>2. CASE InitEmplace(t)
  BY <1>2 DEF InitEmplace
<1>3. CASE InitConstruct(t)
  BY <1>3 DEF InitConstruct
<1>4. CASE InitEnter(t)
  BY <1>4 DEF InitEnter, States
<1>5. CASE Consume(t)
  BY <1>5 DEF Consume
<1>6. CASE ConsumeTimeout(t)
  BY <1>6 DEF ConsumeTimeout, ReplayFails, States
<1>p. ASSUME NEW k \in Keys, AtEvent(t, k)
      PROVE  /\ Pop(t, k) => rem' \in [InitThreads -> [Keys -> Seq(Event)]]
             /\ Applied(t, k) => last' \in [InitThreads -> [Keys -> Nat]]
  <2>1. NextEvent(t, k).seq \in Nat /\ Tail(rem[t][k]) \in Seq(Event)
    BY <1>p, NextEventType DEF Event
  <2>2. rem[t] \in [Keys -> Seq(Event)] /\ last[t] \in [Keys -> Nat]
    OBVIOUS
  <2>3. ASSUME Pop(t, k) PROVE rem' \in [InitThreads -> [Keys -> Seq(Event)]]
    <3>1. [rem[t] EXCEPT ![k] = Tail(@)] \in [Keys -> Seq(Event)]
      BY <2>1, <2>2
    <3> QED
      BY <2>3, <3>1, Zenon DEF Pop
  <2>4. ASSUME Applied(t, k) PROVE last' \in [InitThreads -> [Keys -> Nat]]
    BY <2>1, <2>2, <2>4 DEF Applied
  <2> QED
    BY <2>3, <2>4
<1>7. CASE \E k \in Keys : ReplaySkip(t, k)
  BY <1>7, <1>p DEF ReplaySkip
<1>8. CASE \E k \in Keys : ReplayExpired(t, k)
  BY <1>8, <1>p DEF ReplayExpired
<1>9. ASSUME NEW k \in Keys, ReplayApply(t, k) PROVE TypeOK'
  <2>1. ReplayCall(t, k, NextEvent(t, k)) \in Operation
    BY <1>9, NextEventType, ReplayCallType DEF ReplayApply
  <2>2. /\ rem' \in [InitThreads -> [Keys -> Seq(Event)]]
        /\ last' \in [InitThreads -> [Keys -> Nat]]
    BY <1>9, <1>p DEF ReplayApply
  <2> QED
    BY <1>9, <2>1, <2>2 DEF ReplayApply, StartCall, ReplayFails, States, CallPcs
<1>10. CASE ReplayDone(t)
  BY <1>10 DEF ReplayDone, set_seq_counters, States
<1>11. CASE InitReady(t)
  BY <1>11 DEF InitReady, States
<1> QED
  BY <1>1, <1>2, <1>3, <1>4, <1>5, <1>6, <1>7, <1>8, <1>9, <1>10, <1>11 DEF InitStep, ReplayStep

LEMMA TypeKafka ==
    ASSUME TypeOK, KafkaStep
    PROVE  TypeOK'
<1> USE DEF TypeOK, cacheVars, kafkaVars, replayVars, boundVars
<1>1. PICK k \in Keys :
         \/ \E e \in queue[k] : Deliver(k, e) \/ Redeliver(k, e) \/ DeliveryFails(k, e)
         \/ \E i \in 1 .. Len(topic[k]) - 1 : Compact(k, i)
  BY DEF KafkaStep
<1>2. topic[k] \in Seq(Event) /\ queue[k] \subseteq Event
  OBVIOUS
<1>3. ASSUME NEW e \in queue[k], Deliver(k, e) \/ Redeliver(k, e) \/ DeliveryFails(k, e)
      PROVE  TypeOK'
  <2>1. Append(topic[k], e) \in Seq(Event) /\ queue[k] \ {e} \in SUBSET Event
    BY <1>2
  <2> QED
    BY <1>3, <2>1 DEF Deliver, Redeliver, DeliveryFails
<1>4. ASSUME NEW i \in 1 .. Len(topic[k]) - 1, Compact(k, i)
      PROVE  TypeOK'
  <2> DEFINE s == [j \in 1 .. Len(topic[k]) - 1 |-> IF j < i THEN topic[k][j] ELSE topic[k][j + 1]]
  <2>1. s \in Seq(Event)
    BY <1>2, CompactType
  <2>2. topic' = [topic EXCEPT ![k] = s]
    BY <1>4 DEF Compact
  <2> HIDE DEF s
  <2> QED
    BY <1>4, <2>1, <2>2 DEF Compact
<1> QED
  BY <1>1, <1>3, <1>4

LEMMA TypeNext == TypeOK /\ [Next]_vars => TypeOK'
<1> SUFFICES ASSUME TypeOK, [Next]_vars PROVE TypeOK'
  OBVIOUS
<1> USE DEF TypeOK, cacheVars, kafkaVars, replayVars, boundVars
<1>1. ASSUME NEW t \in Threads, ClientCall(t) PROVE TypeOK'
  <2>1. op' \in [Threads -> Operation]
    BY <1>1, RequestType
  <2>2. pc' \in [Threads -> {"idle"} \cup CallPcs \cup InitPcs] /\ calls' \in Nat
    BY <1>1 DEF ClientCall, CallPcs
  <2> QED
    BY <1>1, <2>1, <2>2 DEF ClientCall
<1>2. CASE Tick
  BY <1>2 DEF Tick
<1>3. CASE Crash
  <2>2. Absent \in Entry
    BY DEF Absent, Entry
  <2>3. /\ map' \in [Keys -> Entry] /\ lock' \in [Keys -> Threads \cup {NoThread}]
        /\ seq' \in [Keys -> Nat] /\ queue' \in [Keys -> SUBSET Event]
    BY <1>3, <2>2 DEF Crash
  <2>4. /\ pc' \in [Threads -> {"idle"} \cup CallPcs \cup InitPcs]
        /\ op' \in [Threads -> Operation] /\ counter' \in [Threads -> Nat]
    BY <1>3, NoOpType DEF Crash
  <2>5. /\ rem' \in [InitThreads -> [Keys -> Seq(Event)]] /\ last' \in [InitThreads -> [Keys -> Nat]]
        /\ rnow' \in [InitThreads -> Nat] /\ with_replay' \in [InitThreads -> BOOLEAN]
    BY <1>3 DEF Crash
  <2>6. /\ state' \in States /\ unlogged' \in SUBSET Keys /\ crashes' \in Nat
        /\ topic' = topic /\ now' = now /\ calls' = calls
    BY <1>3 DEF Crash, States
  <2>7. logger' \in BOOLEAN
    BY <1>3, Zenon DEF Crash
  <2> QED
    BY <2>3, <2>4, <2>5, <2>6, <2>7
<1>4. CASE UNCHANGED vars
  BY <1>4 DEF vars
<1> QED
  BY <1>1, <1>2, <1>3, <1>4, TypeOperation, TypeInitStep, TypeKafka DEF Next, Quiet

\* Every state the cache can reach is well typed: replay computes no negative
\* TTL and asks only for operations the cache has (ChronoCache::replay).
THEOREM TypeCorrect == Spec => []TypeOK
BY TypeInit, TypeNext, PTL DEF Spec

-----------------------------------------------------------------------------
(* Sequence numbers.  The proof needs less of an operation than it does: how *)
(* it moves the thread and the lock.                                         *)

\* The locked part of an operation goes on to the logging callback.
LockStep(t) ==
    /\ pc[t] = "call"
    /\ lock[op[t].key] = NoThread
    /\ lock' = [lock EXCEPT ![op[t].key] = t]
    /\ pc' = [pc EXCEPT ![t] = "log"]
    /\ UNCHANGED <<op, state, seq, queue, counter>>

\* The locked part of an operation has nothing to log.
DoneStep(t) ==
    /\ pc[t] = "call"
    /\ Return(t)
    /\ UNCHANGED <<lock, state, seq, queue, counter>>

LEMMA OperationSkeleton ==
    ASSUME NEW t \in Threads, OperationStep(t)
    PROVE  /\ UNCHANGED <<logger, topic, with_replay, rem, last, rnow>>
           /\ \/ LockStep(t) \/ DoneStep(t)
              \/ LogRefused(t) \/ next_seq(t) \/ produce_cache_event(t)
<1> USE DEF NothingElse, kafkaVars, replayVars, cacheVars, CanLock, LockStep, DoneStep, WriteAndLog, RemoveDead
<1>1. CASE set(t)
  BY <1>1 DEF set
<1>2. CASE get(t) \/ pttl(t)
  BY <1>2 DEF get, pttl, Read
<1>3. CASE del(t)
  BY <1>3 DEF del
<1>4. CASE expire(t)
  BY <1>4 DEF expire
<1>5. CASE persist(t)
  BY <1>5 DEF persist
<1>6. CASE LogRefused(t)
  BY <1>6 DEF LogRefused
<1>7. CASE next_seq(t)
  BY <1>7 DEF next_seq
<1>8. CASE produce_cache_event(t)
  BY <1>8 DEF produce_cache_event
<1> QED
  BY <1>1, <1>2, <1>3, <1>4, <1>5, <1>6, <1>7, <1>8 DEF OperationStep

\* What PhaseInv says of one thread, for the proof thread by thread.
ThreadPhase(u) ==
    /\ pc[u] \in InitPcs \/ op[u].replay => u \in InitThreads
    /\ op[u].replay => pc[u] \in {"call", "log"}
    /\ u \in InitThreads =>
         /\ pc[u] \in {"emplace", "construct", "enter"} => state = "UNINITIALIZED" /\ with_replay[u]
         /\ pc[u] = "enter" => logger
         /\ pc[u] = "consume" \/ Replaying(u) => state = "REPLAYING"
         /\ pc[u] = "ready" => state = "REPLAY_SUCCESS"
LoggerPhase == state \in {"REPLAYING", "REPLAY_SUCCESS", "READY"} => logger

LEMMA PhaseByThread ==
    /\ PhaseInv <=> (\A u \in Threads : ThreadPhase(u)) /\ LoggerPhase
    /\ PhaseInv' <=> (\A u \in Threads : ThreadPhase(u)') /\ LoggerPhase'
BY CacheAssumption DEF PhaseInv, ThreadPhase, LoggerPhase

LEMMA NoOpReplay == ~NoOp.replay
BY DEF NoOp, Call

\* A thread that a step does not touch keeps its phase while the lifecycle
\* state and the logger are the same.
LEMMA PhaseFrame ==
    ASSUME NEW u \in Threads, ThreadPhase(u), pc'[u] = pc[u], op'[u] = op[u],
           u \in InitThreads => with_replay'[u] = with_replay[u],
           state' = state, logger' = logger
    PROVE  ThreadPhase(u)'
BY DEF ThreadPhase, Replaying

\* Operations: the lifecycle state stays as it is.
LEMMA PhaseOperation ==
    ASSUME SafeConfig, TypeOK, PhaseInv, NEW t \in Threads, OperationStep(t)
    PROVE  PhaseInv' /\ state' = state
<1>t. op[t] \in Operation /\ pc \in [Threads -> {"idle"} \cup CallPcs \cup InitPcs]
      /\ op \in [Threads -> Operation]
  BY DEF TypeOK
<1>p. ThreadPhase(t) /\ LoggerPhase
  BY PhaseByThread
<1>f. logger' = logger /\ with_replay' = with_replay
  BY OperationSkeleton
<1>s. state' = state
  BY OperationSkeleton, <1>p
  DEF LockStep, DoneStep, LogRefused, LogSkipped, LogThrows, LoggingOn, LoggerPhase,
      next_seq, produce_cache_event, cacheVars
<1>o. \A u \in Threads \ {t} : pc'[u] = pc[u] /\ op'[u] = op[u]
  BY OperationSkeleton, <1>t
  DEF LockStep, DoneStep, Return, LogRefused, LogSkipped, LogThrows, next_seq, produce_cache_event
<1>r. ASSUME Return(t), pc[t] \in {"call", "log"} \/ ~op[t].replay
      PROVE  ThreadPhase(t)'
  <2>1. op'[t] = NoOp /\ pc'[t] = IF op[t].replay THEN "replay" ELSE "idle"
    BY <1>r, <1>t DEF Return
  <2> QED
    BY <1>r, <1>s, <1>p, <1>f, <2>1, NoOpReplay DEF ThreadPhase, Replaying, InitPcs, CallPcs
<1>1. ThreadPhase(t)'
  <2>1. CASE LockStep(t)
    <3>1. pc'[t] = "log" /\ op'[t] = op[t]
      BY <2>1, <1>t DEF LockStep
    <3> QED
      BY <2>1, <3>1, <1>s, <1>p, <1>f DEF LockStep, ThreadPhase, Replaying, InitPcs, CallPcs
  <2>2. CASE DoneStep(t)
    BY <2>2, <1>r DEF DoneStep
  <2>3. CASE LogRefused(t)
    <3>1. LogSkipped(t)
      BY <2>3, <1>p DEF LogRefused, LogThrows, LoggingOn, LoggerPhase
    <3> QED
      BY <2>3, <3>1, <1>r DEF LogRefused, LogSkipped
  <2>4. CASE next_seq(t)
    <3>1. pc'[t] = "incr" /\ op'[t] = op[t] /\ state = "READY" /\ pc[t] = "log"
      BY <2>4, <1>t DEF next_seq, LoggingOn
    <3> QED
      BY <3>1, <1>s, <1>p, <1>f DEF ThreadPhase, Replaying, InitPcs, CallPcs
  <2>5. CASE produce_cache_event(t)
    <3>1. pc[t] = "incr" /\ Return(t)
      BY <2>5 DEF produce_cache_event
    <3> QED
      BY <3>1, <1>r, <1>p DEF ThreadPhase
  <2> QED
    BY <2>1, <2>2, <2>3, <2>4, <2>5, OperationSkeleton
<1>2. \A u \in Threads : ThreadPhase(u)'
  BY <1>1, <1>f, <1>s, <1>o, PhaseFrame, PhaseByThread
<1> QED
  BY <1>2, <1>s, <1>p, <1>f, PhaseByThread DEF LoggerPhase

\* INIT: the one thread that runs it moves the state and itself together.
LEMMA PhaseInitStep ==
    ASSUME SafeConfig, TypeOK, PhaseInv, NEW t \in InitThreads, InitCall(t) \/ InitStep(t)
    PROVE  PhaseInv'
<1> USE DEF cacheVars, kafkaVars, replayVars, boundVars, Goto, InitPcs, CallPcs
<1>t. /\ t \in Threads /\ (\A u \in InitThreads : u = t)
      /\ pc \in [Threads -> {"idle"} \cup CallPcs \cup InitPcs]
      /\ op \in [Threads -> Operation]
      /\ with_replay \in [InitThreads -> BOOLEAN]
  BY CacheAssumption DEF SafeConfig, TypeOK
<1>p. (\A u \in Threads : ThreadPhase(u)) /\ LoggerPhase
  BY PhaseByThread
<1>o. ASSUME \A u \in Threads \ {t} : pc'[u] = pc[u] /\ op'[u] = op[u],
             ThreadPhase(t)', LoggerPhase'
      PROVE  PhaseInv'
  <2>1. ASSUME NEW u \in Threads \ {t} PROVE ThreadPhase(u)'
    BY <1>o, <1>t, <1>p DEF ThreadPhase
  <2> QED
    BY <1>o, <2>1, PhaseByThread
<1> USE DEF ThreadPhase, LoggerPhase, Replaying
<1>1. CASE InitCall(t)
  <2>1. CASE state # "UNINITIALIZED"
    BY <1>1, <2>1, <1>t, <1>p, <1>o DEF InitCall
  <2>2. CASE state = "UNINITIALIZED"
    <3>1. with_replay'[t]
      BY <1>1, <1>t, <2>2 DEF InitCall, SafeConfig
    <3>2. pc'[t] = "emplace" /\ op'[t] = op[t] /\ pc[t] = "idle"
      BY <1>1, <1>t, <2>2 DEF InitCall
    <3> QED
      BY <1>1, <2>2, <3>1, <3>2, <1>t, <1>p, <1>o DEF InitCall
  <2> QED
    BY <2>1, <2>2
<1>2. CASE InitEmplace(t)
  BY <1>2, <1>t, <1>p, <1>o DEF InitEmplace, SafeConfig
<1>3. CASE InitConstruct(t)
  BY <1>3, <1>t, <1>p, <1>o DEF InitConstruct
<1>4. CASE InitEnter(t)
  BY <1>4, <1>t, <1>p, <1>o DEF InitEnter
<1>5. CASE Consume(t)
  BY <1>5, <1>t, <1>p, <1>o DEF Consume
<1>6. CASE ConsumeTimeout(t)
  BY <1>6, <1>t, <1>p, <1>o DEF ConsumeTimeout, ReplayFails
<1>7. ASSUME NEW k \in Keys, ReplaySkip(t, k) \/ ReplayExpired(t, k)
      PROVE  PhaseInv'
  BY <1>7, <1>t, <1>p, <1>o DEF ReplaySkip, ReplayExpired
<1>8. ASSUME NEW k \in Keys, ReplayApply(t, k)
      PROVE  PhaseInv'
  <2>1. is_accepting_ops /\ pc[t] = "replay"
    BY <1>8, <1>t, <1>p DEF ReplayApply, AtEvent, is_accepting_ops
  <2>2. /\ pc'[t] = "call" /\ op'[t] = ReplayCall(t, k, NextEvent(t, k))
        /\ \A u \in Threads \ {t} : pc'[u] = pc[u] /\ op'[u] = op[u]
        /\ state' = state /\ logger' = logger
    BY <1>8, <2>1, <1>t DEF ReplayApply, StartCall
  <2> QED
    BY <2>1, <2>2, <1>t, <1>p, <1>o
<1>9. CASE ReplayDone(t)
  BY <1>9, <1>t, <1>p, <1>o DEF ReplayDone
<1>10. CASE InitReady(t)
  BY <1>10, <1>t, <1>p, <1>o DEF InitReady
<1> QED
  BY <1>1, <1>2, <1>3, <1>4, <1>5, <1>6, <1>7, <1>8, <1>9, <1>10 DEF InitStep, ReplayStep

LEMMA PhaseNext ==
    ASSUME SafeConfig, TypeOK, PhaseInv, [Next]_vars
    PROVE  PhaseInv'
<1>1. ASSUME NEW t \in Threads, ClientCall(t) PROVE PhaseInv'
  <2>1. PICK o \in Operation : ~o.replay /\ op' = [op EXCEPT ![t] = o]
    BY <1>1, RequestType
  <2>2. op'[t] = o /\ pc[t] = "idle" /\ pc'[t] = "call"
    BY <1>1, <2>1 DEF ClientCall, TypeOK
  <2>3. \A u \in Threads \ {t} : pc'[u] = pc[u] /\ op'[u] = op[u]
    BY <1>1, <2>1 DEF ClientCall, TypeOK
  <2>4. state' = state /\ logger' = logger /\ with_replay' = with_replay
    BY <1>1 DEF ClientCall, cacheVars, replayVars
  <2>5. ThreadPhase(t)'
    BY <2>1, <2>2 DEF ThreadPhase, Replaying, InitPcs, CallPcs
  <2>6. \A u \in Threads : ThreadPhase(u)'
    BY <2>3, <2>4, <2>5, PhaseByThread, PhaseFrame
  <2> QED
    BY <2>4, <2>6, PhaseByThread DEF LoggerPhase
<1>2. CASE Crash
  <2>1. \A u \in Threads : pc'[u] = "idle" /\ op'[u] = NoOp
    BY <1>2 DEF Crash
  <2>2. \A u \in Threads : ThreadPhase(u)'
    BY <2>1, NoOpReplay DEF ThreadPhase, Replaying, InitPcs, CallPcs
  <2> QED
    BY <1>2, <2>2, PhaseByThread DEF LoggerPhase, Crash
<1>3. CASE KafkaStep \/ Tick \/ UNCHANGED vars
  <2>1. UNCHANGED <<pc, op, state, logger, with_replay>>
    BY <1>3 DEF KafkaStep, Deliver, Redeliver, DeliveryFails, Compact, Tick, vars, cacheVars, replayVars
  <2> QED
    BY <2>1 DEF PhaseInv, Replaying
<1> QED
  BY <1>1, <1>2, <1>3, PhaseOperation, PhaseInitStep DEF Next, Quiet

\* The lock of a key protects its counter from the read to the increment.
LEMMA LockNext ==
    ASSUME SafeConfig, TypeOK, PhaseInv, LockInv, [Next]_vars
    PROVE  LockInv'
<1> USE DEF LockInv, cacheVars, kafkaVars, replayVars, boundVars, Goto, InitPcs, CallPcs
<1>t. /\ pc \in [Threads -> {"idle"} \cup CallPcs \cup InitPcs] /\ op \in [Threads -> Operation]
      /\ lock \in [Keys -> Threads \cup {NoThread}] /\ seq \in [Keys -> Nat]
      /\ counter \in [Threads -> Nat] /\ \A u \in Threads : op[u].key \in Keys
  BY DEF TypeOK, Operation
<1>1. ASSUME NEW t \in Threads, ClientCall(t) PROVE LockInv'
  <2>1. PICK o \in Operation : op' = [op EXCEPT ![t] = o]
    BY <1>1, RequestType
  <2> QED
    BY <1>1, <2>1, <1>t DEF ClientCall
<1>2. ASSUME NEW t \in Threads, OperationStep(t) PROVE LockInv'
  <2>s. state' = state
    BY <1>2, PhaseOperation
  <2>1. CASE LockStep(t)
    BY <2>1, <1>t, CacheAssumption DEF LockStep
  <2>2. CASE DoneStep(t)
    BY <2>2, <1>t DEF DoneStep, Return
  <2>3. CASE LogRefused(t)
    <3>1. /\ pc[t] = "log" /\ pc'[t] \in {"idle", "replay"}
          /\ \A u \in Threads \ {t} : pc'[u] = pc[u] /\ op'[u] = op[u]
      BY <2>3, <1>t DEF LogRefused, LogSkipped, LogThrows, Return
    <3> QED
      BY <2>3, <2>s, <3>1, <1>t DEF LogRefused, Unlock
  <2>4. CASE next_seq(t)
    BY <2>4, <2>s, <1>t DEF next_seq, LoggingOn
  <2>5. CASE produce_cache_event(t)
    <3>1. /\ pc[t] = "incr" /\ pc'[t] \in {"idle", "replay"}
          /\ \A u \in Threads \ {t} : pc'[u] = pc[u] /\ op'[u] = op[u] /\ counter'[u] = counter[u]
      BY <2>5, <1>t DEF produce_cache_event, Return
    <3>2. \A k \in Keys \ {op[t].key} : seq'[k] = seq[k] /\ lock'[k] = lock[k]
      BY <2>5, <1>t DEF produce_cache_event, Unlock
    <3> QED
      BY <2>s, <3>1, <3>2, <1>t
  <2> QED
    BY <1>2, <2>1, <2>2, <2>3, <2>4, <2>5, OperationSkeleton
<1>3. ASSUME NEW t \in InitThreads, InitCall(t) \/ InitStep(t) PROVE LockInv'
  <2>1. t \in Threads /\ lock' = lock /\ counter' = counter /\ pc[t] \notin {"log", "incr"}
    BY <1>3, CacheAssumption
    DEF InitCall, InitStep, InitEmplace, InitConstruct, InitEnter, ReplayStep, Consume, ConsumeTimeout,
        ReplaySkip, ReplayExpired, ReplayApply, ReplayDone, InitReady, AtEvent
  <2>2. pc'[t] \notin {"log", "incr"} /\ \A u \in Threads \ {t} : pc'[u] = pc[u] /\ op'[u] = op[u]
    BY <1>3, <1>t, <2>1
    DEF InitCall, InitStep, InitEmplace, InitConstruct, InitEnter, ReplayStep, Consume, ConsumeTimeout,
        ReplaySkip, ReplayExpired, ReplayApply, ReplayDone, InitReady, ReplayFails, StartCall
  <2>3. (state = "READY" => state' = "READY") /\ (seq' = seq \/ state # "READY")
    BY <1>3
    DEF InitCall, InitStep, InitEmplace, InitConstruct, InitEnter, ReplayStep, Consume, ConsumeTimeout,
        ReplaySkip, ReplayExpired, ReplayApply, ReplayDone, InitReady, AtEvent, PhaseInv, Replaying
  <2> QED
    BY <2>1, <2>2, <2>3
<1>4. CASE Crash
  BY <1>4 DEF Crash
<1>5. CASE KafkaStep \/ Tick \/ UNCHANGED vars
  <2>1. UNCHANGED <<pc, op, state, lock, counter, seq>>
    BY <1>5 DEF KafkaStep, Deliver, Redeliver, DeliveryFails, Compact, Tick, vars
  <2> QED
    BY <2>1
<1> QED
  BY <1>1, <1>2, <1>3, <1>4, <1>5 DEF Next, Quiet

\* INIT leaves the queue of a cache that is not READY empty.
LEMMA QueueNext ==
    ASSUME SafeConfig, TypeOK, PhaseInv, LockInv, QueueInv, [Next]_vars
    PROVE  QueueInv'
<1> USE DEF QueueInv, cacheVars, kafkaVars
<1>1. ASSUME NEW t \in Threads, ClientCall(t) PROVE QueueInv'
  BY <1>1 DEF ClientCall
<1>2. ASSUME NEW t \in Threads, OperationStep(t) PROVE QueueInv'
  <2>1. state' = state
    BY <1>2, PhaseOperation
  <2>2. queue' = queue \/ state = "READY"
    BY <1>2, OperationSkeleton
    DEF LockStep, DoneStep, LogRefused, next_seq, produce_cache_event, LockInv
  <2> QED
    BY <2>1, <2>2
<1>3. ASSUME NEW t \in InitThreads, InitCall(t) \/ InitStep(t) PROVE QueueInv'
  <2>1. state' = "READY" \/ state # "READY"
    BY <1>3
    DEF InitCall, InitStep, InitEmplace, InitConstruct, InitEnter, ReplayStep, Consume, ConsumeTimeout,
        ReplaySkip, ReplayExpired, ReplayApply, ReplayDone, InitReady, AtEvent, PhaseInv, Replaying
  <2>2. queue' = queue \/ queue' = [k \in Keys |-> {}]
    BY <1>3
    DEF InitCall, InitStep, InitEmplace, InitConstruct, InitEnter, ReplayStep, Consume, ConsumeTimeout,
        ReplaySkip, ReplayExpired, ReplayApply, ReplayDone, InitReady
  <2> QED
    BY <2>1, <2>2
<1>4. CASE Crash
  BY <1>4 DEF Crash
<1>5. CASE KafkaStep
  <2>1. state' = state /\ \A k \in Keys : queue'[k] \subseteq queue[k]
    BY <1>5 DEF KafkaStep, Deliver, Redeliver, DeliveryFails, Compact, TypeOK
  <2> QED
    BY <2>1
<1>6. CASE Tick \/ UNCHANGED vars
  BY <1>6 DEF Tick, vars
<1> QED
  BY <1>1, <1>2, <1>3, <1>4, <1>5, <1>6 DEF Next, Quiet

\* Kafka adds to a topic only while the cache is READY, and what compaction
\* leaves was there before.
LEMMA TopicStep ==
    ASSUME TypeOK, QueueInv, KafkaStep, NEW k \in Keys
    PROVE  /\ \A i \in 1 .. Len(topic'[k]) :
                 \/ \E j \in 1 .. Len(topic[k]) : topic'[k][i] = topic[k][j]
                 \/ topic'[k][i] \in queue[k]
           /\ queue'[k] \subseteq queue[k]
<1>t. topic \in [Keys -> Seq(Event)] /\ queue \in [Keys -> SUBSET Event]
  BY DEF TypeOK
<1>1. PICK l \in Keys :
         \/ \E e \in queue[l] : Deliver(l, e) \/ Redeliver(l, e) \/ DeliveryFails(l, e)
         \/ \E i \in 1 .. Len(topic[l]) - 1 : Compact(l, i)
  BY DEF KafkaStep
<1>2. ASSUME NEW e \in queue[l], Deliver(l, e) \/ Redeliver(l, e)
      PROVE  /\ topic' = [topic EXCEPT ![l] = Append(@, e)]
             /\ queue'[k] \subseteq queue[k]
  BY <1>2, <1>t DEF Deliver, Redeliver
<1>3. ASSUME NEW e \in queue[l], topic' = [topic EXCEPT ![l] = Append(@, e)],
             NEW i \in 1 .. Len(topic'[k])
      PROVE  \/ \E j \in 1 .. Len(topic[k]) : topic'[k][i] = topic[k][j]
             \/ topic'[k][i] \in queue[k]
  <2>1. topic[k] \in Seq(Event) /\ topic[l] \in Seq(Event) /\ e \in Event
    BY <1>t
  <2>2. CASE k # l
    BY <1>3, <1>t, <2>2
  <2>3. CASE k = l
    <3>1. topic'[k] = Append(topic[k], e)
      BY <1>3, <1>t, <2>3
    <3> QED
      BY <1>3, <2>1, <2>3, <3>1
  <2> QED
    BY <2>2, <2>3
<1>4. CASE \E e \in queue[l] : Deliver(l, e) \/ Redeliver(l, e)
  BY <1>2, <1>3, <1>4
<1>5. CASE \E e \in queue[l] : DeliveryFails(l, e)
  BY <1>5, <1>t DEF DeliveryFails
<1>6. ASSUME NEW n \in 1 .. Len(topic[l]) - 1, Compact(l, n)
      PROVE  /\ \A i \in 1 .. Len(topic'[k]) :
                   \E j \in 1 .. Len(topic[k]) : topic'[k][i] = topic[k][j]
             /\ queue' = queue
  <2> DEFINE s == [j \in 1 .. Len(topic[l]) - 1 |-> IF j < n THEN topic[l][j] ELSE topic[l][j + 1]]
  <2>1. topic' = [topic EXCEPT ![l] = s] /\ queue' = queue
    BY <1>6 DEF Compact
  <2>2. CASE k # l
    BY <2>1, <2>2, <1>t
  <2>3. CASE k = l
    <3>1. topic'[k] = s
      BY <2>1, <2>3, <1>t
    <3>2. s \in Seq(Event) /\ Len(topic[l]) \in Nat
      BY <1>t, CompactType
    <3>3. Len(s) = Len(topic[l]) - 1
      BY <3>2
    <3>4. ASSUME NEW i \in 1 .. Len(topic[l]) - 1
          PROVE  \E j \in 1 .. Len(topic[l]) : s[i] = topic[l][j]
      BY <3>2, <3>4
    <3> QED
      BY <2>1, <2>3, <3>1, <3>3, <3>4
  <2> QED
    BY <2>2, <2>3
<1> QED
  BY <1>1, <1>4, <1>5, <1>6

LEMMA ReplayNext ==
    ASSUME SafeConfig, TypeOK, PhaseInv, QueueInv, ReplayInv, [Next]_vars
    PROVE  ReplayInv'
<1> USE DEF cacheVars, kafkaVars, replayVars, boundVars, Goto, InitPcs, CallPcs
<1>t. /\ pc \in [Threads -> {"idle"} \cup CallPcs \cup InitPcs] /\ op \in [Threads -> Operation]
      /\ topic \in [Keys -> Seq(Event)] /\ rem \in [InitThreads -> [Keys -> Seq(Event)]]
      /\ last \in [InitThreads -> [Keys -> Nat]] /\ InitThreads \subseteq Threads
      /\ \A t, u \in InitThreads : t = u
  BY CacheAssumption DEF TypeOK, SafeConfig
<1>f. ASSUME \A u \in InitThreads : Replaying(u)' => Replaying(u), UNCHANGED <<topic, rem, last>>
      PROVE  ReplayInv'
  BY <1>f DEF ReplayInv
<1>1. ASSUME NEW t \in Threads, ClientCall(t) PROVE ReplayInv'
  <2>1. PICK o \in Operation : ~o.replay /\ op' = [op EXCEPT ![t] = o]
    BY <1>1, RequestType
  <2> QED
    BY <1>1, <2>1, <1>t, <1>f DEF ClientCall, Replaying
<1>2. ASSUME NEW t \in Threads, OperationStep(t) PROVE ReplayInv'
  <2>1. pc'[t] = "replay" => op[t].replay /\ pc[t] \in {"call", "log"}
    BY <1>2, <1>t, OperationSkeleton
    DEF LockStep, DoneStep, Return, LogRefused, LogSkipped, LogThrows, next_seq, produce_cache_event, PhaseInv
  <2>2. pc'[t] \in {"call", "log"} => op'[t] = op[t] /\ pc[t] \in {"call", "log"}
    BY <1>2, <1>t, OperationSkeleton
    DEF LockStep, DoneStep, Return, LogRefused, LogSkipped, LogThrows, next_seq, produce_cache_event
  <2>3. \A u \in Threads \ {t} : pc'[u] = pc[u] /\ op'[u] = op[u]
    BY <1>2, <1>t, OperationSkeleton
    DEF LockStep, DoneStep, Return, LogRefused, LogSkipped, LogThrows, next_seq, produce_cache_event
  <2>4. \A u \in InitThreads : Replaying(u)' => Replaying(u)
    BY <2>1, <2>2, <2>3, <1>t DEF Replaying
  <2> QED
    BY <1>2, <2>4, <1>f, OperationSkeleton
<1>3. ASSUME NEW t \in InitThreads, InitCall(t) \/ InitEmplace(t) \/ InitConstruct(t) \/ InitEnter(t)
                                     \/ ConsumeTimeout(t) \/ ReplayDone(t) \/ InitReady(t)
      PROVE  ReplayInv'
  <2>1. UNCHANGED <<topic, rem, last, op>> /\ (pc' = pc \/ pc'[t] \notin {"replay", "call", "log"})
    BY <1>3, <1>t
    DEF InitCall, InitEmplace, InitConstruct, InitEnter, ConsumeTimeout, ReplayFails, ReplayDone, InitReady
  <2> QED
    BY <2>1, <1>f, <1>t DEF Replaying
<1>4. ASSUME NEW t \in InitThreads, Consume(t) PROVE ReplayInv'
  <2>1. rem'[t] = topic /\ topic' = topic
    BY <1>4, <1>t DEF Consume
  <2> QED
    BY <2>1, <1>t DEF ReplayInv
<1>5. ASSUME NEW t \in InitThreads, NEW k \in Keys,
             ReplaySkip(t, k) \/ ReplayExpired(t, k) \/ ReplayApply(t, k)
      PROVE  ReplayInv'
  <2>1. Replaying(t) /\ AtEvent(t, k) /\ topic' = topic
    BY <1>5 DEF ReplaySkip, ReplayExpired, ReplayApply, AtEvent, Replaying
  <2>2. /\ rem[t][k] \in Seq(Event) /\ rem[t][k] # <<>>
        /\ NextEvent(t, k) = rem[t][k][1] /\ NextEvent(t, k).seq \in Nat
    <3>1. rem[t][k] \in Seq(Event) /\ rem[t][k] # <<>>
      BY <2>1, <1>t DEF AtEvent
    <3>2. NextEvent(t, k) \in Event
      BY <2>1, NextEventType
    <3> QED
      BY <3>1, <3>2 DEF NextEvent, Event
  <2>3. /\ rem'[t][k] = Tail(rem[t][k])
        /\ \A l \in Keys \ {k} : rem'[t][l] = rem[t][l]
    <3>1. rem' = [rem EXCEPT ![t][k] = Tail(@)]
      BY <1>5, Zenon DEF ReplaySkip, ReplayExpired, ReplayApply, Pop
    <3>2. rem[t] \in [Keys -> Seq(Event)]
      BY <1>t
    <3>3. rem'[t] = [rem[t] EXCEPT ![k] = Tail(@)]
      BY <3>1, <1>t, Zenon
    <3> QED
      BY <3>2, <3>3
  <2>4. /\ last[t][k] \in Nat /\ last'[t][k] \in Nat
        /\ last'[t][k] >= last[t][k] /\ last'[t][k] >= NextEvent(t, k).seq
        /\ \A l \in Keys \ {k} : last'[t][l] = last[t][l]
    BY <1>5, <2>2, <1>t DEF ReplaySkip, ReplayExpired, ReplayApply, Applied, IsStale
  <2>5. ASSUME NEW i \in 1 .. Len(topic[k])
        PROVE  \/ topic[k][i].seq <= last'[t][k]
               \/ \E j \in 1 .. Len(rem'[t][k]) : rem'[t][k][j] = topic[k][i]
    <3>0. topic[k] \in Seq(Event)
      BY <1>t
    <3>1. topic[k][i] \in Event /\ topic[k][i].seq \in Nat
      <4>1. topic[k][i] \in Event
        BY <3>0, ElementOfSeq
      <4> QED
        BY <4>1 DEF Event
    <3>2. CASE topic[k][i].seq <= last[t][k]
      BY <2>4, <3>1, <3>2
    <3>3. ASSUME NEW j \in 1 .. Len(rem[t][k]), rem[t][k][j] = topic[k][i]
          PROVE  \/ topic[k][i].seq <= last'[t][k]
                 \/ \E n \in 1 .. Len(rem'[t][k]) : rem'[t][k][n] = topic[k][i]
      <4>1. CASE j = 1
        BY <2>2, <2>4, <3>3, <4>1
      <4>2. CASE j > 1
        <5>1. j - 1 \in 1 .. Len(Tail(rem[t][k])) /\ Tail(rem[t][k])[j - 1] = rem[t][k][j]
          BY <2>2, <4>2
        <5> QED
          BY <2>3, <3>3, <5>1
      <4> QED
        BY <4>1, <4>2
    <3> QED
      BY <2>1, <3>2, <3>3 DEF ReplayInv
  <2>6. \A l \in Keys : \A i \in 1 .. Len(topic[l]) :
            \/ topic[l][i].seq <= last'[t][l]
            \/ \E j \in 1 .. Len(rem'[t][l]) : rem'[t][l][j] = topic[l][i]
    <3> SUFFICES ASSUME NEW l \in Keys, NEW i \in 1 .. Len(topic[l])
                 PROVE  \/ topic[l][i].seq <= last'[t][l]
                        \/ \E j \in 1 .. Len(rem'[t][l]) : rem'[t][l][j] = topic[l][i]
      OBVIOUS
    <3>1. CASE l = k
      BY <2>5, <3>1
    <3>2. CASE l # k
      <4>1. rem'[t][l] = rem[t][l] /\ last'[t][l] = last[t][l]
        BY <2>3, <2>4, <3>2
      <4> QED
        BY <2>1, <4>1 DEF ReplayInv
    <3> QED
      BY <3>1, <3>2
  <2>7. \A u \in InitThreads : u = t
    BY <1>t
  <2> QED
    <3> SUFFICES ASSUME NEW u \in InitThreads, NEW l \in Keys, NEW i \in 1 .. Len(topic'[l])
                 PROVE  \/ topic'[l][i].seq <= last'[u][l]
                        \/ \E j \in 1 .. Len(rem'[u][l]) : rem'[u][l][j] = topic'[l][i]
      BY DEF ReplayInv
    <3>1. u = t
      BY <2>7
    <3> QED
      BY <2>1, <2>6, <3>1
<1>6. CASE Crash
  BY <1>6, <1>t DEF Crash, ReplayInv, Replaying
<1>7. CASE KafkaStep
  <2>1. UNCHANGED <<state, pc, op, rem, last>>
    BY <1>7 DEF KafkaStep, Deliver, Redeliver, DeliveryFails, Compact
  <2>2. ASSUME NEW t \in InitThreads, Replaying(t)', NEW k \in Keys
        PROVE  \A i \in 1 .. Len(topic'[k]) :
                  \/ topic'[k][i].seq <= last[t][k]
                  \/ \E j \in 1 .. Len(rem[t][k]) : rem[t][k][j] = topic'[k][i]
    <3>1. Replaying(t) /\ state # "READY"
      BY <2>1, <2>2 DEF Replaying, PhaseInv
    <3>2. queue[k] = {}
      BY <3>1 DEF QueueInv
    <3>3. ASSUME NEW i \in 1 .. Len(topic'[k])
          PROVE  \E j \in 1 .. Len(topic[k]) : topic'[k][i] = topic[k][j]
      BY <1>7, <3>2, TopicStep
    <3> QED
      <4> TAKE i \in 1 .. Len(topic'[k])
      <4>1. PICK j \in 1 .. Len(topic[k]) : topic'[k][i] = topic[k][j]
        BY <3>3
      <4>2. \/ topic[k][j].seq <= last[t][k]
            \/ \E n \in 1 .. Len(rem[t][k]) : rem[t][k][n] = topic[k][j]
        BY <3>1 DEF ReplayInv
      <4> QED
        BY <4>1, <4>2
  <2> QED
    BY <2>1, <2>2 DEF ReplayInv
<1>8. CASE Tick \/ UNCHANGED vars
  BY <1>8, <1>f DEF Tick, vars, Replaying
<1> QED
  BY <1>1, <1>2, <1>3, <1>4, <1>5, <1>6, <1>7, <1>8 DEF Next, Quiet, InitStep, ReplayStep

LEMMA LoggedType ==
    ASSUME TypeOK, NEW k \in Keys, NEW e \in LoggedEvents(k)
    PROVE  e \in Event /\ e.seq \in Nat
<1>1. queue[k] \in SUBSET Event /\ topic[k] \in Seq(Event)
  BY DEF TypeOK
<1>2. e \in Event
  BY <1>1, ElementOfSeq DEF LoggedEvents
<1> QED
  BY <1>2 DEF Event

LogShrinks == \A k \in Keys : LoggedEvents(k)' \subseteq LoggedEvents(k)

\* Both properties survive a step that adds no event and lowers no counter.
LEMMA SeqFrame ==
    ASSUME TypeOK, SeqCoversLog, NoSeqReuse, LogShrinks,
           Counting' => Counting /\ seq' = seq
    PROVE  SeqCoversLog' /\ NoSeqReuse'
BY DEF SeqCoversLog, NoSeqReuse, LogShrinks

LEMMA LogUnchanged == UNCHANGED <<queue, topic>> => LogShrinks
BY DEF LogShrinks, LoggedEvents

LEMMA SeqProduce ==
    ASSUME TypeOK, LockInv, SeqCoversLog, NoSeqReuse, NEW t \in Threads, produce_cache_event(t)
    PROVE  SeqCoversLog' /\ NoSeqReuse'
<1> DEFINE k == op[t].key
           c == seq[k] + 1
           n == NewEvent(t)
<1>1. /\ k \in Keys /\ seq \in [Keys -> Nat] /\ queue \in [Keys -> SUBSET Event]
      /\ counter[t] = seq[k] /\ state = "READY" /\ state' = state /\ topic' = topic
  BY DEF TypeOK, Operation, LockInv, produce_cache_event
<1>2. n \in Event /\ n.seq = c
  BY <1>1, NewEventType DEF NewEvent
<1>3. /\ seq' = [seq EXCEPT ![k] = c]
      /\ queue' = queue \/ queue' = [queue EXCEPT ![k] = @ \cup {n}]
  BY <1>1 DEF produce_cache_event
<1> HIDE DEF k, c, n
<1>4. ASSUME NEW l \in Keys, NEW e \in LoggedEvents(l)'
      PROVE  e \in LoggedEvents(l) \/ (l = k /\ e = n)
  BY <1>1, <1>3 DEF LoggedEvents
<1>5. ASSUME NEW l \in Keys, NEW e \in LoggedEvents(l)
      PROVE  e.seq \in Nat /\ e.seq <= seq[l] /\ (l = k => e.seq < c)
  BY <1>1, LoggedType DEF SeqCoversLog, Counting, c
<1>6. \A l \in Keys : seq'[l] \in Nat /\ seq[l] <= seq'[l] /\ (l = k => seq'[l] = c)
  BY <1>1, <1>3 DEF c
<1>7. ASSUME NEW l \in Keys, NEW e \in LoggedEvents(l)' PROVE e.seq <= seq'[l]
  <2>1. CASE e \in LoggedEvents(l)
    BY <1>1, <1>5, <1>6, <2>1
  <2>2. CASE l = k /\ e = n
    BY <1>2, <1>6, <2>2
  <2> QED
    BY <1>4, <2>1, <2>2
<1>8. ASSUME NEW l \in Keys, NEW e \in LoggedEvents(l)', NEW f \in LoggedEvents(l)', e.seq = f.seq
      PROVE  e = f
  <2>1. CASE e \in LoggedEvents(l) /\ f \in LoggedEvents(l)
    BY <1>8, <2>1 DEF NoSeqReuse
  <2>2. CASE l = k /\ (e = n \/ f = n)
    BY <1>1, <1>2, <1>4, <1>5, <1>8, <2>2 DEF c
  <2> QED
    BY <1>4, <2>1, <2>2
<1> QED
  BY <1>7, <1>8 DEF SeqCoversLog, NoSeqReuse

\* The end of the replay: every event of the topic has been counted, and the
\* logger gets the counters.
LEMMA SeqReplayDone ==
    ASSUME SafeConfig, TypeOK, PhaseInv, QueueInv, ReplayInv, NEW t \in InitThreads, ReplayDone(t)
    PROVE  SeqCoversLog'
<1>1. Replaying(t) /\ state = "REPLAYING" /\ logger /\ UNCHANGED <<queue, topic>>
  BY DEF ReplayDone, Replaying, PhaseInv, kafkaVars
<1>2. seq \in [Keys -> Nat] /\ last \in [InitThreads -> [Keys -> Nat]] /\ topic \in [Keys -> Seq(Event)]
  BY DEF TypeOK
<1>3. ASSUME NEW k \in Keys, NEW e \in LoggedEvents(k)' PROVE e.seq <= seq'[k]
  <2>1. queue'[k] = {}
    BY <1>1 DEF QueueInv
  <2>2. PICK i \in 1 .. Len(topic[k]) : e = topic[k][i]
    BY <1>1, <2>1 DEF LoggedEvents
  <2>3. e.seq \in Nat
    <3>1. e \in LoggedEvents(k)
      BY <2>2 DEF LoggedEvents
    <3> QED
      BY <3>1, LoggedType
  <2>4. rem[t][k] = <<>>
    BY DEF ReplayDone
  <2>5. e.seq <= last[t][k]
    BY <1>1, <2>2, <2>4 DEF ReplayInv
  <2>6. seq'[k] = IF last[t][k] = 0 THEN seq[k] ELSE last[t][k]
    BY <1>1 DEF ReplayDone, set_seq_counters
  <2> QED
    BY <1>2, <2>3, <2>5, <2>6
<1> QED
  BY <1>3 DEF SeqCoversLog

LEMMA SeqNext ==
    ASSUME SafeConfig, TypeOK, PhaseInv, LockInv, QueueInv, ReplayInv, SeqCoversLog, NoSeqReuse,
           [Next]_vars
    PROVE  SeqCoversLog' /\ NoSeqReuse'
<1> USE DEF cacheVars, kafkaVars, replayVars, boundVars, Goto, Counting
<1>1. ASSUME NEW t \in Threads, ClientCall(t) PROVE SeqCoversLog' /\ NoSeqReuse'
  BY <1>1, SeqFrame, LogUnchanged DEF ClientCall
<1>2. ASSUME NEW t \in Threads, OperationStep(t) PROVE SeqCoversLog' /\ NoSeqReuse'
  <2>1. state' = state
    BY <1>2, PhaseOperation
  <2>2. CASE produce_cache_event(t)
    BY <2>2, SeqProduce
  <2>3. CASE ~produce_cache_event(t)
    <3>1. UNCHANGED <<queue, topic, seq>>
      BY <1>2, <2>3, OperationSkeleton DEF LockStep, DoneStep, LogRefused, next_seq
    <3> QED
      BY <2>1, <3>1, SeqFrame, LogUnchanged
  <2> QED
    BY <2>2, <2>3
<1>3. ASSUME NEW t \in InitThreads, InitEmplace(t) \/ InitConstruct(t)
      PROVE  SeqCoversLog' /\ NoSeqReuse'
  <2>1. ~Counting'
    BY <1>3 DEF InitEmplace, InitConstruct, PhaseInv
  <2>2. topic' = topic /\ (queue' = queue \/ queue' = [k \in Keys |-> {}])
    BY <1>3 DEF InitEmplace, InitConstruct
  <2>3. LogShrinks
    BY <2>2 DEF LogShrinks, LoggedEvents
  <2> QED
    BY <2>1, <2>3, SeqFrame
<1>4. ASSUME NEW t \in InitThreads, ReplayDone(t) PROVE SeqCoversLog' /\ NoSeqReuse'
  <2>1. UNCHANGED <<queue, topic>>
    BY <1>4 DEF ReplayDone
  <2> QED
    BY <1>4, <2>1, SeqReplayDone, LogUnchanged DEF NoSeqReuse, LogShrinks
<1>5. ASSUME NEW t \in InitThreads,
             InitCall(t) \/ InitEnter(t) \/ Consume(t) \/ ConsumeTimeout(t) \/ InitReady(t)
             \/ \E k \in Keys : ReplaySkip(t, k) \/ ReplayExpired(t, k) \/ ReplayApply(t, k)
      PROVE  SeqCoversLog' /\ NoSeqReuse'
  <2>1. UNCHANGED <<queue, topic, seq>>
    BY <1>5 DEF InitCall, InitEnter, Consume, ConsumeTimeout, InitReady, ReplaySkip, ReplayExpired, ReplayApply
  <2>2. Counting' => Counting
    BY <1>5
    DEF InitCall, InitEnter, Consume, ConsumeTimeout, InitReady, ReplaySkip, ReplayExpired, ReplayApply,
        ReplayFails, PhaseInv
  <2> QED
    BY <2>1, <2>2, SeqFrame, LogUnchanged
<1>6. CASE Crash
  <2>1. LogShrinks
    BY <1>6 DEF Crash, LogShrinks, LoggedEvents
  <2> QED
    BY <1>6, <2>1, SeqFrame DEF Crash
<1>7. CASE KafkaStep
  <2>1. state' = state /\ seq' = seq
    BY <1>7 DEF KafkaStep, Deliver, Redeliver, DeliveryFails, Compact
  <2>2. LogShrinks
    BY <1>7, TopicStep DEF LogShrinks, LoggedEvents
  <2> QED
    BY <2>1, <2>2, SeqFrame
<1>8. CASE Tick \/ UNCHANGED vars
  BY <1>8, SeqFrame, LogUnchanged DEF Tick, vars
<1> QED
  BY <1>1, <1>2, <1>3, <1>4, <1>5, <1>6, <1>7, <1>8 DEF Next, Quiet, InitStep, ReplayStep

SeqParts == LockInv /\ PhaseInv /\ QueueInv /\ ReplayInv /\ SeqCoversLog /\ NoSeqReuse

LEMMA SeqInit == ASSUME Init PROVE SeqParts
<1>1. \A t \in Threads : pc[t] = "idle" /\ op[t] = NoOp
  BY DEF Init
<1>2. LockInv /\ PhaseInv /\ ReplayInv
  BY <1>1, NoOpReplay, CacheAssumption DEF Init, LockInv, PhaseInv, ReplayInv, Replaying, InitPcs, CallPcs
<1>3. QueueInv /\ \A k \in Keys : LoggedEvents(k) = {}
  BY DEF Init, QueueInv, LoggedEvents
<1> QED
  BY <1>2, <1>3 DEF SeqParts, SeqCoversLog, NoSeqReuse

LEMMA SeqPartsNext ==
    ASSUME SafeConfig, TypeOK, SeqParts, [Next]_vars
    PROVE  SeqParts'
BY PhaseNext, LockNext, QueueNext, ReplayNext, SeqNext DEF SeqParts

\* The lock of a key's slice, the phases of INIT, the producer's queue and the
\* replay stay in step, whatever the clients, Kafka and crashes do.
THEOREM SequenceInvariant == Spec => []SeqInv
<1>1. CASE SafeConfig
  <2>1. Init => SeqParts
    BY SeqInit
  <2>2. TypeOK /\ SeqParts /\ [Next]_vars => SeqParts'
    BY <1>1, SeqPartsNext
  <2>3. SeqParts => SeqInv
    BY DEF SeqParts, SeqInv
  <2> QED
    BY <2>1, <2>2, <2>3, TypeCorrect, PTL DEF Spec
<1>2. CASE ~SafeConfig
  <2>1. SeqInv
    BY <1>2 DEF SeqInv
  <2> QED
    BY <2>1, PTL
<1> QED
  BY <1>1, <1>2

\* With one client that sends INIT, always with replay, the counters that a
\* replay hands to the logger cover every event a later replay can read.
THEOREM CountersCoverLog == SafeConfig => (Spec => []SeqCoversLog)
<1> SUFFICES ASSUME SafeConfig PROVE Spec => []SeqCoversLog
  OBVIOUS
<1>1. SeqInv => SeqCoversLog
  BY DEF SeqInv
<1> QED
  BY <1>1, SequenceInvariant, PTL

\* Under the same assumption next_seq gives no sequence number of a key twice,
\* across any number of crashes and restarts.
THEOREM SequenceNumbersUnique == SafeConfig => (Spec => []NoSeqReuse)
<1> SUFFICES ASSUME SafeConfig PROVE Spec => []NoSeqReuse
  OBVIOUS
<1>1. SeqInv => NoSeqReuse
  BY DEF SeqInv
<1> QED
  BY <1>1, SequenceInvariant, PTL


-----------------------------------------------------------------------------
(* The log and the cache: the inductive invariant                           *)

\* A request gives an entry a deadline exactly when it has a TTL.
WellAsked(o) ==
    /\ o.kind = "set" => o.ttl_ms # 0 /\ (o.expires_at = NoTTL <=> o.ttl_ms = NoTTL)
    /\ o.kind = "expire" => o.ttl_ms # NoTTL
RequestsWellAsked == \A t \in Threads : WellAsked(op[t])

\* The entry that an operation leaves for its logging callback.
Wrote(o, entry) ==
    /\ o.kind \in {"set", "del", "expire", "persist"}
    /\ o.kind = "set" => entry = [value |-> o.value, expires_at |-> o.expires_at]
    /\ o.kind = "del" => entry = Absent
    /\ o.kind = "expire" => has_ttl(entry)
    /\ o.kind = "persist" => ~has_ttl(entry)

\* Until a thread has logged what it wrote, the entry stays as it is.
WrittenInv == \A t \in Threads : pc[t] \in {"log", "incr"} => Wrote(op[t], map[op[t].key])

\* Numbers start at 1, so that a counter at 0 is the number of no event; and an
\* EXPIRE event has a TTL.
WellLogged(e) == e.seq # 0 /\ (e.type = "EXPIRE" => e.ttl_ms # NoTTL)
EventsWellLogged == \A k \in Keys : \A e \in LoggedEvents(k) : WellLogged(e)

\* An event that the replay still has to apply is the only one of its number.
RemainingInv ==
    \A t \in InitThreads : Replaying(t) =>
        \A k \in Keys : \A i \in 1 .. Len(rem[t][k]) : \A e \in LoggedEvents(k) :
            e.seq = rem[t][k][i].seq => e = rem[t][k][i]

ClockInv == \A t \in InitThreads : rnow[t] <= now

\* A deadline that is the event's, late by the time since the clock was read.
InTime(t, e, deadline) == deadline \in EventDeadline(e) .. EventDeadline(e) + (now - rnow[t])

\* The call that replay makes for an event.
Applies(t, o, e) ==
    /\ o.kind = IF e.type = "DELETE" THEN "del" ELSE "set"
    /\ o.value = e.value
    /\ IF HasDeadline(e) THEN InTime(t, e, o.expires_at) ELSE o.expires_at = NoTTL

\* While such a call is running, the event counted last is the one it applies.
ApplyingInv ==
    \A t \in InitThreads : op[t].replay =>
        \A e \in LoggedEvents(op[t].key) : e.seq = last[t][op[t].key] => Applies(t, op[t], e)

\* The entry that the replay of an event leaves, until its deadline has passed.
Restored(t, e, entry) ==
    /\ Describes(e, entry)
    /\ HasDeadline(e) => IF entry = Absent THEN now > EventDeadline(e)
                                           ELSE InTime(t, e, entry.expires_at)

\* The event with a number has been dealt with.
Settled(t, k, n) ==
    \A e \in LoggedEvents(k) : e.seq = n => ExpiredInDowntime(t, e) \/ Restored(t, e, map[k])

Calling(t, k) == op[t].replay /\ op[t].key = k

\* Every key is settled up to the event counted last for it, but for the one
\* that a call of the replay is working on and those that clients write; at the
\* end of the replay that is the newest event.
SettledKey(t, k) ==
    Untouched(k) =>
        /\ Replaying(t) /\ ~Calling(t, k) => Settled(t, k, last[t][k])
        /\ pc[t] = "ready" => Settled(t, k, seq[k])
SettledInv == \A t \in InitThreads, k \in Keys : SettledKey(t, k)

-----------------------------------------------------------------------------
(* What the operations do to the map *)

\* An operation that has something to log writes its entry and keeps the lock.
Writes(t, e) ==
    /\ pc[t] = "call" /\ lock[op[t].key] = NoThread /\ Wrote(op[t], e)
    /\ map' = [map EXCEPT ![op[t].key] = e]
    /\ lock' = [lock EXCEPT ![op[t].key] = t]
    /\ pc' = [pc EXCEPT ![t] = "log"]
    /\ op' = op

\* One that has nothing to log leaves the entry, or takes a dead one out.
Leaves(t) ==
    /\ map' = map
    /\ op[t].kind = "del" => map[op[t].key] = Absent
Clears(t) ==
    /\ op[t].kind # "del" /\ ~Live(map[op[t].key])
    /\ map' = [map EXCEPT ![op[t].key] = Absent]
Answers(t) ==
    /\ pc[t] = "call" /\ lock[op[t].key] = NoThread /\ op[t].kind # "set"
    /\ Leaves(t) \/ Clears(t)
    /\ lock' = lock
    /\ Return(t)

\* Nothing that the invariant speaks of, but the map, the lock and the thread.
OnlyMap == UNCHANGED <<state, seq, queue, topic, now, last, rem, rnow, unlogged>>

LEMMA OperationEffect ==
    ASSUME TypeOK, RequestsWellAsked, NEW t \in Threads, OperationStep(t)
    PROVE  \/ (\E e \in Entry : Writes(t, e)) /\ OnlyMap
           \/ Answers(t) /\ OnlyMap
           \/ LogRefused(t) \/ next_seq(t) \/ produce_cache_event(t)
<1> DEFINE o == op[t]
           k == op[t].key
<1>t. /\ o \in Operation /\ k \in Keys /\ map[k] \in Entry /\ Absent \in Entry
      /\ o.ttl_ms \in Nat \cup {NoTTL} /\ now \in Nat /\ WellAsked(o)
  BY DEF TypeOK, Operation, RequestsWellAsked, Entry, Absent
<1>n. NothingElse => OnlyMap
  BY DEF NothingElse, OnlyMap, kafkaVars, replayVars
<1>w. ASSUME NEW e \in Entry, WriteAndLog(t, e), CanLock(t, o.kind), Wrote(o, e), NothingElse
      PROVE  (\E f \in Entry : Writes(t, f)) /\ OnlyMap
  <2>1. Writes(t, e)
    BY <1>w DEF WriteAndLog, CanLock, Writes
  <2> QED
    BY <1>w, <1>n, <2>1
<1>d. ASSUME CanLock(t, o.kind), RemoveDead(t), o.kind \notin {"set", "del"}, NothingElse
      PROVE  Answers(t) /\ OnlyMap
  BY <1>d, <1>n DEF RemoveDead, Answers, Clears, CanLock
<1>l. ASSUME CanLock(t, o.kind), Return(t), UNCHANGED <<map, lock>>, o.kind # "set", NothingElse,
             o.kind = "del" => map[k] = Absent
      PROVE  Answers(t) /\ OnlyMap
  BY <1>l, <1>n DEF Answers, Leaves, CanLock
<1>1. CASE set(t)
  <2> DEFINE e == [value |-> o.value, expires_at |-> o.expires_at]
  <2>1. e \in Entry
    BY <1>t DEF Operation, Entry
  <2>2. CanLock(t, "set") /\ WriteAndLog(t, e) /\ NothingElse /\ o.kind = "set"
    BY <1>1 DEF set, CanLock
  <2>3. Wrote(o, e)
    BY <2>2 DEF Wrote
  <2> QED
    BY <2>1, <2>2, <2>3, <1>w
<1>2. CASE get(t) \/ pttl(t)
  <2>1. CanLock(t, o.kind) /\ o.kind \in {"get", "pttl"} /\ Read(t)
    BY <1>2 DEF get, pttl, CanLock
  <2> QED
    BY <2>1, <1>d, <1>l DEF Read
<1>3. CASE del(t)
  <2>1. CanLock(t, o.kind) /\ o.kind = "del" /\ NothingElse
    BY <1>3 DEF del, CanLock
  <2>2. Wrote(o, Absent)
    BY <2>1 DEF Wrote
  <2> QED
    BY <1>3, <1>t, <2>1, <2>2, <1>w, <1>l DEF del
<1>4. CASE expire(t)
  <2> DEFINE e == [map[k] EXCEPT !.expires_at = Deadline(o.ttl_ms)]
  <2>1. CanLock(t, o.kind) /\ o.kind = "expire" /\ NothingElse
    BY <1>4 DEF expire, CanLock
  <2>2. Deadline(o.ttl_ms) \in Nat
    BY <1>t, <2>1 DEF Deadline, WellAsked
  <2>3. e \in Entry /\ has_ttl(e)
    BY <1>t, <2>2 DEF Entry, has_ttl
  <2>4. Wrote(o, e)
    BY <2>1, <2>3 DEF Wrote
  <2> QED
    BY <1>4, <2>1, <2>3, <2>4, <1>w, <1>d DEF expire
<1>5. CASE persist(t)
  <2> DEFINE e == [map[k] EXCEPT !.expires_at = NoTTL]
  <2>1. CanLock(t, o.kind) /\ o.kind = "persist" /\ NothingElse
    BY <1>5 DEF persist, CanLock
  <2>2. e \in Entry /\ ~has_ttl(e)
    BY <1>t DEF Entry, has_ttl
  <2>3. Wrote(o, e)
    BY <2>1, <2>2 DEF Wrote
  <2> QED
    BY <1>5, <2>1, <2>2, <2>3, <1>w, <1>d, <1>l DEF persist
<1> QED
  BY <1>1, <1>2, <1>3, <1>4, <1>5 DEF OperationStep

\* A step of another thread leaves this one where it is.
LEMMA OtherThreads ==
    ASSUME TypeOK, RequestsWellAsked, NEW t \in Threads, OperationStep(t)
    PROVE  \A u \in Threads \ {t} : pc'[u] = pc[u] /\ op'[u] = op[u]
<1>1. pc \in [Threads -> {"idle"} \cup CallPcs \cup InitPcs] /\ op \in [Threads -> Operation]
  BY DEF TypeOK
<1> QED
  BY <1>1, OperationEffect
  DEF Writes, Answers, Return, LogRefused, LogSkipped, LogThrows, next_seq, produce_cache_event, cacheVars

-----------------------------------------------------------------------------
(* Requests *)

LEMMA NoOpWellAsked == WellAsked(NoOp)
BY DEF WellAsked, NoOp, Call

LEMMA ClientWellAsked ==
    ASSUME TypeOK, NEW t \in Threads, ClientCall(t)
    PROVE  WellAsked(op'[t])
<1>t. op \in [Threads -> Operation] /\ now \in Nat /\ TTLs \subseteq Nat \ {0}
  BY CacheAssumption DEF TypeOK
<1>d. ASSUME NEW ttl \in TTLs \cup {NoTTL}
      PROVE  ttl # 0 /\ (Deadline(ttl) = NoTTL <=> ttl = NoTTL)
  BY <1>t DEF Deadline
<1>c. \A kind, k, v, ttl, deadline :
         StartCall(t, Call(kind, k, v, ttl, deadline, FALSE)) =>
             op'[t].kind = kind /\ op'[t].ttl_ms = ttl /\ op'[t].expires_at = deadline
  BY <1>t DEF StartCall, Call
<1>1. PICK k \in Keys :
         \/ \E v \in Values, ttl \in TTLs \cup {NoTTL} :
                StartCall(t, Call("set", k, v, ttl, Deadline(ttl), FALSE))
         \/ \E ttl \in TTLs : StartCall(t, Call("expire", k, NoValue, ttl, NoTTL, FALSE))
         \/ \E kind \in {"get", "del", "persist", "pttl"} :
                StartCall(t, Call(kind, k, NoValue, NoTTL, NoTTL, FALSE))
  BY DEF ClientCall
<1>2. CASE \E v \in Values, ttl \in TTLs \cup {NoTTL} :
             StartCall(t, Call("set", k, v, ttl, Deadline(ttl), FALSE))
  BY <1>2, <1>c, <1>d DEF WellAsked
<1>3. CASE \E ttl \in TTLs : StartCall(t, Call("expire", k, NoValue, ttl, NoTTL, FALSE))
  <2>1. PICK ttl \in TTLs : StartCall(t, Call("expire", k, NoValue, ttl, NoTTL, FALSE))
    BY <1>3
  <2>2. op'[t].kind = "expire" /\ op'[t].ttl_ms = ttl
    BY <2>1, <1>t DEF StartCall, Call
  <2>3. ttl # NoTTL
    BY <1>t
  <2> QED
    BY <2>2, <2>3 DEF WellAsked
<1>4. CASE \E kind \in {"get", "del", "persist", "pttl"} :
             StartCall(t, Call(kind, k, NoValue, NoTTL, NoTTL, FALSE))
  BY <1>4, <1>c DEF WellAsked
<1> QED
  BY <1>1, <1>2, <1>3, <1>4

\* The call that the replay makes for an event that has not expired applies it.
LEMMA ReplayCallApplies ==
    ASSUME TypeOK, ClockInv, NEW t \in InitThreads, NEW k \in Keys, NEW e \in Event,
           ~ExpiredInDowntime(t, e)
    PROVE  /\ WellAsked(ReplayCall(t, k, e)) /\ Applies(t, ReplayCall(t, k, e), e)
           /\ ReplayCall(t, k, e).key = k /\ ReplayCall(t, k, e).replay
<1> DEFINE ttl == IF HasDeadline(e) THEN EventDeadline(e) - rnow[t] ELSE NoTTL
           o == ReplayCall(t, k, e)
<1>1. now \in Nat /\ rnow[t] \in Nat /\ rnow[t] <= now
  BY DEF TypeOK, ClockInv
<1>2. EventDeadline(e) \in Int
  BY DEF EventDeadline, Event
<1>3. /\ o.kind = (IF e.type = "DELETE" THEN "del" ELSE "set") /\ o.key = k /\ o.value = e.value
      /\ o.ttl_ms = ttl /\ o.expires_at = Deadline(ttl) /\ o.replay
  BY DEF ReplayCall, Call
<1> HIDE DEF o, ttl
<1>4. CASE HasDeadline(e)
  <2>1. ttl \in Nat \ {0} /\ ttl = EventDeadline(e) - rnow[t]
    BY <1>1, <1>2, <1>4 DEF ttl, ExpiredInDowntime
  <2>2. Deadline(ttl) = EventDeadline(e) + (now - rnow[t]) /\ Deadline(ttl) \in Nat
    BY <1>1, <1>2, <2>1 DEF Deadline
  <2>3. InTime(t, e, o.expires_at)
    BY <1>1, <1>2, <1>3, <2>2 DEF InTime
  <2>4. WellAsked(o)
    BY <1>3, <2>1, <2>2 DEF WellAsked
  <2> QED
    BY <1>3, <1>4, <2>3, <2>4 DEF Applies, o
<1>5. CASE ~HasDeadline(e)
  <2>1. ttl = NoTTL /\ Deadline(ttl) = NoTTL
    BY <1>5 DEF ttl, Deadline
  <2> QED
    BY <1>3, <1>5, <2>1 DEF Applies, WellAsked, o
<1> QED
  BY <1>4, <1>5

LEMMA RequestsNext ==
    ASSUME TypeOK, ClockInv, RequestsWellAsked, [Next]_vars
    PROVE  RequestsWellAsked'
<1>t. op \in [Threads -> Operation] /\ InitThreads \subseteq Threads
  BY CacheAssumption DEF TypeOK
<1>f. ASSUME NEW t \in Threads, WellAsked(op'[t]), \A u \in Threads \ {t} : op'[u] = op[u]
      PROVE  RequestsWellAsked'
  BY <1>f DEF RequestsWellAsked
<1>s. ASSUME op' = op PROVE RequestsWellAsked'
  BY <1>s DEF RequestsWellAsked
<1>1. ASSUME NEW t \in Threads, ClientCall(t) PROVE RequestsWellAsked'
  <2>1. \A u \in Threads \ {t} : op'[u] = op[u]
    <3>1. PICK o \in Operation : op' = [op EXCEPT ![t] = o]
      BY <1>1, RequestType
    <3> QED
      BY <3>1, <1>t
  <2> QED
    BY <1>1, <1>f, <2>1, ClientWellAsked
<1>2. ASSUME NEW t \in Threads, OperationStep(t) PROVE RequestsWellAsked'
  <2>1. op'[t] \in {op[t], NoOp}
    BY <1>2, <1>t, OperationEffect
    DEF Writes, Answers, Return, LogRefused, LogSkipped, LogThrows, next_seq, produce_cache_event
  <2>2. WellAsked(op'[t])
    BY <2>1, NoOpWellAsked DEF RequestsWellAsked
  <2> QED
    BY <1>2, <1>f, <2>2, OtherThreads
<1>3. ASSUME NEW t \in InitThreads, NEW k \in Keys, ReplayApply(t, k) PROVE RequestsWellAsked'
  <2>1. CASE op' = op
    BY <2>1, <1>s
  <2>2. CASE StartCall(t, ReplayCall(t, k, NextEvent(t, k)))
    <3>1. ~ExpiredInDowntime(t, NextEvent(t, k)) /\ NextEvent(t, k) \in Event
      BY <1>3, NextEventType DEF ReplayApply
    <3>2. op'[t] = ReplayCall(t, k, NextEvent(t, k)) /\ \A u \in Threads \ {t} : op'[u] = op[u]
      BY <2>2, <1>t DEF StartCall
    <3> QED
      BY <3>1, <3>2, <1>t, <1>f, ReplayCallApplies
  <2> QED
    BY <1>3, <2>1, <2>2 DEF ReplayApply
<1>4. ASSUME NEW t \in InitThreads,
             InitCall(t) \/ InitEmplace(t) \/ InitConstruct(t) \/ InitEnter(t) \/ Consume(t)
             \/ ConsumeTimeout(t) \/ ReplayDone(t) \/ InitReady(t)
             \/ \E k \in Keys : ReplaySkip(t, k) \/ ReplayExpired(t, k)
      PROVE  RequestsWellAsked'
  BY <1>4, <1>s DEF InitCall, InitEmplace, InitConstruct, InitEnter, Consume, ConsumeTimeout,
                    ReplayDone, InitReady, ReplaySkip, ReplayExpired
<1>5. CASE Crash
  BY <1>5, NoOpWellAsked DEF Crash, RequestsWellAsked
<1>6. CASE KafkaStep \/ Tick \/ UNCHANGED vars
  BY <1>6, <1>s DEF KafkaStep, Deliver, Redeliver, DeliveryFails, Compact, Tick, vars
<1> QED
  BY <1>1, <1>2, <1>3, <1>4, <1>5, <1>6 DEF Next, Quiet, InitStep, ReplayStep

LEMMA ClockNext ==
    ASSUME TypeOK, ClockInv, [Next]_vars
    PROVE  ClockInv'
<1>t. now \in Nat /\ rnow \in [InitThreads -> Nat]
  BY DEF TypeOK
<1> USE DEF ClockInv, replayVars
<1>1. ASSUME NEW t \in Threads, ClientCall(t) \/ OperationStep(t) PROVE ClockInv'
  <2>1. ClientCall(t) => UNCHANGED <<now, rnow>>
    BY DEF ClientCall
  <2>2. OperationStep(t) => UNCHANGED <<now, rnow>>
    BY DEF OperationStep, set, get, pttl, del, expire, persist, Read, NothingElse,
           LogRefused, next_seq, produce_cache_event
  <2> QED
    BY <1>1, <2>1, <2>2
<1>2. ASSUME NEW t \in InitThreads, InitCall(t) \/ InitStep(t) PROVE ClockInv'
  <2>1. now' = now /\ (rnow' = rnow \/ rnow' = [rnow EXCEPT ![t] = now])
    BY <1>2 DEF InitCall, InitStep, InitEmplace, InitConstruct, InitEnter, ReplayStep, Consume,
                ConsumeTimeout, ReplaySkip, ReplayExpired, ReplayApply, ReplayDone, InitReady
  <2> QED
    BY <2>1, <1>t
<1>3. CASE Crash
  BY <1>3, <1>t DEF Crash
<1>4. CASE KafkaStep \/ UNCHANGED vars
  <2>1. UNCHANGED <<now, rnow>>
    BY <1>4 DEF KafkaStep, Deliver, Redeliver, DeliveryFails, Compact, vars
  <2> QED
    BY <2>1
<1>5. CASE Tick
  BY <1>5, <1>t DEF Tick
<1> QED
  BY <1>1, <1>2, <1>3, <1>4, <1>5 DEF Next, Quiet

-----------------------------------------------------------------------------
(* What is written is what is logged *)

\* The entry of a thread that is logging is protected by its lock.
LEMMA WrittenKept ==
    ASSUME WrittenInv, NEW u \in Threads, pc'[u] \in {"log", "incr"}, pc[u] \in {"log", "incr"},
           op'[u] = op[u], map'[op[u].key] = map[op[u].key]
    PROVE  Wrote(op'[u], map'[op'[u].key])
BY DEF WrittenInv

LEMMA WrittenNext ==
    ASSUME TypeOK, LockInv, RequestsWellAsked, WrittenInv, [Next]_vars
    PROVE  WrittenInv'
<1>t. /\ pc \in [Threads -> {"idle"} \cup CallPcs \cup InitPcs] /\ op \in [Threads -> Operation]
      /\ map \in [Keys -> Entry] /\ InitThreads \subseteq Threads
      /\ \A u \in Threads : op[u].key \in Keys
  BY CacheAssumption DEF TypeOK, Operation
<1> DEFINE logging(u) == pc[u] \in {"log", "incr"}
<1>f. ASSUME map' = map,
             \A u \in Threads : pc'[u] \in {"log", "incr"} => logging(u) /\ op'[u] = op[u]
      PROVE  WrittenInv'
  BY <1>f, WrittenKept DEF WrittenInv
<1>1. ASSUME NEW t \in Threads, ClientCall(t) PROVE WrittenInv'
  <2>1. PICK o \in Operation : op' = [op EXCEPT ![t] = o]
    BY <1>1, RequestType
  <2> QED
    BY <1>1, <2>1, <1>f, <1>t DEF ClientCall, cacheVars
<1>2. ASSUME NEW t \in Threads, OperationStep(t) PROVE WrittenInv'
  <2>o. \A u \in Threads \ {t} : pc'[u] = pc[u] /\ op'[u] = op[u]
    BY <1>2, OtherThreads
  <2>k. \A u \in Threads : logging(u) /\ lock[op[t].key] = NoThread => op[u].key # op[t].key
    BY CacheAssumption DEF LockInv
  <2>1. ASSUME NEW e \in Entry, Writes(t, e) PROVE WrittenInv'
    <3>1. Wrote(op'[t], map'[op'[t].key])
      BY <2>1, <1>t DEF Writes
    <3>2. ASSUME NEW u \in Threads \ {t}, pc'[u] \in {"log", "incr"}
          PROVE  Wrote(op'[u], map'[op'[u].key])
      <4>1. logging(u) /\ op'[u] = op[u] /\ op[u].key # op[t].key
        BY <2>1, <2>k, <2>o, <3>2 DEF Writes
      <4>2. map'[op[u].key] = map[op[u].key]
        BY <2>1, <4>1, <1>t DEF Writes
      <4> QED
        BY <3>2, <4>1, <4>2, WrittenKept
    <3> QED
      BY <3>1, <3>2 DEF WrittenInv
  <2>2. CASE Answers(t)
    <3>1. pc'[t] \notin {"log", "incr"}
      BY <2>2, <1>t DEF Answers, Return
    <3>2. ASSUME NEW u \in Threads \ {t}, pc'[u] \in {"log", "incr"}
          PROVE  Wrote(op'[u], map'[op'[u].key])
      <4>1. logging(u) /\ op'[u] = op[u] /\ op[u].key # op[t].key
        BY <2>2, <2>k, <2>o, <3>2 DEF Answers
      <4>2. map'[op[u].key] = map[op[u].key]
        BY <2>2, <4>1, <1>t DEF Answers, Leaves, Clears
      <4> QED
        BY <3>2, <4>1, <4>2, WrittenKept
    <3> QED
      BY <3>1, <3>2 DEF WrittenInv
  <2>3. CASE LogRefused(t) \/ next_seq(t) \/ produce_cache_event(t)
    <3>1. map' = map
      BY <2>3 DEF LogRefused, next_seq, produce_cache_event, cacheVars
    <3>2. pc'[t] \in {"log", "incr"} => logging(t) /\ op'[t] = op[t]
      BY <2>3, <1>t DEF LogRefused, LogSkipped, LogThrows, Return, next_seq, produce_cache_event
    <3> QED
      BY <2>o, <3>1, <3>2, <1>f
  <2> QED
    BY <1>2, <2>1, <2>2, <2>3, OperationEffect
<1>3. ASSUME NEW t \in InitThreads, InitCall(t) \/ InitStep(t) PROVE WrittenInv'
  <2>1. map' = map
    BY <1>3
    DEF InitCall, InitStep, InitEmplace, InitConstruct, InitEnter, ReplayStep, Consume, ConsumeTimeout,
        ReplaySkip, ReplayExpired, ReplayApply, ReplayDone, InitReady, cacheVars
  <2>2. \/ pc' = pc /\ op' = op
        \/ pc'[t] \notin {"log", "incr"} /\ \A u \in Threads \ {t} : pc'[u] = pc[u] /\ op'[u] = op[u]
    BY <1>3, <1>t
    DEF InitCall, InitStep, InitEmplace, InitConstruct, InitEnter, ReplayStep, Consume, ConsumeTimeout,
        ReplaySkip, ReplayExpired, ReplayApply, ReplayDone, InitReady, ReplayFails, StartCall, Goto
  <2> QED
    BY <2>1, <2>2, <1>f
<1>4. CASE Crash
  BY <1>4 DEF Crash, WrittenInv
<1>5. CASE KafkaStep \/ Tick \/ UNCHANGED vars
  <2>1. UNCHANGED <<pc, op, map>>
    BY <1>5 DEF KafkaStep, Deliver, Redeliver, DeliveryFails, Compact, Tick, vars, cacheVars
  <2> QED
    BY <2>1, <1>f
<1> QED
  BY <1>1, <1>2, <1>3, <1>4, <1>5 DEF Next, Quiet

-----------------------------------------------------------------------------
(* What is in the log *)

\* Only a logged change adds an event.
LEMMA LogStep ==
    ASSUME TypeOK, QueueInv, [Next]_vars
    PROVE  LogShrinks \/ \E t \in Threads : produce_cache_event(t)
<1> USE DEF kafkaVars
<1>1. ASSUME NEW t \in Threads, ClientCall(t) PROVE LogShrinks
  BY <1>1, LogUnchanged DEF ClientCall
<1>2. ASSUME NEW t \in Threads, OperationStep(t), ~produce_cache_event(t) PROVE LogShrinks
  <2>1. UNCHANGED <<queue, topic>>
    BY <1>2, OperationSkeleton DEF LockStep, DoneStep, LogRefused, next_seq
  <2> QED
    BY <2>1, LogUnchanged
<1>3. ASSUME NEW t \in InitThreads, InitCall(t) \/ InitStep(t) PROVE LogShrinks
  <2>1. topic' = topic /\ (queue' = queue \/ queue' = [k \in Keys |-> {}])
    BY <1>3
    DEF InitCall, InitStep, InitEmplace, InitConstruct, InitEnter, ReplayStep, Consume, ConsumeTimeout,
        ReplaySkip, ReplayExpired, ReplayApply, ReplayDone, InitReady
  <2> QED
    BY <2>1 DEF LogShrinks, LoggedEvents
<1>4. CASE Crash
  BY <1>4 DEF Crash, LogShrinks, LoggedEvents
<1>5. CASE KafkaStep
  BY <1>5, TopicStep DEF LogShrinks, LoggedEvents
<1>6. CASE Tick \/ UNCHANGED vars
  BY <1>6, LogUnchanged DEF Tick, vars
<1> QED
  BY <1>1, <1>2, <1>3, <1>4, <1>5, <1>6 DEF Next, Quiet

\* What a logged change adds, and under which number.
LEMMA ProducedEvent ==
    ASSUME TypeOK, LockInv, NEW t \in Threads, produce_cache_event(t)
    PROVE  /\ op[t].key \in Keys /\ state = "READY" /\ state' = state /\ counter[t] = seq[op[t].key]
           /\ seq' = [seq EXCEPT ![op[t].key] = @ + 1]
           /\ NewEvent(t) \in Event /\ NewEvent(t).seq = seq[op[t].key] + 1
           /\ \A k \in Keys : \A e \in LoggedEvents(k)' :
                 e \in LoggedEvents(k) \/ (k = op[t].key /\ e = NewEvent(t))
<1>1. /\ op[t].key \in Keys /\ seq \in [Keys -> Nat] /\ queue \in [Keys -> SUBSET Event]
      /\ counter[t] = seq[op[t].key] /\ state = "READY" /\ state' = state /\ topic' = topic
  BY DEF TypeOK, Operation, LockInv, produce_cache_event
<1>2. NewEvent(t) \in Event /\ NewEvent(t).seq = seq[op[t].key] + 1
  BY <1>1, NewEventType DEF NewEvent
<1> DEFINE n == NewEvent(t)
<1>3. queue' = queue \/ queue' = [queue EXCEPT ![op[t].key] = @ \cup {n}]
  BY DEF produce_cache_event
<1>4. seq' = [seq EXCEPT ![op[t].key] = @ + 1]
  BY <1>1 DEF produce_cache_event
<1> HIDE DEF n
<1>5. ASSUME NEW k \in Keys, NEW e \in LoggedEvents(k)'
      PROVE  e \in LoggedEvents(k) \/ (k = op[t].key /\ e = n)
  BY <1>1, <1>3 DEF LoggedEvents
<1> QED
  BY <1>1, <1>2, <1>4, <1>5 DEF n

LEMMA EventsNext ==
    ASSUME TypeOK, LockInv, QueueInv, RequestsWellAsked, EventsWellLogged, [Next]_vars
    PROVE  EventsWellLogged'
<1>1. CASE LogShrinks
  BY <1>1 DEF LogShrinks, EventsWellLogged
<1>2. ASSUME NEW t \in Threads, produce_cache_event(t) PROVE EventsWellLogged'
  <2>1. NewEvent(t).seq # 0
    <3>1. seq[op[t].key] + 1 # 0
      BY ProducedEvent, <1>2 DEF TypeOK
    <3> QED
      BY <3>1, ProducedEvent, <1>2
  <2>2. NewEvent(t).type = "EXPIRE" => NewEvent(t).ttl_ms # NoTTL
    <3>1. NewEvent(t).type = EventType(op[t].kind) /\ NewEvent(t).ttl_ms = op[t].ttl_ms
      BY DEF NewEvent
    <3>2. WellAsked(op[t])
      BY DEF RequestsWellAsked
    <3> QED
      BY <3>1, <3>2 DEF EventType, WellAsked
  <2> QED
    BY <1>2, <2>1, <2>2, ProducedEvent DEF EventsWellLogged, WellLogged
<1> QED
  BY <1>1, <1>2, LogStep

-----------------------------------------------------------------------------
(* The progress of the replay *)

\* A thread that replays was replaying, or has just read the topic.
LEMMA ReplayingBefore ==
    ASSUME SafeConfig, TypeOK, PhaseInv, RequestsWellAsked, [Next]_vars,
           NEW u \in InitThreads, Replaying(u)'
    PROVE  \/ Replaying(u) /\ UNCHANGED <<rem, last, rnow>>
           \/ Consume(u)
           \/ \E k \in Keys : ReplaySkip(u, k) \/ ReplayExpired(u, k) \/ ReplayApply(u, k)
<1> USE DEF replayVars, Goto
<1>t. /\ pc \in [Threads -> {"idle"} \cup CallPcs \cup InitPcs] /\ op \in [Threads -> Operation]
      /\ u \in Threads /\ \A t \in InitThreads : t = u
  BY CacheAssumption DEF TypeOK, SafeConfig
<1>1. ASSUME NEW t \in Threads, ClientCall(t) PROVE Replaying(u) /\ UNCHANGED <<rem, last, rnow>>
  <2>1. PICK o \in Operation : ~o.replay /\ op' = [op EXCEPT ![t] = o]
    BY <1>1, RequestType
  <2> QED
    BY <1>1, <2>1, <1>t DEF ClientCall, Replaying
<1>2. ASSUME NEW t \in Threads, OperationStep(t) PROVE Replaying(u) /\ UNCHANGED <<rem, last, rnow>>
  <2>1. UNCHANGED <<rem, last, rnow>>
    BY <1>2, OperationSkeleton
  <2>2. CASE u # t
    BY <1>2, <1>t, <2>1, <2>2, OtherThreads DEF Replaying
  <2>3. CASE u = t
    <3>1. pc'[t] = "replay" => op[t].replay /\ pc[t] \in {"call", "log"}
      BY <1>2, <1>t, OperationSkeleton
      DEF LockStep, DoneStep, Return, LogRefused, LogSkipped, LogThrows, next_seq, produce_cache_event, PhaseInv
    <3>2. pc'[t] \in {"call", "log"} => op'[t] = op[t] /\ pc[t] \in {"call", "log"}
      BY <1>2, <1>t, OperationSkeleton
      DEF LockStep, DoneStep, Return, LogRefused, LogSkipped, LogThrows, next_seq, produce_cache_event
    <3> QED
      BY <2>1, <2>3, <3>1, <3>2 DEF Replaying
  <2> QED
    BY <2>2, <2>3
<1>3. ASSUME NEW t \in InitThreads,
             InitCall(t) \/ InitEmplace(t) \/ InitConstruct(t) \/ InitEnter(t)
             \/ ConsumeTimeout(t) \/ ReplayDone(t) \/ InitReady(t)
      PROVE  Replaying(u) /\ UNCHANGED <<rem, last, rnow>>
  <2>1. UNCHANGED <<rem, last, rnow, op>> /\ (pc' = pc \/ pc'[u] \notin {"replay", "call", "log"})
    BY <1>3, <1>t
    DEF InitCall, InitEmplace, InitConstruct, InitEnter, ConsumeTimeout, ReplayFails, ReplayDone, InitReady
  <2> QED
    BY <2>1 DEF Replaying
<1>4. ~Crash
  BY <1>t DEF Crash, Replaying
<1>5. CASE KafkaStep \/ Tick \/ UNCHANGED vars
  <2>1. UNCHANGED <<pc, op, rem, last, rnow>>
    BY <1>5 DEF KafkaStep, Deliver, Redeliver, DeliveryFails, Compact, Tick, vars
  <2> QED
    BY <2>1 DEF Replaying
<1> QED
  BY <1>1, <1>2, <1>3, <1>4, <1>5, <1>t DEF Next, Quiet, InitStep, ReplayStep

\* While a thread replays, no event is produced.
LEMMA ReplayingShrinks ==
    ASSUME SafeConfig, TypeOK, LockInv, QueueInv, PhaseInv', [Next]_vars,
           NEW u \in InitThreads, Replaying(u)'
    PROVE  LogShrinks
<1>1. state' = "REPLAYING"
  BY DEF PhaseInv
<1>2. \A t \in Threads : ~produce_cache_event(t)
  BY <1>1, ProducedEvent
<1> QED
  BY <1>2, LogStep

\* Taking the next event of a key leaves the rest of its events, and the others'.
LEMMA Popped ==
    ASSUME TypeOK, NEW u \in InitThreads, NEW k \in Keys, AtEvent(u, k), Pop(u, k)
    PROVE  /\ rem[u][k] # <<>> /\ NextEvent(u, k) = rem[u][k][1] /\ 1 \in 1 .. Len(rem[u][k])
           /\ \A l \in Keys : \A i \in 1 .. Len(rem'[u][l]) :
                 \E j \in 1 .. Len(rem[u][l]) : rem'[u][l][i] = rem[u][l][j]
<1>1. rem[u][k] \in Seq(Event) /\ rem[u][k] # <<>> /\ rem \in [InitThreads -> [Keys -> Seq(Event)]]
  BY DEF AtEvent, TypeOK
<1>2. rem' = [rem EXCEPT ![u][k] = Tail(@)]
  BY Zenon DEF Pop
<1>3. rem[u] \in [Keys -> Seq(Event)]
  BY <1>1
<1>4. rem'[u] = [rem[u] EXCEPT ![k] = Tail(@)]
  BY <1>1, <1>2, Zenon
<1>5. rem'[u][k] = Tail(rem[u][k]) /\ \A l \in Keys \ {k} : rem'[u][l] = rem[u][l]
  BY <1>3, <1>4
<1>6. \A i \in 1 .. Len(Tail(rem[u][k])) :
         i + 1 \in 1 .. Len(rem[u][k]) /\ Tail(rem[u][k])[i] = rem[u][k][i + 1]
  BY <1>1
<1>7. \A i \in 1 .. Len(rem'[u][k]) : \E j \in 1 .. Len(rem[u][k]) : rem'[u][k][i] = rem[u][k][j]
  BY <1>5, <1>6
<1>8. rem[u][k] # <<>> /\ NextEvent(u, k) = rem[u][k][1] /\ 1 \in 1 .. Len(rem[u][k])
  BY <1>1 DEF NextEvent
<1>9. ASSUME NEW l \in Keys, NEW i \in 1 .. Len(rem'[u][l])
      PROVE  \E j \in 1 .. Len(rem[u][l]) : rem'[u][l][i] = rem[u][l][j]
  <2>1. CASE l = k
    BY <1>7, <2>1
  <2>2. CASE l # k
    <3>1. rem'[u][l] = rem[u][l]
      BY <1>5, <2>2
    <3> QED
      BY <3>1
  <2> QED
    BY <2>1, <2>2
<1> QED
  BY <1>8, <1>9

LEMMA RemainingNext ==
    ASSUME SafeConfig, TypeOK, SeqParts, RequestsWellAsked, RemainingInv, PhaseInv', [Next]_vars
    PROVE  RemainingInv'
<1> USE DEF SeqParts
<1> SUFFICES ASSUME NEW u \in InitThreads, Replaying(u)', NEW k \in Keys,
                    NEW i \in 1 .. Len(rem'[u][k]), NEW e \in LoggedEvents(k)',
                    e.seq = rem'[u][k][i].seq
             PROVE  e = rem'[u][k][i]
  BY DEF RemainingInv
<1>1. e \in LoggedEvents(k)
  BY ReplayingShrinks DEF LogShrinks
<1>2. CASE Replaying(u) /\ UNCHANGED <<rem, last, rnow>>
  BY <1>1, <1>2 DEF RemainingInv
<1>3. CASE Consume(u)
  <2>1. rem'[u] = topic
    BY <1>3 DEF Consume, TypeOK
  <2>2. topic[k][i] \in LoggedEvents(k) /\ rem'[u][k][i] = topic[k][i]
    BY <2>1 DEF LoggedEvents
  <2> QED
    BY <1>1, <2>2 DEF NoSeqReuse
<1>4. ASSUME NEW l \in Keys, ReplaySkip(u, l) \/ ReplayExpired(u, l) \/ ReplayApply(u, l)
      PROVE  e = rem'[u][k][i]
  <2>1. AtEvent(u, l) /\ Pop(u, l) /\ Replaying(u)
    BY <1>4 DEF ReplaySkip, ReplayExpired, ReplayApply, AtEvent, Replaying
  <2>2. PICK j \in 1 .. Len(rem[u][k]) : rem'[u][k][i] = rem[u][k][j]
    BY <2>1, Popped
  <2> QED
    BY <1>1, <2>1, <2>2 DEF RemainingInv
<1> QED
  BY <1>2, <1>3, <1>4, ReplayingBefore

\* A deadline in time stays so as the clock goes on.
LEMMA InTimeLater ==
    ASSUME TypeOK, TypeOK', NEW t \in InitThreads, rnow'[t] = rnow[t], now <= now',
           NEW e \in Event, NEW deadline, InTime(t, e, deadline)
    PROVE  InTime(t, e, deadline)'
<1>1. now \in Nat /\ now' \in Nat /\ rnow[t] \in Nat /\ EventDeadline(e) \in Int
  BY DEF TypeOK, EventDeadline, Event
<1> QED
  BY <1>1 DEF InTime, EventDeadline

LEMMA ClockGoesOn == ASSUME TypeOK, [Next]_vars PROVE now <= now' /\ now' \in Nat
<1>t. now \in Nat
  BY DEF TypeOK
<1>1. now' = now \/ now' = now + 1
  <2> USE DEF replayVars
  <2>1. ASSUME NEW t \in Threads, ClientCall(t) \/ OperationStep(t) PROVE now' = now
    <3>1. ClientCall(t) => now' = now
      BY DEF ClientCall
    <3>2. OperationStep(t) => now' = now
      BY DEF OperationStep, set, get, pttl, del, expire, persist, Read, NothingElse,
             LogRefused, next_seq, produce_cache_event
    <3> QED
      BY <2>1, <3>1, <3>2
  <2>2. ASSUME NEW t \in InitThreads, InitCall(t) \/ InitStep(t) PROVE now' = now
    BY <2>2 DEF InitCall, InitStep, InitEmplace, InitConstruct, InitEnter, ReplayStep, Consume,
                ConsumeTimeout, ReplaySkip, ReplayExpired, ReplayApply, ReplayDone, InitReady
  <2>3. CASE Crash \/ KafkaStep \/ UNCHANGED vars \/ Tick
    BY <2>3 DEF Crash, KafkaStep, Deliver, Redeliver, DeliveryFails, Compact, vars, Tick
  <2> QED
    BY <2>1, <2>2, <2>3 DEF Next, Quiet
<1> QED
  BY <1>t, <1>1

LEMMA ApplyingNext ==
    ASSUME SafeConfig, TypeOK, TypeOK', SeqParts, PhaseInv', RequestsWellAsked, ClockInv,
           RemainingInv, ApplyingInv, [Next]_vars
    PROVE  ApplyingInv'
<1> USE DEF SeqParts
<1> SUFFICES ASSUME NEW u \in InitThreads, op'[u].replay,
                    NEW e \in LoggedEvents(op[u].key)', e.seq = last'[u][op'[u].key]
             PROVE  Applies(u, op[u], e)'
  BY DEF ApplyingInv
<1>t. /\ u \in Threads /\ op \in [Threads -> Operation] /\ op'[u].key \in Keys
      /\ last \in [InitThreads -> [Keys -> Nat]] /\ \A t \in InitThreads : t = u
  BY CacheAssumption DEF TypeOK, Operation, SafeConfig
<1>1. Replaying(u)'
  BY <1>t DEF PhaseInv, Replaying
<1>2. e \in LoggedEvents(op'[u].key)
  BY <1>1, <1>t, ReplayingShrinks DEF LogShrinks
<1>e. e \in Event
  BY <1>2, <1>t, LoggedType
<1>3. ASSUME NEW k \in Keys, ReplayApply(u, k), op'[u] # op[u] PROVE Applies(u, op[u], e)'
  <2> DEFINE n == NextEvent(u, k)
  <2>1. op'[u] = ReplayCall(u, k, n) /\ last'[u][k] = n.seq
    BY <1>3, <1>t DEF ReplayApply, StartCall, Applied
  <2>2. n \in Event /\ ~ExpiredInDowntime(u, n)
    BY <1>3, NextEventType DEF ReplayApply
  <2>3. op'[u].key = k /\ Applies(u, op'[u], n)
    BY <2>1, <2>2, ReplayCallApplies
  <2>4. AtEvent(u, k) /\ Pop(u, k) /\ Replaying(u)
    BY <1>3 DEF ReplayApply, AtEvent, Replaying
  <2>5. 1 \in 1 .. Len(rem[u][k]) /\ n = rem[u][k][1]
    BY <2>4, Popped
  <2> HIDE DEF n
  <2>6. e = n
    BY <1>2, <2>1, <2>3, <2>4, <2>5 DEF RemainingInv
  <2>7. UNCHANGED <<now, rnow>>
    BY <1>3 DEF ReplayApply
  <2> QED
    BY <2>3, <2>6, <2>7 DEF Applies, InTime
<1>4. ASSUME op'[u] = op[u], UNCHANGED <<last, rnow>> PROVE Applies(u, op[u], e)'
  <2>1. Applies(u, op[u], e)
    BY <1>2, <1>4 DEF ApplyingInv
  <2>2. InTime(u, e, op[u].expires_at) => InTime(u, e, op[u].expires_at)'
    BY <1>4, <1>e, InTimeLater, ClockGoesOn
  <2> QED
    BY <1>4, <2>1, <2>2 DEF Applies
<1>5. op'[u] = op[u] \/ (\E k \in Keys : ReplayApply(u, k))
  <2> USE DEF cacheVars, Goto
  <2>1. ASSUME NEW t \in Threads, ClientCall(t) PROVE op'[u] = op[u]
    <3>1. PICK o \in Operation : ~o.replay /\ op' = [op EXCEPT ![t] = o]
      BY <2>1, RequestType
    <3> QED
      BY <3>1, <1>t
  <2>2. ASSUME NEW t \in Threads, OperationStep(t) PROVE op'[u] = op[u]
    <3>1. op'[t] \in {op[t], NoOp}
      BY <2>2, <1>t, OperationEffect
      DEF Writes, Answers, Return, LogRefused, LogSkipped, LogThrows, next_seq, produce_cache_event
    <3>2. CASE u = t
      BY <3>1, <3>2, NoOpReplay
    <3>3. CASE u # t
      BY <2>2, <3>3, <1>t, OtherThreads
    <3> QED
      BY <3>2, <3>3
  <2>3. ASSUME NEW t \in InitThreads, InitCall(t) \/ InitStep(t), \A k \in Keys : ~ReplayApply(t, k)
        PROVE  op' = op
    BY <2>3 DEF InitCall, InitStep, InitEmplace, InitConstruct, InitEnter, ReplayStep, Consume,
                ConsumeTimeout, ReplaySkip, ReplayExpired, ReplayDone, InitReady
  <2>4. CASE Crash
    BY <2>4, <1>t, NoOpReplay DEF Crash
  <2>5. CASE KafkaStep \/ Tick \/ UNCHANGED vars
    BY <2>5 DEF KafkaStep, Deliver, Redeliver, DeliveryFails, Compact, Tick, vars
  <2> QED
    BY <2>1, <2>2, <2>3, <2>4, <2>5, <1>t DEF Next, Quiet
<1>6. op'[u] = op[u] => UNCHANGED <<last, rnow>>
  <2> SUFFICES ASSUME op'[u] = op[u] PROVE UNCHANGED <<last, rnow>>
    OBVIOUS
  <2>1. pc[u] \in {"call", "log"}
    BY <1>t DEF PhaseInv
  <2> QED
    BY <2>1, <1>1, ReplayingBefore DEF Consume, ReplaySkip, ReplayExpired, ReplayApply, AtEvent
<1> QED
  BY <1>3, <1>4, <1>5, <1>6

-----------------------------------------------------------------------------
(* What is restored stays restored *)

\* Without the lock of a key its entry stays, or goes when it is dead.
EntryKept(k) == map'[k] = map[k] \/ (~Live(map[k]) /\ map'[k] = Absent)

\* A deadline that says that an entry is expired.
LEMMA DescribedLater ==
    ASSUME TypeOK, NEW k \in Keys, EntryKept(k), NEW e \in Event, Describes(e, map[k])
    PROVE  Describes(e, map'[k])
<1>1. CASE map'[k] = map[k]
  BY <1>1
<1>2. CASE map[k] # Absent /\ is_expired(map[k]) /\ map'[k] = Absent
  <2>1. has_ttl(map[k])
    BY <1>2 DEF is_expired, has_ttl
  <2>2. HasDeadline(e)
    BY <1>2, <2>1 DEF Describes
  <2> QED
    BY <1>2, <2>2 DEF Describes
<1> QED
  BY <1>1, <1>2 DEF EntryKept, Live

LEMMA RestoredLater ==
    ASSUME TypeOK, TypeOK', NEW t \in InitThreads, NEW k \in Keys, EntryKept(k),
           rnow'[t] = rnow[t], now <= now', NEW e \in Event, Restored(t, e, map[k])
    PROVE  Restored(t, e, map[k])'
<1>1. Describes(e, map'[k])
  BY DescribedLater DEF Restored
<1>t. now \in Nat /\ now' \in Nat /\ rnow[t] \in Nat /\ EventDeadline(e) \in Int /\ map[k] \in Entry
  <2>1. now \in Nat /\ now' \in Nat /\ rnow[t] \in Nat /\ map[k] \in Entry
    BY DEF TypeOK
  <2>2. EventDeadline(e) \in Int
    BY DEF EventDeadline, Event
  <2> QED
    BY <2>1, <2>2
<1>2. ASSUME HasDeadline(e)
      PROVE  IF map'[k] = Absent THEN now' > EventDeadline(e) ELSE InTime(t, e, map[k].expires_at)'
  <2>1. CASE map[k] = Absent
    BY <1>2, <1>t, <2>1 DEF Restored, EntryKept
  <2>2. CASE map[k] # Absent /\ map'[k] = map[k]
    <3>1. InTime(t, e, map[k].expires_at)
      BY <1>2, <2>2 DEF Restored
    <3>2. map[k].expires_at \in EventDeadline(e) .. EventDeadline(e) + (now - rnow[t])
      BY <3>1 DEF InTime
    <3>3. map[k].expires_at \in EventDeadline(e) .. EventDeadline(e) + (now' - rnow[t])
      BY <1>t, <3>2
    <3> QED
      BY <2>2, <3>3 DEF InTime, EventDeadline
  <2>3. CASE map[k] # Absent /\ is_expired(map[k]) /\ map'[k] = Absent
    <3>1. InTime(t, e, map[k].expires_at) /\ now > map[k].expires_at
      BY <1>2, <2>3 DEF Restored, is_expired
    <3> QED
      BY <1>t, <2>3, <3>1 DEF InTime
  <2> QED
    BY <2>1, <2>2, <2>3 DEF EntryKept, Live
<1> QED
  BY <1>1, <1>2 DEF Restored, Describes, HasDeadline, EventDeadline, has_ttl, Absent

LEMMA SettledLater ==
    ASSUME TypeOK, TypeOK', NEW t \in InitThreads, NEW k \in Keys, NEW n,
           LoggedEvents(k)' \subseteq LoggedEvents(k), EntryKept(k),
           rnow'[t] = rnow[t], now <= now', Settled(t, k, n)
    PROVE  Settled(t, k, n)'
<1> SUFFICES ASSUME NEW e \in LoggedEvents(k)', e.seq = n
             PROVE  ExpiredInDowntime(t, e)' \/ Restored(t, e, map[k])'
  BY DEF Settled
<1>1. e \in LoggedEvents(k) /\ e \in Event
  BY LoggedType
<1>2. CASE ExpiredInDowntime(t, e)
  BY <1>2 DEF ExpiredInDowntime, HasDeadline, EventDeadline
<1>3. CASE Restored(t, e, map[k])
  BY <1>1, <1>3, RestoredLater
<1> QED
  BY <1>1, <1>2, <1>3 DEF Settled

\* A key stays settled when a step moves neither the replay nor the newest
\* number, and no client has written it.
LEMMA SettledFrame ==
    ASSUME TypeOK, TypeOK', SettledInv, NEW t \in InitThreads, NEW k \in Keys,
           LoggedEvents(k)' \subseteq LoggedEvents(k), now <= now', rnow'[t] = rnow[t],
           last'[t][k] = last[t][k], seq'[k] = seq[k],
           Untouched(k)' => Untouched(k) /\ EntryKept(k),
           Replaying(t)' /\ ~Calling(t, k)' => Replaying(t) /\ ~Calling(t, k),
           pc'[t] = "ready" => pc[t] = "ready"
    PROVE  SettledKey(t, k)'
<1> SUFFICES ASSUME Untouched(k)'
             PROVE  /\ Replaying(t)' /\ ~Calling(t, k)' => Settled(t, k, last[t][k])'
                    /\ pc'[t] = "ready" => Settled(t, k, seq[k])'
  BY DEF SettledKey
<1>1. Untouched(k) /\ EntryKept(k) /\ SettledKey(t, k)
  BY DEF SettledInv
<1>2. Settled(t, k, last[t][k]) => Settled(t, k, last[t][k])'
  <2> DEFINE n == last[t][k]
  <2>1. n' = n
    OBVIOUS
  <2> HIDE DEF n
  <2>2. Settled(t, k, n) => Settled(t, k, n)'
    BY <1>1, <2>1, SettledLater DEF Settled
  <2> QED
    BY <2>2 DEF n
<1>3. Settled(t, k, seq[k]) => Settled(t, k, seq[k])'
  <2> DEFINE n == seq[k]
  <2>1. n' = n
    OBVIOUS
  <2> HIDE DEF n
  <2>2. Settled(t, k, n) => Settled(t, k, n)'
    BY <1>1, <2>1, SettledLater DEF Settled
  <2> QED
    BY <2>2 DEF n
<1> QED
  BY <1>1, <1>2, <1>3 DEF SettledKey

\* The call of the replay that has come to its end has settled its key.
LEMMA CallSettles ==
    ASSUME TypeOK, EventsWellLogged, ApplyingInv, NEW t \in InitThreads, op[t].replay, NEW k \in Keys, op[t].key = k,
           \/ op[t].kind # "set" /\ (op[t].kind = "del" => map[k] = Absent)
           \/ Wrote(op[t], map[k])
    PROVE  Settled(t, k, last[t][k])
<1> SUFFICES ASSUME NEW e \in LoggedEvents(k), e.seq = last[t][k]
             PROVE  Restored(t, e, map[k])
  BY DEF Settled
<1>1. Applies(t, op[t], e)
  BY DEF ApplyingInv
<1>t. now \in Nat /\ rnow[t] \in Nat /\ (HasDeadline(e) => EventDeadline(e) \in Nat)
  <2>1. e \in Event /\ WellLogged(e)
    BY LoggedType DEF EventsWellLogged
  <2>2. e.timestamp \in Nat /\ e.ttl_ms \in Nat \cup {NoTTL}
    BY <2>1 DEF Event
  <2>3. HasDeadline(e) => e.ttl_ms \in Nat
    BY <2>1, <2>2 DEF HasDeadline, WellLogged
  <2> QED
    BY <2>2, <2>3 DEF TypeOK, EventDeadline
<1>2. CASE e.type = "DELETE"
  <2>1. op[t].kind = "del"
    BY <1>1, <1>2 DEF Applies
  <2>2. map[k] = Absent
    BY <2>1 DEF Wrote
  <2>3. ~HasDeadline(e)
    BY <1>2 DEF HasDeadline
  <2> QED
    BY <1>2, <2>2, <2>3 DEF Restored, Describes
<1>3. CASE e.type # "DELETE"
  <2>1. op[t].kind = "set" /\ op[t].value = e.value
    BY <1>1, <1>3 DEF Applies
  <2>2. map[k] = [value |-> op[t].value, expires_at |-> op[t].expires_at]
    BY <2>1 DEF Wrote
  <2>3. map[k].value = e.value /\ map[k].expires_at = op[t].expires_at
    BY <2>1, <2>2
  <2>4. CASE HasDeadline(e)
    <3>1. InTime(t, e, map[k].expires_at)
      BY <1>1, <2>3, <2>4 DEF Applies
    <3>2. has_ttl(map[k])
      BY <1>t, <2>4, <3>1 DEF InTime, has_ttl
    <3>3. map[k] # Absent
      BY <3>2 DEF Absent, has_ttl
    <3> QED
      BY <1>3, <2>3, <2>4, <3>1, <3>2, <3>3 DEF Restored, Describes
  <2>5. CASE ~HasDeadline(e)
    <3>1. ~has_ttl(map[k])
      BY <1>1, <2>3, <2>5 DEF Applies, has_ttl
    <3> QED
      BY <1>3, <2>3, <2>5, <3>1 DEF Restored, Describes
  <2> QED
    BY <2>4, <2>5
<1> QED
  BY <1>2, <1>3

\* A key that no thread is writing was so before a command's step, unless the
\* step is the end of a write to it; and its entry is kept.
LEMMA UntouchedOperation ==
    ASSUME TypeOK, RequestsWellAsked, NEW t \in Threads, OperationStep(t), NEW k \in Keys,
           Untouched(k)', LogRefused(t) \/ produce_cache_event(t) => op[t].key # k
    PROVE  Untouched(k) /\ EntryKept(k)
<1>t. /\ map \in [Keys -> Entry] /\ lock \in [Keys -> Threads \cup {NoThread}]
      /\ op[t].key \in Keys
  BY DEF TypeOK, Operation
<1>1. ASSUME NEW e \in Entry, Writes(t, e), OnlyMap PROVE Untouched(k) /\ EntryKept(k)
  <2>1. op[t].key # k
    BY <1>1, <1>t, CacheAssumption DEF Writes, Untouched
  <2> QED
    BY <1>1, <2>1, <1>t DEF Writes, OnlyMap, Untouched, EntryKept
<1>2. CASE Answers(t) /\ OnlyMap
  BY <1>2, <1>t DEF Answers, Leaves, Clears, OnlyMap, Untouched, EntryKept
<1>3. CASE LogRefused(t)
  BY <1>3, <1>t DEF LogRefused, LogSkipped, LogThrows, Unlock, Untouched, EntryKept
<1>4. CASE next_seq(t)
  BY <1>4 DEF next_seq, cacheVars, Untouched, EntryKept
<1>5. CASE produce_cache_event(t)
  BY <1>5, <1>t DEF produce_cache_event, Unlock, Untouched, EntryKept
<1> QED
  BY <1>1, <1>2, <1>3, <1>4, <1>5, OperationEffect

\* The other steps of a running process leave map and lock alone.
LEMMA UntouchedFrame ==
    ASSUME NEW k \in Keys, Untouched(k)',
           \/ \E t \in Threads : ClientCall(t)
           \/ \E t \in InitThreads : InitCall(t) \/ InitStep(t)
           \/ KafkaStep \/ Tick \/ UNCHANGED vars
    PROVE  Untouched(k) /\ EntryKept(k)
<1>1. UNCHANGED <<map, lock, unlogged>>
  <2> USE DEF cacheVars
  <2>1. ASSUME NEW t \in Threads, ClientCall(t) PROVE UNCHANGED <<map, lock, unlogged>>
    BY <2>1 DEF ClientCall
  <2>2. ASSUME NEW t \in InitThreads, InitCall(t) \/ InitStep(t)
        PROVE  UNCHANGED <<map, lock, unlogged>>
    BY <2>2
    DEF InitCall, InitStep, InitEmplace, InitConstruct, InitEnter, ReplayStep, Consume, ConsumeTimeout,
        ReplaySkip, ReplayExpired, ReplayApply, ReplayDone, InitReady
  <2>3. CASE KafkaStep \/ Tick \/ UNCHANGED vars
    BY <2>3 DEF KafkaStep, Deliver, Redeliver, DeliveryFails, Compact, Tick, vars
  <2> QED
    BY <2>1, <2>2, <2>3
<1> QED
  BY <1>1 DEF Untouched, EntryKept

\* The commands of the workers.
LEMMA SettledOperation ==
    ASSUME SafeConfig, TypeOK, TypeOK', SeqParts, PhaseInv', RequestsWellAsked, WrittenInv,
           EventsWellLogged, ApplyingInv, SettledInv, [Next]_vars, NEW u \in Threads, OperationStep(u),
           NEW t \in InitThreads, NEW k \in Keys
    PROVE  SettledKey(t, k)'
<1> USE DEF SeqParts
<1>t. /\ t \in Threads /\ op \in [Threads -> Operation] /\ op[u].key \in Keys
      /\ pc \in [Threads -> {"idle"} \cup CallPcs \cup InitPcs]
      /\ last \in [InitThreads -> [Keys -> Nat]]
  BY CacheAssumption DEF TypeOK, Operation
<1>c. now <= now'
  BY ClockGoesOn
<1>o. u # t => pc'[t] = pc[t] /\ op'[t] = op[t]
  BY <1>t, OtherThreads
<1>1. CASE produce_cache_event(u)
  <2>1. state' = "READY"
    BY <1>1, ProducedEvent
  <2>2. ~Replaying(t)' /\ pc'[t] # "ready"
    BY <2>1 DEF PhaseInv
  <2> QED
    BY <2>2 DEF SettledKey
<1>2. ASSUME ~produce_cache_event(u)
      PROVE  /\ UNCHANGED <<last, rnow, seq>> /\ LoggedEvents(k)' \subseteq LoggedEvents(k)
             /\ pc'[t] = "ready" => pc[t] = "ready"
  <2>1. UNCHANGED <<last, rnow, seq, queue, topic>>
    BY <1>2, OperationSkeleton, OperationEffect DEF OnlyMap, LogRefused, next_seq, replayVars, cacheVars, kafkaVars
  <2>2. pc'[t] = "ready" => pc[t] = "ready"
    BY <1>t, <1>o, <1>2, OperationEffect
    DEF Writes, Answers, Return, LogRefused, LogSkipped, LogThrows, next_seq
  <2> QED
    BY <2>1, <2>2, LogUnchanged DEF LogShrinks
<1>3. ASSUME ~produce_cache_event(u), Untouched(k)' => Untouched(k) /\ EntryKept(k),
             Replaying(t)' /\ ~Calling(t, k)' => Replaying(t) /\ ~Calling(t, k)
      PROVE  SettledKey(t, k)'
  BY <1>c, <1>2, <1>3, SettledFrame
<1>4. ASSUME ~produce_cache_event(u), op[t].replay, op[t].key = k, EntryKept(k), Untouched(k)',
             pc[t] # "ready", Settled(t, k, last[t][k])
      PROVE  SettledKey(t, k)'
  <2> DEFINE n == last[t][k]
  <2>1. n' = n
    BY <1>2, <1>4
  <2> HIDE DEF n
  <2>2. Settled(t, k, n) => Settled(t, k, n)'
    BY <1>c, <1>2, <1>4, <2>1, SettledLater DEF Settled
  <2>3. Settled(t, k, last[t][k])'
    BY <1>4, <2>1, <2>2 DEF n, Settled
  <2> QED
    BY <1>2, <1>4, <2>3 DEF SettledKey
<1>5. CASE op[t].replay /\ op[t].key = k /\ u = t /\ Untouched(k)' /\ Answers(t) /\ OnlyMap
  <2>1. EntryKept(k) /\ (op[t].kind = "del" => map[k] = Absent) /\ op[t].kind # "set" /\ pc[t] # "ready"
    BY <1>5, <1>t DEF Answers, Leaves, Clears, EntryKept, TypeOK
  <2>2. ~produce_cache_event(u)
    BY <1>5 DEF Answers, produce_cache_event
  <2> QED
    BY <1>4, <1>5, <2>1, <2>2, CallSettles
<1>6. CASE op[t].replay /\ op[t].key = k /\ u = t /\ Untouched(k)' /\ LogRefused(t)
  <2>1. EntryKept(k) /\ Wrote(op[t], map[k]) /\ pc[t] # "ready" /\ ~produce_cache_event(u)
    BY <1>6, <1>t DEF LogRefused, EntryKept, WrittenInv, produce_cache_event
  <2> QED
    BY <1>4, <1>6, <2>1, CallSettles
<1>7. CASE ~Untouched(k)'
  BY <1>7 DEF SettledKey
<1>8. CASE LogRefused(u) /\ op[u].key = k /\ ~op[u].replay
  <2>1. k \in unlogged'
    BY <1>8 DEF LogRefused, LogSkipped, LogThrows
  <2> QED
    BY <2>1, <1>7 DEF Untouched
<1>9. ASSUME ~produce_cache_event(u), Untouched(k)', ~(LogRefused(u) /\ op[u].key = k),
             ~(u = t /\ op[t].replay /\ op[t].key = k /\ Answers(t) /\ OnlyMap)
      PROVE  SettledKey(t, k)'
  <2>1. Untouched(k) /\ EntryKept(k)
    BY <1>9, UntouchedOperation
  <2>2. CASE u # t
    BY <1>3, <1>9, <1>o, <2>1, <2>2 DEF Replaying, Calling
  <2>3. CASE u = t
    <3>1. Replaying(t)' /\ ~Calling(t, k)' => Replaying(t) /\ ~Calling(t, k)
      BY <1>9, <1>t, <2>3, NoOpReplay, OperationEffect
      DEF Writes, Answers, Return, LogRefused, LogSkipped, LogThrows, next_seq, cacheVars, Replaying, Calling
    <3> QED
      BY <1>3, <1>9, <2>1, <3>1
  <2> QED
    BY <2>2, <2>3
<1>r. op[u].replay => u = t
  BY DEF PhaseInv, SafeConfig
<1> QED
  BY <1>1, <1>5, <1>6, <1>7, <1>8, <1>9, <1>r

\* The loop of the replay.
LEMMA SettledReplay ==
    ASSUME SafeConfig, TypeOK, TypeOK', SeqParts, PhaseInv', RequestsWellAsked, EventsWellLogged,
           EventsWellLogged', RemainingInv, SettledInv, [Next]_vars,
           NEW t \in InitThreads, ReplayStep(t), NEW k \in Keys
    PROVE  SettledKey(t, k)'
<1> USE DEF SeqParts
<1>t. /\ t \in Threads /\ pc \in [Threads -> {"idle"} \cup CallPcs \cup InitPcs]
      /\ last \in [InitThreads -> [Keys -> Nat]] /\ seq \in [Keys -> Nat]
      /\ op \in [Threads -> Operation]
  BY CacheAssumption DEF TypeOK
<1>c. now <= now'
  BY ClockGoesOn
<1>1. ASSUME UNCHANGED <<queue, topic, map, lock, unlogged>>
      PROVE  /\ LoggedEvents(k)' = LoggedEvents(k) /\ EntryKept(k)
             /\ Untouched(k)' => Untouched(k)
  BY <1>1 DEF LoggedEvents, EntryKept, Untouched
<1>2. UNCHANGED <<queue, topic, map, lock, unlogged>>
  BY DEF ReplayStep, Consume, ConsumeTimeout, ReplaySkip, ReplayExpired, ReplayApply, ReplayDone,
         cacheVars, kafkaVars
<1>3. CASE Consume(t)
  <2>1. last'[t][k] = 0 /\ pc'[t] = "replay"
    BY <1>3, <1>t DEF Consume, Goto
  <2>2. \A e \in LoggedEvents(k)' : e.seq # 0
    BY DEF EventsWellLogged, WellLogged
  <2>3. Settled(t, k, last[t][k])'
    BY <2>1, <2>2 DEF Settled
  <2> QED
    BY <2>1, <2>3 DEF SettledKey
<1>4. CASE ConsumeTimeout(t)
  BY <1>4, <1>t DEF ConsumeTimeout, ReplayFails, Goto, SettledKey, Replaying
<1>5. ASSUME NEW l \in Keys, AtEvent(t, l), Pop(t, l), UNCHANGED <<seq, rnow, now>>, last'[t][k] = last[t][k],
             Replaying(t)' => ~Calling(t, k), pc'[t] # "ready"
      PROVE  SettledKey(t, k)'
  <2>1. Replaying(t)
    BY <1>5 DEF AtEvent, Replaying
  <2> QED
    BY <1>1, <1>2, <1>c, <1>5, <2>1, SettledFrame
<1>6. ASSUME NEW l \in Keys, ReplaySkip(t, l) PROVE SettledKey(t, k)'
  <2>1. AtEvent(t, l) /\ Pop(t, l) /\ UNCHANGED <<seq, rnow, now, last, pc>>
    BY <1>6 DEF ReplaySkip, cacheVars
  <2>2. ~Calling(t, k) /\ pc[t] # "ready"
    BY <1>t, <2>1 DEF AtEvent, Calling, PhaseInv
  <2> QED
    BY <1>5, <1>6, <2>1, <2>2 DEF ReplaySkip
<1>7. ASSUME NEW l \in Keys, ReplayExpired(t, l) \/ ReplayApply(t, l), l # k
      PROVE  SettledKey(t, k)'
  <2>1. AtEvent(t, l) /\ Pop(t, l) /\ UNCHANGED <<seq, rnow, now>>
    BY <1>7 DEF ReplayExpired, ReplayApply, cacheVars
  <2>2. last'[t][k] = last[t][k]
    BY <1>7, <1>t DEF ReplayExpired, ReplayApply, Applied
  <2>3. ~Calling(t, k)
    BY <1>t, <2>1 DEF AtEvent, Calling, PhaseInv
  <2>4. pc'[t] # "ready"
    BY <1>7, <1>t DEF ReplayExpired, ReplayApply, AtEvent, Goto, ReplayFails
  <2> QED
    BY <1>5, <2>1, <2>2, <2>3, <2>4
<1>8. CASE ReplayExpired(t, k)
  <2> DEFINE n == NextEvent(t, k)
  <2>1. last'[t][k] = n.seq /\ ExpiredInDowntime(t, n) /\ Replaying(t) /\ AtEvent(t, k) /\ Pop(t, k)
    BY <1>8, <1>t DEF ReplayExpired, Applied, AtEvent, Replaying
  <2>2. n = rem[t][k][1] /\ 1 \in 1 .. Len(rem[t][k])
    BY <2>1, Popped
  <2> HIDE DEF n
  <2>3. \A e \in LoggedEvents(k) : e.seq = n.seq => e = n
    BY <2>1, <2>2 DEF RemainingInv
  <2>4. rnow' = rnow /\ pc'[t] # "ready"
    BY <1>8 DEF ReplayExpired, AtEvent
  <2>5. ASSUME NEW e \in LoggedEvents(k)', e.seq = last'[t][k] PROVE ExpiredInDowntime(t, e)'
    <3>1. e = n
      BY <1>1, <1>2, <2>1, <2>3, <2>5
    <3> QED
      BY <2>1, <2>4, <3>1 DEF ExpiredInDowntime, HasDeadline, EventDeadline
  <2>6. Settled(t, k, last[t][k])'
    BY <2>5 DEF Settled
  <2> QED
    BY <2>4, <2>6 DEF SettledKey
<1>9. CASE ReplayApply(t, k)
  <2>1. CASE StartCall(t, ReplayCall(t, k, NextEvent(t, k))) /\ Goto(t, "call")
    <3>1. op'[t].replay /\ op'[t].key = k /\ pc'[t] = "call"
      BY <2>1, <1>t DEF StartCall, Goto, ReplayCall, Call
    <3> QED
      BY <3>1 DEF SettledKey, Calling
  <2>2. CASE ReplayFails(t) /\ op' = op
    BY <2>2, <1>t DEF ReplayFails, Goto, SettledKey, Replaying
  <2> QED
    BY <1>9, <2>1, <2>2 DEF ReplayApply
<1>10. CASE ReplayDone(t)
  <2>1. rem[t][k] = <<>> /\ Replaying(t) /\ ~Calling(t, k) /\ pc'[t] = "ready" /\ op' = op
    BY <1>10, <1>t DEF ReplayDone, Replaying, Calling, PhaseInv, Goto
  <2>2. seq'[k] = IF last[t][k] = 0 THEN seq[k] ELSE last[t][k]
    <3>1. logger
      BY <2>1 DEF PhaseInv
    <3> QED
      BY <1>10, <3>1 DEF ReplayDone, set_seq_counters
  <2>3. UNCHANGED <<last, rnow>>
    BY <1>10 DEF ReplayDone, replayVars
  <2>4. \A e \in LoggedEvents(k) : e.seq <= last[t][k]
    <3>1. state = "REPLAYING"
      BY <2>1 DEF PhaseInv
    <3>2. queue[k] = {}
      BY <3>1 DEF QueueInv
    <3>3. \A i \in 1 .. Len(topic[k]) : topic[k][i].seq <= last[t][k]
      BY <2>1 DEF ReplayInv
    <3> QED
      BY <3>2, <3>3 DEF LoggedEvents
  <2>5. CASE last[t][k] = 0
    <3>1. LoggedEvents(k) = {}
      <4>1. \A e \in LoggedEvents(k) : e.seq \in Nat /\ e.seq # 0
        BY LoggedType DEF Event, EventsWellLogged, WellLogged
      <4> QED
        BY <2>4, <2>5, <4>1
    <3>2. LoggedEvents(k)' = {}
      BY <1>1, <1>2, <3>1
    <3> QED
      BY <3>2 DEF SettledKey, Settled
  <2>6. ASSUME last[t][k] # 0, Untouched(k)' PROVE Settled(t, k, seq[k])'
    <3> DEFINE n == last[t][k]
    <3>1. n' = n /\ seq'[k] = n
      BY <2>2, <2>3, <2>6
    <3>2. Settled(t, k, n)
      BY <1>1, <1>2, <2>1, <2>6 DEF SettledInv, SettledKey
    <3> HIDE DEF n
    <3>3. Settled(t, k, n)'
      BY <1>1, <1>2, <1>c, <2>3, <3>1, <3>2, SettledLater
    <3> QED
      BY <3>1, <3>3 DEF Settled
  <2>7. ~Replaying(t)'
    BY <2>1 DEF Replaying
  <2> QED
    BY <2>5, <2>6, <2>7 DEF SettledKey
<1> QED
  BY <1>3, <1>4, <1>6, <1>7, <1>8, <1>9, <1>10 DEF ReplayStep

LEMMA SettledNext ==
    ASSUME SafeConfig, TypeOK, TypeOK', SeqParts, PhaseInv', RequestsWellAsked, WrittenInv,
           EventsWellLogged, EventsWellLogged', RemainingInv, ApplyingInv, SettledInv, [Next]_vars
    PROVE  SettledInv'
<1> USE DEF SeqParts
<1> SUFFICES ASSUME NEW t \in InitThreads, NEW k \in Keys PROVE SettledKey(t, k)'
  BY DEF SettledInv
<1>t. /\ t \in Threads /\ pc \in [Threads -> {"idle"} \cup CallPcs \cup InitPcs]
      /\ op \in [Threads -> Operation] /\ \A u \in InitThreads : u = t
  BY CacheAssumption DEF TypeOK, SafeConfig
<1>c. now <= now'
  BY ClockGoesOn
<1>f. ASSUME LogShrinks, Untouched(k)' => Untouched(k) /\ EntryKept(k), UNCHANGED <<seq, last, rnow>>,
             Replaying(t)' /\ ~Calling(t, k)' => Replaying(t) /\ ~Calling(t, k),
             pc'[t] = "ready" => pc[t] = "ready"
      PROVE  SettledKey(t, k)'
  BY <1>c, <1>f, SettledFrame DEF LogShrinks
<1>1. ASSUME NEW u \in Threads, ClientCall(u) PROVE SettledKey(t, k)'
  <2>1. PICK o \in Operation : ~o.replay /\ op' = [op EXCEPT ![u] = o]
    BY <1>1, RequestType
  <2>2. pc' = [pc EXCEPT ![u] = "call"] /\ UNCHANGED <<seq, last, rnow, queue, topic>>
    BY <1>1 DEF ClientCall, cacheVars, kafkaVars, replayVars
  <2>3. u # t => pc'[t] = pc[t] /\ op'[t] = op[t]
    BY <2>1, <2>2, <1>t
  <2>4. u = t => pc'[t] = "call" /\ ~op'[t].replay
    BY <2>1, <2>2, <1>t
  <2>5. Untouched(k)' => Untouched(k) /\ EntryKept(k)
    BY <1>1, UntouchedFrame
  <2> QED
    BY <1>f, <2>2, <2>3, <2>4, <2>5, LogUnchanged DEF Replaying, Calling
<1>2. ASSUME NEW u \in Threads, OperationStep(u) PROVE SettledKey(t, k)'
  BY <1>2, SettledOperation
<1>3. CASE ReplayStep(t)
  BY <1>3, SettledReplay
<1>4. CASE InitCall(t) \/ InitEmplace(t) \/ InitConstruct(t) \/ InitEnter(t) \/ InitReady(t)
  <2>1. ~Replaying(t)' /\ pc'[t] # "ready"
    BY <1>4, <1>t
    DEF InitCall, InitEmplace, InitConstruct, InitEnter, InitReady, Goto, Replaying
  <2> QED
    BY <2>1 DEF SettledKey
<1>5. CASE Crash
  BY <1>5, <1>t DEF Crash, SettledKey, Replaying
<1>6. CASE KafkaStep \/ Tick \/ UNCHANGED vars
  <2>1. UNCHANGED <<pc, op, seq, last, rnow>>
    BY <1>6 DEF KafkaStep, Deliver, Redeliver, DeliveryFails, Compact, Tick, vars, cacheVars, replayVars
  <2>2. LogShrinks
    <3>1. KafkaStep => LogShrinks
      BY TopicStep DEF LogShrinks, LoggedEvents
    <3>2. Tick \/ UNCHANGED vars => LogShrinks
      BY LogUnchanged DEF Tick, vars, kafkaVars
    <3> QED
      BY <1>6, <3>1, <3>2
  <2>3. Untouched(k)' => Untouched(k) /\ EntryKept(k)
    BY <1>6, UntouchedFrame
  <2> QED
    BY <1>f, <2>1, <2>2, <2>3 DEF Replaying, Calling
<1> QED
  BY <1>1, <1>2, <1>3, <1>4, <1>5, <1>6, <1>t DEF Next, Quiet, InitStep

-----------------------------------------------------------------------------
(* The log agrees with the cache *)

\* The event of a logged change describes the entry that it leaves.
LEMMA NewEventDescribes ==
    ASSUME TypeOK, NEW t \in Threads, WellAsked(op[t]), Wrote(op[t], map[op[t].key])
    PROVE  Describes(NewEvent(t), map[op[t].key])
<1> DEFINE k == op[t].key
           n == NewEvent(t)
<1>1. /\ n.type = EventType(op[t].kind) /\ n.ttl_ms = op[t].ttl_ms /\ n.value = map[k].value
      /\ op[t].ttl_ms \in Nat \cup {NoTTL}
  BY DEF NewEvent, TypeOK, Operation
<1> HIDE DEF n
<1>2. CASE op[t].kind = "set"
  <2>1. n.type = "SET" /\ (HasDeadline(n) <=> op[t].ttl_ms > 0)
    BY <1>1, <1>2 DEF EventType, HasDeadline
  <2>2. has_ttl(map[k]) <=> op[t].ttl_ms # NoTTL
    BY <1>2 DEF Wrote, has_ttl, WellAsked
  <2>3. op[t].ttl_ms > 0 <=> op[t].ttl_ms # NoTTL
    BY <1>1, <1>2 DEF WellAsked
  <2> QED
    BY <1>1, <2>1, <2>2, <2>3 DEF Describes, n
<1>3. CASE op[t].kind = "del"
  BY <1>1, <1>3 DEF EventType, Wrote, Describes, n
<1>4. CASE op[t].kind = "expire"
  BY <1>1, <1>4 DEF EventType, HasDeadline, Wrote, Describes, n
<1>5. CASE op[t].kind = "persist"
  BY <1>1, <1>5 DEF EventType, HasDeadline, Wrote, Describes, n
<1> QED
  BY <1>2, <1>3, <1>4, <1>5 DEF Wrote

LEMMA AgreesNext ==
    ASSUME SafeConfig, TypeOK, TypeOK', SeqParts, RequestsWellAsked, WrittenInv, ClockInv', SettledInv',
           LogAgrees, [Next]_vars
    PROVE  LogAgrees'
<1> USE DEF SeqParts
<1> SUFFICES ASSUME Counting', NEW k \in Keys, NEW e \in LoggedEvents(k)', Untouched(k)',
                    e.seq = seq'[k], StillLive(e)'
             PROVE  Describes(e, map'[k])
  BY DEF LogAgrees, Describes, HasDeadline, has_ttl
<1>t. /\ pc \in [Threads -> {"idle"} \cup CallPcs \cup InitPcs] /\ seq \in [Keys -> Nat]
      /\ InitThreads \subseteq Threads
  BY CacheAssumption DEF TypeOK
<1>c. now <= now' /\ now \in Nat /\ now' \in Nat
  BY ClockGoesOn DEF TypeOK
<1>f. ASSUME Counting, LoggedEvents(k)' \subseteq LoggedEvents(k), seq'[k] = seq[k],
             Untouched(k) /\ EntryKept(k)
      PROVE  Describes(e, map'[k])
  <2>1. e \in LoggedEvents(k) /\ e \in Event
    BY <1>f, LoggedType
  <2>2. StillLive(e)
    <3>1. EventDeadline(e) \in Int
      BY <2>1 DEF EventDeadline, Event
    <3>2. HasDeadline(e) => EventDeadline(e) > now'
      BY DEF StillLive, HasDeadline, EventDeadline
    <3> QED
      BY <1>c, <3>1, <3>2 DEF StillLive
  <2>3. Describes(e, map[k])
    BY <1>f, <2>1, <2>2 DEF LogAgrees
  <2> QED
    BY <1>f, <2>1, <2>3, DescribedLater
<1>1. ASSUME NEW t \in Threads, ClientCall(t) PROVE Describes(e, map'[k])
  <2>1. UNCHANGED <<state, seq, queue, topic>> /\ Untouched(k) /\ EntryKept(k)
    BY <1>1, UntouchedFrame DEF ClientCall, cacheVars, kafkaVars
  <2> QED
    BY <1>f, <2>1, LogUnchanged DEF LogShrinks, Counting
<1>2. ASSUME NEW t \in Threads, OperationStep(t) PROVE Describes(e, map'[k])
  <2>1. CASE produce_cache_event(t)
    <3>1. Counting
      BY <2>1, ProducedEvent DEF Counting
    <3>2. CASE op[t].key = k
      <4>1. e.seq = seq[k] + 1
        BY <1>t, <2>1, <3>2, ProducedEvent
      <4>2. \A f \in LoggedEvents(k) : f.seq \in Nat /\ f.seq <= seq[k]
        BY <3>1, LoggedType DEF SeqCoversLog, Event
      <4>3. e \notin LoggedEvents(k)
        BY <1>t, <4>1, <4>2
      <4>4. e = NewEvent(t)
        BY <2>1, <3>2, <4>3, ProducedEvent
      <4>5. map' = map /\ Wrote(op[t], map[k]) /\ WellAsked(op[t])
        BY <2>1, <3>2 DEF produce_cache_event, WrittenInv, RequestsWellAsked
      <4> QED
        BY <3>2, <4>4, <4>5, NewEventDescribes
    <3>3. CASE op[t].key # k
      <4>1. seq'[k] = seq[k] /\ LoggedEvents(k)' \subseteq LoggedEvents(k)
        BY <1>t, <2>1, <3>3, ProducedEvent
      <4> QED
        BY <1>2, <1>f, <3>1, <3>3, <4>1, UntouchedOperation
    <3> QED
      BY <3>2, <3>3
  <2>2. CASE LogRefused(t)
    <3>1. LogSkipped(t)
      BY <2>2 DEF LogRefused, LogThrows, LoggingOn, PhaseInv
    <3>2. UNCHANGED <<state, seq, queue, topic>>
      BY <2>2, <3>1 DEF LogRefused, LogSkipped, kafkaVars
    <3>3. CASE op[t].key = k
      <4>1. op[t].replay
        BY <3>1, <3>3 DEF LogSkipped, Untouched
      <4>2. state = "REPLAYING"
        BY <2>2, <4>1 DEF LogRefused, PhaseInv, Replaying
      <4> QED
        BY <3>2, <4>2 DEF Counting
    <3>4. CASE op[t].key # k
      <4>1. ~produce_cache_event(t)
        BY <2>2 DEF LogRefused, produce_cache_event
      <4>2. Untouched(k) /\ EntryKept(k)
        BY <1>2, <3>4, UntouchedOperation
      <4> QED
        BY <1>f, <3>2, <4>2, LogUnchanged DEF LogShrinks, Counting
    <3> QED
      BY <3>3, <3>4
  <2>3. CASE ~produce_cache_event(t) /\ ~LogRefused(t)
    <3>1. UNCHANGED <<state, seq, queue, topic>>
      BY <1>2, <2>3, OperationEffect DEF OnlyMap, next_seq, cacheVars, kafkaVars
    <3>2. Untouched(k) /\ EntryKept(k)
      BY <1>2, <2>3, UntouchedOperation
    <3> QED
      BY <1>f, <3>1, <3>2, LogUnchanged DEF LogShrinks, Counting
  <2> QED
    BY <2>1, <2>2, <2>3
<1>3. ASSUME NEW t \in InitThreads, ReplayDone(t) PROVE Describes(e, map'[k])
  <2>1. pc'[t] = "ready"
    BY <1>3, <1>t DEF ReplayDone, Goto
  <2>2. Settled(t, k, seq[k])'
    BY <2>1 DEF SettledInv, SettledKey
  <2>3. ExpiredInDowntime(t, e)' \/ Restored(t, e, map[k])'
    BY <2>2 DEF Settled
  <2>4. ~ExpiredInDowntime(t, e)'
    <3>1. e \in Event
      BY <1>3, LoggedType, LogUnchanged DEF ReplayDone, LogShrinks, kafkaVars
    <3>2. EventDeadline(e) \in Int /\ rnow'[t] \in Nat /\ rnow'[t] <= now'
      <4>1. EventDeadline(e) \in Int
        BY <3>1 DEF EventDeadline, Event
      <4>2. rnow'[t] \in Nat
        BY <1>3 DEF TypeOK
      <4>3. rnow'[t] <= now'
        BY <1>3 DEF ClockInv
      <4> QED
        BY <4>1, <4>2, <4>3
    <3>3. HasDeadline(e) => EventDeadline(e) > now'
      BY DEF StillLive, HasDeadline, EventDeadline
    <3> QED
      BY <1>c, <3>2, <3>3 DEF ExpiredInDowntime, HasDeadline, EventDeadline
  <2> QED
    BY <2>3, <2>4 DEF Restored, Describes, HasDeadline, has_ttl
<1>4. ASSUME NEW t \in InitThreads, InitCall(t) \/ InitStep(t), ~ReplayDone(t)
      PROVE  Describes(e, map'[k])
  <2>1. Counting /\ UNCHANGED <<seq, queue, topic>>
    BY <1>4
    DEF InitCall, InitStep, InitEmplace, InitConstruct, InitEnter, ReplayStep, Consume, ConsumeTimeout,
        ReplaySkip, ReplayExpired, ReplayApply, AtEvent, InitReady, ReplayFails, cacheVars, kafkaVars,
        Counting, PhaseInv, Replaying
  <2> QED
    BY <1>4, <1>f, <2>1, UntouchedFrame, LogUnchanged DEF LogShrinks
<1>5. ~Crash
  BY DEF Crash, Counting
<1>6. CASE KafkaStep \/ Tick \/ UNCHANGED vars
  <2>1. UNCHANGED <<state, seq>>
    BY <1>6 DEF KafkaStep, Deliver, Redeliver, DeliveryFails, Compact, Tick, vars, cacheVars
  <2>2. LoggedEvents(k)' \subseteq LoggedEvents(k)
    <3>1. KafkaStep => LoggedEvents(k)' \subseteq LoggedEvents(k)
      BY TopicStep DEF LoggedEvents
    <3>2. Tick \/ UNCHANGED vars => LoggedEvents(k)' \subseteq LoggedEvents(k)
      BY LogUnchanged DEF Tick, vars, kafkaVars, LogShrinks
    <3> QED
      BY <1>6, <3>1, <3>2
  <2>3. Untouched(k) /\ EntryKept(k)
    BY <1>6, UntouchedFrame
  <2> QED
    BY <1>f, <2>1, <2>2, <2>3 DEF Counting
<1> QED
  BY <1>1, <1>2, <1>3, <1>4, <1>5, <1>6 DEF Next, Quiet, InitStep, ReplayStep

-----------------------------------------------------------------------------
(* The theorems *)

\* What a request, an event and a step of the replay hand on to each other.
AgreeParts ==
    /\ RequestsWellAsked /\ WrittenInv /\ EventsWellLogged /\ RemainingInv /\ ClockInv
    /\ ApplyingInv /\ SettledInv /\ LogAgrees

LEMMA AgreeInit == ASSUME Init PROVE AgreeParts
<1>1. /\ \A t \in Threads : pc[t] = "idle" /\ op[t] = NoOp
      /\ InitThreads \subseteq Threads
      /\ \A t \in InitThreads : rnow[t] = 0
  BY CacheAssumption DEF Init
<1>2. \A k \in Keys : LoggedEvents(k) = {}
  BY DEF Init, LoggedEvents
<1>3. RequestsWellAsked /\ WrittenInv /\ ClockInv
  BY <1>1, NoOpWellAsked DEF RequestsWellAsked, WrittenInv, ClockInv, Init
<1>4. EventsWellLogged /\ RemainingInv /\ LogAgrees
  BY <1>2 DEF EventsWellLogged, RemainingInv, LogAgrees
<1>5. ApplyingInv /\ SettledInv
  BY <1>1, <1>2, NoOpReplay DEF ApplyingInv, SettledInv, SettledKey, Replaying
<1> QED
  BY <1>3, <1>4, <1>5 DEF AgreeParts

LEMMA AgreeNext ==
    ASSUME SafeConfig, TypeOK, SeqParts, AgreeParts, [Next]_vars
    PROVE  AgreeParts'
<1> USE DEF SeqParts, AgreeParts
<1>1. TypeOK' /\ SeqParts'
  BY TypeNext, SeqPartsNext
<1>2. RequestsWellAsked' /\ ClockInv' /\ WrittenInv' /\ EventsWellLogged' /\ RemainingInv'
  BY <1>1, RequestsNext, ClockNext, WrittenNext, EventsNext, RemainingNext
<1>3. ApplyingInv' /\ SettledInv'
  BY <1>1, <1>2, ApplyingNext, SettledNext
<1>4. LogAgrees'
  BY <1>1, <1>2, <1>3, AgreesNext
<1> QED
  BY <1>2, <1>3, <1>4

\* The inductive invariant: every link of the chain from a command to its entry
\* and its event, and from an event through the replay to its entry, holds in
\* every reachable state.
THEOREM AgreementInvariant == SafeConfig => (Spec => [](SeqParts /\ AgreeParts))
<1> SUFFICES ASSUME SafeConfig PROVE Spec => [](SeqParts /\ AgreeParts)
  OBVIOUS
<1>1. Init => SeqParts /\ AgreeParts
  BY SeqInit, AgreeInit
<1>2. TypeOK /\ SeqParts /\ AgreeParts /\ [Next]_vars => (SeqParts /\ AgreeParts)'
  BY SeqPartsNext, AgreeNext
<1> QED
  BY <1>1, <1>2, TypeCorrect, PTL DEF Spec

\* With one client that sends INIT, always with replay: as long as the cache is
\* in use, the newest event that Kafka still has of a key describes the key's
\* entry, however the clients' commands, late or repeated deliveries, crashes
\* and replays have interleaved.
THEOREM LogAgreesWithCache == SafeConfig => (Spec => []LogAgrees)
<1> SUFFICES ASSUME SafeConfig PROVE Spec => []LogAgrees
  OBVIOUS
<1>1. SeqParts /\ AgreeParts => LogAgrees
  BY DEF AgreeParts
<1> QED
  BY <1>1, AgreementInvariant, PTL

\* The end of a replay, where every key is settled up to its newest event.
LEMMA SettledAtTheEnd == ASSUME SettledInv PROVE TTLsResume
<1> SUFFICES ASSUME NEW t \in InitThreads, pc[t] = "ready", NEW k \in Keys,
                    NEW e \in LoggedEvents(k), Untouched(k), e.seq = seq[k], HasDeadline(e),
                    ~ExpiredInDowntime(t, e)
             PROVE  IF map[k] = Absent THEN now > EventDeadline(e)
                                       ELSE InTime(t, e, map[k].expires_at)
  BY DEF TTLsResume, InTime
<1>1. Settled(t, k, seq[k])
  BY DEF SettledInv, SettledKey
<1> QED
  BY <1>1 DEF Settled, Restored

\* Under the same assumption a replay resumes the deadlines of the log: it is
\* late by no more than the time since it read the clock, and it never starts a
\* TTL again nor drops a key whose deadline is still to come.
THEOREM DeadlinesResume == SafeConfig => (Spec => []TTLsResume)
<1> SUFFICES ASSUME SafeConfig PROVE Spec => []TTLsResume
  OBVIOUS
<1>1. SeqParts /\ AgreeParts => TTLsResume
  BY SettledAtTheEnd DEF AgreeParts
<1> QED
  BY <1>1, AgreementInvariant, PTL
=============================================================================
