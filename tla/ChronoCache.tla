----------------------------- MODULE ChronoCache -----------------------------
(***************************************************************************)
(* The cache object shared by all workers: the key/value operations, their *)
(* event log, the lifecycle that INIT drives and the replay of the log     *)
(* after a restart (cache/chrono_cache.cpp, cache/kafka_logging).          *)
(*                                                                         *)
(* A thread is a worker: it runs one command at a time.  Every operation   *)
(* first checks the lifecycle state without a lock, then works under the   *)
(* lock of its key's slice, where it changes the map and, still holding    *)
(* the lock, logs the change.  The steps of a thread are the points where  *)
(* another thread can get in between.  A slice's lock is modelled as one   *)
(* lock per key, which allows every interleaving the real slices allow.    *)
(*                                                                         *)
(* Kafka is external: the producer's queue, the topic (one sequence per    *)
(* key, since a key always goes to the same partition) and what may happen *)
(* to a message on the way, as far as the code's configuration leaves it   *)
(* open: late, reordered or repeated delivery, loss, and compaction.       *)
(***************************************************************************)
EXTENDS Integers, Sequences

CONSTANTS
    Threads,      \* worker threads
    InitThreads,  \* the threads whose clients may send INIT
    Keys, Values,
    NoValue,      \* the empty string of a DELETE event, and no entry at all
    NoThread,     \* the owner of a free lock
    TTLs,         \* the TTLs a client may ask for, in clock ticks
    ReplayModes,  \* the arguments of INIT: TRUE is "INIT true"
    EventLogging, \* FALSE is disable_event_logging
    MaxTime, MaxCalls, MaxCrashes, MaxTopic  \* bounds of the model

ASSUME CacheAssumption ==
    /\ Keys # {}
    /\ NoValue \notin Values
    /\ NoThread \notin Threads
    /\ InitThreads \subseteq Threads
    /\ TTLs \subseteq Nat \ {0}
    /\ ReplayModes \subseteq BOOLEAN
    /\ EventLogging \in BOOLEAN
    /\ MaxTime \in Nat /\ MaxCalls \in Nat /\ MaxCrashes \in Nat /\ MaxTopic \in Nat

VARIABLES
    state,       \* ChronoCacheState
    map,         \* the hash map: key -> entry, Absent when it has no node
    lock,        \* key -> the thread that holds the lock of its slice
    logger,      \* cache_event_logger.has_value()
    seq,         \* the logger's seq_counters
    queue,       \* external: produced events the broker does not have yet
    topic,       \* external: the records of a key in the topic, by offset
    now,         \* the system clock
    pc, op,      \* what each thread is at, and the operation it executes
    counter,     \* the sequence number a thread has read and not yet incremented
    with_replay, \* replay: the argument of this thread's INIT
    rem, last,   \* replay: the events still to apply, last_applied_seq
    rnow,        \* replay: now_ms, read once before the loop
    unlogged,    \* history: keys whose last client write was not logged
    calls, crashes

cacheVars  == <<state, map, lock, logger, seq>>
kafkaVars  == <<queue, topic>>
replayVars == <<with_replay, rem, last, rnow>>
boundVars  == <<calls, crashes>>
vars == <<state, map, lock, logger, seq, queue, topic, now, pc, op, counter,
          with_replay, rem, last, rnow, unlogged, calls, crashes>>

-----------------------------------------------------------------------------
(* Data *)

States == {"UNINITIALIZED", "REPLAYING", "REPLAY_FAILED", "REPLAY_SUCCESS", "READY"}
EventTypes == {"SET", "DELETE", "EXPIRE", "PERSIST"}
OpKinds == {"set", "get", "del", "expire", "persist", "pttl"}
NoTTL == -1

\* A cache entry.  A key without a node in the hash map is Absent.
Entry == [value : Values \cup {NoValue}, expires_at : Nat \cup {NoTTL}]
Absent == [value |-> NoValue, expires_at |-> NoTTL]

\* What the topic holds of one logged change.
Event == [type : EventTypes, value : Values \cup {NoValue},
          ttl_ms : Nat \cup {NoTTL}, seq : Nat, timestamp : Nat]

\* The operation a thread is executing; replay tells the calls that replay()
\* makes on the cache from those that serve a client.
Operation == [kind : OpKinds, key : Keys, value : Values \cup {NoValue},
              ttl_ms : Nat \cup {NoTTL}, expires_at : Nat \cup {NoTTL},
              replay : BOOLEAN]
Call(kind, k, v, ttl, deadline, replay) ==
    [kind |-> kind, key |-> k, value |-> v, ttl_ms |-> ttl, expires_at |-> deadline,
     replay |-> replay]
NoOp == Call("get", CHOOSE k \in Keys : TRUE, NoValue, NoTTL, NoTTL, FALSE)

CallPcs == {"call", "log", "incr"}
InitPcs == {"emplace", "construct", "enter", "consume", "replay", "ready"}

Deadline(ttl) == IF ttl = NoTTL THEN NoTTL ELSE now + ttl

is_expired(e) == e.expires_at # NoTTL /\ now > e.expires_at
Live(e) == e # Absent /\ ~is_expired(e)
has_ttl(e) == e.expires_at # NoTTL

is_accepting_ops == state \in {"READY", "REPLAYING"}

\* The two early answers of check_logging_allowed; it throws when logging is
\* on in READY and no logger exists.
LoggingOn == EventLogging /\ state = "READY"

-----------------------------------------------------------------------------
(* Calls.  ClientCall is the part before the lock: the state check, and for *)
(* SET the construction of the entry, which reads the clock.                *)

Init ==
    /\ state = "UNINITIALIZED"
    /\ map = [k \in Keys |-> Absent]
    /\ lock = [k \in Keys |-> NoThread]
    /\ logger = FALSE
    /\ seq = [k \in Keys |-> 0]
    /\ queue = [k \in Keys |-> {}]
    /\ topic = [k \in Keys |-> <<>>]
    /\ now = 0
    /\ pc = [t \in Threads |-> "idle"]
    /\ op = [t \in Threads |-> NoOp]
    /\ counter = [t \in Threads |-> 0]
    /\ with_replay = [t \in InitThreads |-> FALSE]
    /\ rem = [t \in InitThreads |-> [k \in Keys |-> <<>>]]
    /\ last = [t \in InitThreads |-> [k \in Keys |-> 0]]
    /\ rnow = [t \in InitThreads |-> 0]
    /\ unlogged = {}
    /\ calls = 0
    /\ crashes = 0

StartCall(t, o) == op' = [op EXCEPT ![t] = o]

\* A client asks for an operation: a value and an optional TTL for SET, a TTL
\* for EXPIRE (the command handler refuses TTLs that are not positive).
ClientCall(t) ==
    /\ pc[t] = "idle"
    /\ calls < MaxCalls
    /\ is_accepting_ops
    /\ \E k \in Keys :
         \/ \E v \in Values, ttl \in TTLs \cup {NoTTL} :
                StartCall(t, Call("set", k, v, ttl, Deadline(ttl), FALSE))
         \/ \E ttl \in TTLs : StartCall(t, Call("expire", k, NoValue, ttl, NoTTL, FALSE))
         \/ \E kind \in {"get", "del", "persist", "pttl"} :
                StartCall(t, Call(kind, k, NoValue, NoTTL, NoTTL, FALSE))
    /\ pc' = [pc EXCEPT ![t] = "call"]
    /\ calls' = calls + 1
    /\ UNCHANGED <<cacheVars, kafkaVars, now, counter, replayVars, unlogged, crashes>>

-----------------------------------------------------------------------------
(* The locked part of the operations. *)

CanLock(t, kind) ==
    /\ pc[t] = "call"
    /\ op[t].kind = kind
    /\ lock[op[t].key] = NoThread

\* Back to the client, or to the replay loop that made the call.
Return(t) ==
    /\ pc' = [pc EXCEPT ![t] = IF op[t].replay THEN "replay" ELSE "idle"]
    /\ op' = [op EXCEPT ![t] = NoOp]

\* Writes the entry and goes on to the logging callback under the lock.
WriteAndLog(t, e) ==
    /\ map' = [map EXCEPT ![op[t].key] = e]
    /\ lock' = [lock EXCEPT ![op[t].key] = t]
    /\ pc' = [pc EXCEPT ![t] = "log"]
    /\ UNCHANGED op

\* process_and_remove_if on a key that is absent (nothing to do) or expired
\* (the callback asks for its removal, which is not logged).
RemoveDead(t) ==
    /\ ~Live(map[op[t].key])
    /\ map' = [map EXCEPT ![op[t].key] = Absent]
    /\ Return(t)
    /\ UNCHANGED lock

NothingElse == UNCHANGED <<state, logger, seq, kafkaVars, now, counter, replayVars,
                           unlogged, boundVars>>

set(t) ==
    /\ CanLock(t, "set")
    /\ WriteAndLog(t, [value |-> op[t].value, expires_at |-> op[t].expires_at])
    /\ NothingElse

\* get and pttl change the map in the same way: an expired entry goes.
Read(t) ==
    /\ \/ RemoveDead(t)
       \/ /\ Live(map[op[t].key])
          /\ Return(t)
          /\ UNCHANGED <<map, lock>>
    /\ NothingElse

get(t) == CanLock(t, "get") /\ Read(t)

pttl(t) == CanLock(t, "pttl") /\ Read(t)

\* del removes and logs whatever node there is, expired or not.
del(t) ==
    /\ CanLock(t, "del")
    /\ \/ /\ map[op[t].key] = Absent
          /\ Return(t)
          /\ UNCHANGED <<map, lock>>
       \/ /\ map[op[t].key] # Absent
          /\ WriteAndLog(t, Absent)
    /\ NothingElse

expire(t) ==
    /\ CanLock(t, "expire")
    /\ \/ RemoveDead(t)
       \/ /\ Live(map[op[t].key])
          /\ WriteAndLog(t, [map[op[t].key] EXCEPT !.expires_at = Deadline(op[t].ttl_ms)])
    /\ NothingElse

persist(t) ==
    /\ CanLock(t, "persist")
    /\ \/ RemoveDead(t)
       \/ /\ Live(map[op[t].key])
          /\ ~has_ttl(map[op[t].key])
          /\ Return(t)
          /\ UNCHANGED <<map, lock>>
       \/ /\ Live(map[op[t].key])
          /\ has_ttl(map[op[t].key])
          /\ WriteAndLog(t, [map[op[t].key] EXCEPT !.expires_at = NoTTL])
    /\ NothingElse

-----------------------------------------------------------------------------
(* The logging callback.  The entry in the map is the one just written, so *)
(* it holds the value that goes into the event.                            *)

\* A name missing for one of the types.
EventTypeUnknown(kind) == CASE kind = "set" -> "SET" [] kind = "del" -> "DELETE"
                            [] kind = "expire" -> "EXPIRE" [] OTHER -> "UNKNOWN"

EventType(kind) == CASE kind = "set" -> "SET" [] kind = "del" -> "DELETE"
                     [] kind = "expire" -> "EXPIRE" [] OTHER -> "PERSIST"

NewEvent(t) ==
    [type |-> EventType(op[t].kind), value |-> map[op[t].key].value,
     ttl_ms |-> op[t].ttl_ms, seq |-> counter[t] + 1, timestamp |-> now]

Unlock(t) == lock' = [lock EXCEPT ![op[t].key] = NoThread]

LogSkipped(t) ==
    /\ ~LoggingOn
    /\ unlogged' = IF op[t].replay THEN unlogged ELSE unlogged \cup {op[t].key}
    /\ Return(t)
    /\ UNCHANGED state

\* The logic_error of check_logging_allowed reaches the client, or makes the
\* replay fail.
LogThrows(t) ==
    /\ LoggingOn /\ ~logger
    /\ unlogged' = unlogged \cup {op[t].key}
    /\ state' = IF op[t].replay THEN "REPLAY_FAILED" ELSE state
    /\ pc' = [pc EXCEPT ![t] = "idle"]
    /\ op' = [op EXCEPT ![t] = NoOp]

\* A way out of an operation that keeps its lock.
LogRefusedKeepsLock(t) ==
    /\ pc[t] = "log"
    /\ LogSkipped(t) \/ LogThrows(t)
    /\ UNCHANGED <<map, lock, logger, seq, kafkaVars, now, counter, replayVars, boundVars>>

LogRefused(t) ==
    /\ pc[t] = "log"
    /\ LogSkipped(t) \/ LogThrows(t)
    /\ Unlock(t)
    /\ UNCHANGED <<map, logger, seq, kafkaVars, now, counter, replayVars, boundVars>>

\* A sequence number read after the lock of the key's slice is released.
next_seq_unlocked(t) ==
    /\ pc[t] = "log"
    /\ LoggingOn /\ logger
    /\ counter' = [counter EXCEPT ![t] = seq[op[t].key]]
    /\ pc' = [pc EXCEPT ![t] = "incr"]
    /\ Unlock(t)
    /\ UNCHANGED <<state, map, logger, seq, kafkaVars, now, op, replayVars, unlogged, boundVars>>

\* next_seq finds the counter of the key and reads it; it has no lock of its own.
next_seq(t) ==
    /\ pc[t] = "log"
    /\ LoggingOn /\ logger
    /\ counter' = [counter EXCEPT ![t] = seq[op[t].key]]
    /\ pc' = [pc EXCEPT ![t] = "incr"]
    /\ UNCHANGED <<cacheVars, kafkaVars, now, op, replayVars, unlogged, boundVars>>

\* The increment and the call to the producer.  produce() may fail (the queue
\* is full): the code prints that and goes on.
produce_cache_event(t) ==
    /\ pc[t] = "incr"
    /\ seq' = [seq EXCEPT ![op[t].key] = counter[t] + 1]
    /\ \/ queue' = [queue EXCEPT ![op[t].key] = @ \cup {NewEvent(t)}]
       \/ UNCHANGED queue
    /\ unlogged' = unlogged \ {op[t].key}
    /\ counter' = [counter EXCEPT ![t] = 0]
    /\ Unlock(t) /\ Return(t)
    /\ UNCHANGED <<state, map, logger, topic, now, replayVars, boundVars>>

-----------------------------------------------------------------------------
(* INIT and the replay.  A thread's INIT is a chain of steps over pc. *)

Goto(t, label) == pc' = [pc EXCEPT ![t] = label]

InitCall(t) ==
    /\ pc[t] = "idle"
    /\ \/ /\ state = "UNINITIALIZED"
          /\ \E r \in ReplayModes : with_replay' = [with_replay EXCEPT ![t] = r]
          /\ Goto(t, "emplace")
       \/ /\ state # "UNINITIALIZED"  \* answers OK when READY, else an error
          /\ UNCHANGED <<pc, with_replay>>
    /\ UNCHANGED <<cacheVars, kafkaVars, now, counter, op, rem, last, rnow, unlogged, boundVars>>

\* emplace destroys the logger that is there, if any, with what its producer
\* could not flush in time ...
InitEmplace(t) ==
    /\ pc[t] = "emplace"
    /\ IF EventLogging
       THEN /\ logger' = FALSE
            /\ queue' = [k \in Keys |-> {}]
            /\ Goto(t, "construct")
       ELSE /\ Goto(t, "enter")
            /\ UNCHANGED <<logger, queue>>
    /\ UNCHANGED <<state, map, lock, seq, topic, now, counter, op, replayVars, unlogged, boundVars>>

\* ... and constructs a new one, whose counters start at 0.
InitConstruct(t) ==
    /\ pc[t] = "construct"
    /\ logger' = TRUE
    /\ seq' = [k \in Keys |-> 0]
    /\ Goto(t, "enter")
    /\ UNCHANGED <<state, map, lock, kafkaVars, now, counter, op, replayVars, unlogged, boundVars>>

InitEnter(t) ==
    /\ pc[t] = "enter"
    /\ IF with_replay[t]
       THEN state' = "REPLAYING" /\ Goto(t, "consume")
       ELSE state' = "READY" /\ Goto(t, "idle")
    /\ UNCHANGED <<map, lock, logger, seq, kafkaVars, now, counter, op, replayVars, unlogged, boundVars>>

\* consume_all_events reads every partition up to its end; then the clock is
\* read, once for the whole loop.
Consume(t) ==
    /\ pc[t] = "consume"
    /\ rem' = [rem EXCEPT ![t] = topic]
    /\ last' = [last EXCEPT ![t] = [k \in Keys |-> 0]]
    /\ rnow' = [rnow EXCEPT ![t] = now]
    /\ Goto(t, "replay")
    /\ UNCHANGED <<cacheVars, kafkaVars, now, counter, op, with_replay, unlogged, boundVars>>

ReplayFails(t) == state' = "REPLAY_FAILED" /\ Goto(t, "idle")

\* Three timeouts in a row: the exception leaves the cache REPLAY_FAILED.
ConsumeTimeout(t) ==
    /\ pc[t] = "consume"
    /\ ReplayFails(t)
    /\ UNCHANGED <<map, lock, logger, seq, kafkaVars, now, counter, op, replayVars, unlogged, boundVars>>

\* The loop takes the next event of some key: partitions are interleaved.
NextEvent(t, k) == Head(rem[t][k])
AtEvent(t, k) == pc[t] = "replay" /\ rem[t][k] # <<>>
Pop(t, k) == rem' = [rem EXCEPT ![t][k] = Tail(@)]

IsStale(t, k) == last[t][k] >= NextEvent(t, k).seq
Applied(t, k) == last' = [last EXCEPT ![t][k] = NextEvent(t, k).seq]

ReplaySkip(t, k) ==
    /\ AtEvent(t, k)
    /\ IsStale(t, k)
    /\ Pop(t, k)
    /\ UNCHANGED <<cacheVars, kafkaVars, now, counter, pc, op, with_replay, last, rnow, unlogged, boundVars>>

HasDeadline(e) == e.type = "EXPIRE" \/ (e.type = "SET" /\ e.ttl_ms > 0)
EventDeadline(e) == e.timestamp + e.ttl_ms
ExpiredInDowntime(t, e) == HasDeadline(e) /\ EventDeadline(e) <= rnow[t]

ReplayExpired(t, k) ==
    /\ AtEvent(t, k)
    /\ ~IsStale(t, k)
    /\ ExpiredInDowntime(t, NextEvent(t, k))
    /\ Pop(t, k) /\ Applied(t, k)
    /\ UNCHANGED <<cacheVars, kafkaVars, now, counter, pc, op, with_replay, rnow, unlogged, boundVars>>

\* A replay that starts the whole TTL again.
ReplayCallFullTTL(t, k, e) ==
    LET ttl == IF HasDeadline(e) THEN e.ttl_ms ELSE NoTTL
    IN  Call(IF e.type = "DELETE" THEN "del" ELSE "set", k, e.value, ttl,
             Deadline(ttl), TRUE)

\* A replay that applies an EXPIRE like a PERSIST.
ReplayCallDropsExpire(t, k, e) ==
    LET ttl == IF e.type = "SET" /\ HasDeadline(e) THEN EventDeadline(e) - rnow[t] ELSE NoTTL
    IN  Call(IF e.type = "DELETE" THEN "del" ELSE "set", k, e.value, ttl,
             Deadline(ttl), TRUE)

\* The call that applies an event: del, or set with the TTL that is left.
ReplayCall(t, k, e) ==
    LET ttl == IF HasDeadline(e) THEN EventDeadline(e) - rnow[t] ELSE NoTTL
    IN  Call(IF e.type = "DELETE" THEN "del" ELSE "set", k, e.value, ttl,
             Deadline(ttl), TRUE)

ReplayApply(t, k) ==
    /\ AtEvent(t, k)
    /\ ~IsStale(t, k)
    /\ ~ExpiredInDowntime(t, NextEvent(t, k))
    /\ Pop(t, k) /\ Applied(t, k)
    /\ \/ /\ is_accepting_ops
          /\ StartCall(t, ReplayCall(t, k, NextEvent(t, k)))
          /\ Goto(t, "call")
          /\ UNCHANGED state
       \/ /\ ~is_accepting_ops  \* check_accepting_ops throws
          /\ ReplayFails(t)
          /\ UNCHANGED op
    /\ UNCHANGED <<map, lock, logger, seq, kafkaVars, now, counter, with_replay, rnow, unlogged, boundVars>>

set_seq_counters(t) ==
    seq' = IF logger THEN [k \in Keys |-> IF last[t][k] = 0 THEN seq[k] ELSE last[t][k]] ELSE seq

\* A replay that forgets to hand its counters to the logger.
ReplayDoneNoCounters(t) ==
    /\ pc[t] = "replay"
    /\ \A k \in Keys : rem[t][k] = <<>>
    /\ state' = "REPLAY_SUCCESS"
    /\ Goto(t, "ready")
    /\ UNCHANGED <<map, lock, logger, seq, kafkaVars, now, counter, op, replayVars, unlogged, boundVars>>

ReplayDone(t) ==
    /\ pc[t] = "replay"
    /\ \A k \in Keys : rem[t][k] = <<>>
    /\ set_seq_counters(t)
    /\ state' = "REPLAY_SUCCESS"
    /\ Goto(t, "ready")
    /\ UNCHANGED <<map, lock, logger, kafkaVars, now, counter, op, replayVars, unlogged, boundVars>>

InitReady(t) ==
    /\ pc[t] = "ready"
    /\ state' = IF state = "REPLAY_SUCCESS" THEN "READY" ELSE state
    /\ Goto(t, "idle")
    /\ UNCHANGED <<map, lock, logger, seq, kafkaVars, now, counter, op, replayVars, unlogged, boundVars>>

-----------------------------------------------------------------------------
(* The environment: Kafka, the clock, and the end of the process. *)

\* A queued message reaches the topic, in any order: nothing in the producer's
\* configuration orders a retried message before its successors.
Deliver(k, e) ==
    /\ Len(topic[k]) < MaxTopic
    /\ topic' = [topic EXCEPT ![k] = Append(@, e)]
    /\ queue' = [queue EXCEPT ![k] = @ \ {e}]
    /\ UNCHANGED <<cacheVars, now, counter, pc, op, replayVars, unlogged, boundVars>>

\* The acknowledgement is lost: the message will be sent again.
Redeliver(k, e) ==
    /\ Len(topic[k]) < MaxTopic
    /\ topic' = [topic EXCEPT ![k] = Append(@, e)]
    /\ UNCHANGED <<cacheVars, queue, now, counter, pc, op, replayVars, unlogged, boundVars>>

\* The producer gives up; no delivery report callback is installed.
DeliveryFails(k, e) ==
    /\ queue' = [queue EXCEPT ![k] = @ \ {e}]
    /\ UNCHANGED <<cacheVars, topic, now, counter, pc, op, replayVars, unlogged, boundVars>>

\* cleanup.policy=compact: a record goes once the key has a later one.
Compact(k, i) ==
    /\ topic' = [topic EXCEPT ![k] =
                   [j \in 1 .. Len(@) - 1 |-> IF j < i THEN @[j] ELSE @[j + 1]]]
    /\ UNCHANGED <<cacheVars, queue, now, counter, pc, op, replayVars, unlogged, boundVars>>

Tick ==
    /\ now < MaxTime
    /\ now' = now + 1
    /\ UNCHANGED <<cacheVars, kafkaVars, pc, op, counter, replayVars, unlogged, boundVars>>

\* The process ends, at any point, and is started again.  What the producer
\* still has in its queue is gone; a clean exit flushes, which is a Crash after
\* the deliveries.
Crash ==
    /\ crashes < MaxCrashes
    /\ crashes' = crashes + 1
    /\ state' = "UNINITIALIZED"
    /\ map' = [k \in Keys |-> Absent]
    /\ lock' = [k \in Keys |-> NoThread]
    /\ logger' = FALSE
    /\ seq' = [k \in Keys |-> 0]
    /\ queue' = [k \in Keys |-> {}]
    /\ pc' = [t \in Threads |-> "idle"]
    /\ op' = [t \in Threads |-> NoOp]
    /\ counter' = [t \in Threads |-> 0]
    /\ with_replay' = [t \in InitThreads |-> FALSE]
    /\ rem' = [t \in InitThreads |-> [k \in Keys |-> <<>>]]
    /\ last' = [t \in InitThreads |-> [k \in Keys |-> 0]]
    /\ rnow' = [t \in InitThreads |-> 0]
    /\ unlogged' = {}
    /\ UNCHANGED <<topic, now, calls>>

-----------------------------------------------------------------------------
OperationStep(t) ==
    \/ set(t) \/ get(t) \/ pttl(t) \/ del(t) \/ expire(t) \/ persist(t)
    \/ LogRefused(t) \/ next_seq(t) \/ produce_cache_event(t)

ReplayStep(t) ==
    \/ Consume(t) \/ ConsumeTimeout(t)
    \/ \E k \in Keys : ReplaySkip(t, k) \/ ReplayExpired(t, k) \/ ReplayApply(t, k)
    \/ ReplayDone(t)

InitStep(t) ==
    \/ InitEmplace(t) \/ InitConstruct(t) \/ InitEnter(t) \/ ReplayStep(t) \/ InitReady(t)

KafkaStep ==
    \E k \in Keys :
        \/ \E e \in queue[k] : Deliver(k, e) \/ Redeliver(k, e) \/ DeliveryFails(k, e)
        \/ \E i \in 1 .. Len(topic[k]) - 1 : Compact(k, i)

\* Nothing is running: the bounded model may stop here, and only here.
Quiet == (\A t \in Threads : pc[t] = "idle") /\ UNCHANGED vars

Next ==
    \/ \E t \in Threads : ClientCall(t) \/ OperationStep(t)
    \/ \E t \in InitThreads : InitCall(t) \/ InitStep(t)
    \/ KafkaStep \/ Tick \/ Crash \/ Quiet

Spec == Init /\ [][Next]_vars

\* A worker that has started a command keeps executing it; clients, Kafka and
\* the clock owe nothing.
Fairness ==
    /\ \A t \in Threads : WF_vars(OperationStep(t))
    /\ \A t \in InitThreads : WF_vars(InitStep(t))

FairSpec == Spec /\ Fairness

-----------------------------------------------------------------------------
(* Properties *)

LoggedEvents(k) == queue[k] \cup {topic[k][i] : i \in 1 .. Len(topic[k])}

\* Every variable has its type, and a thread has an operation exactly while it
\* executes one.
TypeOK ==
    /\ state \in States
    /\ map \in [Keys -> Entry]
    /\ lock \in [Keys -> Threads \cup {NoThread}]
    /\ logger \in BOOLEAN
    /\ seq \in [Keys -> Nat]
    /\ queue \in [Keys -> SUBSET Event]
    /\ topic \in [Keys -> Seq(Event)]
    /\ now \in Nat
    /\ pc \in [Threads -> {"idle"} \cup CallPcs \cup InitPcs]
    /\ op \in [Threads -> Operation]
    /\ counter \in [Threads -> Nat]
    /\ with_replay \in [InitThreads -> BOOLEAN]
    /\ rem \in [InitThreads -> [Keys -> Seq(Event)]]
    /\ last \in [InitThreads -> [Keys -> Nat]]
    /\ rnow \in [InitThreads -> Nat]
    /\ unlogged \in SUBSET Keys
    /\ calls \in Nat
    /\ crashes \in Nat

\* The lifecycle state in which the counters of the logger are in use.
Counting == state \in {"READY", "REPLAY_SUCCESS"}

\* Once the replay is done, no event of a key in the topic or on its way there
\* has a sequence number above the key's counter: the next event of the key is
\* newer than every event a later replay can meet, in spite of crashes between
\* any two steps, lost messages and compaction (replay hands last_applied_seq
\* to set_seq_counters).
SeqCoversLog ==
    Counting => \A k \in Keys : \A e \in LoggedEvents(k) : e.seq <= seq[k]

\* Two different events of one key never carry the same sequence number: the
\* replay would apply one and skip the other by chance (next_seq increments
\* without a lock of its own, under the lock of the map's slice).
NoSeqReuse ==
    \A k \in Keys : \A e, f \in LoggedEvents(k) : e.seq = f.seq => e = f

\* The configuration in which the two hold: one thread sends INIT, always with
\* replay, and events are logged.
SafeConfig ==
    /\ \A t, u \in InitThreads : t = u
    /\ ReplayModes \subseteq {TRUE}
    /\ EventLogging

Replaying(t) ==
    pc[t] = "replay" \/ (pc[t] \in {"call", "log"} /\ op[t].replay)

\* A logging thread owns the lock of its key, and the counter it has read is
\* the current one.
LockInv ==
    \A t \in Threads :
        /\ pc[t] \in {"log", "incr"} => lock[op[t].key] = t
        /\ pc[t] = "incr" => counter[t] = seq[op[t].key] /\ state = "READY"

\* Where INIT is determines the lifecycle state.
PhaseInv ==
    /\ \A t \in Threads : pc[t] \in InitPcs \/ op[t].replay => t \in InitThreads
    /\ \A t \in Threads : op[t].replay => pc[t] \in {"call", "log"}
    /\ \A t \in InitThreads :
        /\ pc[t] \in {"emplace", "construct", "enter"} => state = "UNINITIALIZED" /\ with_replay[t]
        /\ pc[t] = "enter" => logger
        /\ pc[t] = "consume" \/ Replaying(t) => state = "REPLAYING"
        /\ pc[t] = "ready" => state = "REPLAY_SUCCESS"
    /\ state \in {"REPLAYING", "REPLAY_SUCCESS", "READY"} => logger

\* Only a READY cache has events on their way to the topic.
QueueInv == state # "READY" => \A k \in Keys : queue[k] = {}

\* During the replay an event of the topic has been counted in
\* last_applied_seq or is still to come.
ReplayInv ==
    \A t \in InitThreads : Replaying(t) =>
        \A k \in Keys : \A i \in 1 .. Len(topic[k]) :
            \/ topic[k][i].seq <= last[t][k]
            \/ \E j \in 1 .. Len(rem[t][k]) : rem[t][k][j] = topic[k][i]

\* What makes SeqCoversLog and NoSeqReuse inductive: the lock, the phases of
\* INIT and the progress of the replay.
SeqInv ==
    SafeConfig => LockInv /\ PhaseInv /\ QueueInv /\ ReplayInv /\ SeqCoversLog /\ NoSeqReuse

\* What an event says about its key at this moment.
StillLive(e) == HasDeadline(e) => EventDeadline(e) > now
Describes(e, entry) ==
    \/ entry = Absent /\ (e.type = "DELETE" \/ HasDeadline(e))
    \/ /\ e.type # "DELETE"
       /\ entry.value = e.value
       /\ has_ttl(entry) <=> HasDeadline(e)

Untouched(k) == lock[k] = NoThread /\ k \notin unlogged

\* While the cache is in use, the newest event of a key, if it has not been
\* lost and its deadline has not passed, describes the key's entry: every
\* logged change is in the log in the order it was applied, and a replay gives
\* back what the log says, whatever order Kafka delivered the events in.  Keys
\* written while events were not logged are exempt until their next logged write.
LogAgrees ==
    Counting => \A k \in Keys : \A e \in LoggedEvents(k) :
        Untouched(k) /\ e.seq = seq[k] /\ StillLive(e) => Describes(e, map[k])

\* A replay resumes the newest deadline of a key, it does not start the TTL
\* again: the deadline it puts in place is the logged one, late by no more than
\* the time since the replay read the clock (chrono_cache.cpp:166, :186); an
\* entry is missing only if that deadline has passed meanwhile.
TTLsResume ==
    \A t \in InitThreads : pc[t] = "ready" =>
        \A k \in Keys : \A e \in LoggedEvents(k) :
            Untouched(k) /\ e.seq = seq[k] /\ HasDeadline(e) /\ ~ExpiredInDowntime(t, e) =>
                IF map[k] = Absent THEN now > EventDeadline(e)
                ELSE map[k].expires_at \in EventDeadline(e) .. EventDeadline(e) + (now - rnow[t])

\* A key whose newest event had expired when the replay looked at it is not in
\* the cache at the end of the replay, unless a client has written it since.
ExpiredStaysGone ==
    \A t \in InitThreads : pc[t] = "ready" =>
        \A k \in Keys : \A e \in LoggedEvents(k) :
            Untouched(k) /\ e.seq = seq[k] /\ ExpiredInDowntime(t, e) => ~Live(map[k])

\* An operation accepted during the replay is kept: the replay does not replace
\* what a client wrote since the cache began to accept operations.
AcceptedWriteKept ==
    [][\A t \in InitThreads : \A k \in unlogged :
          pc[t] = "call" /\ op[t].replay /\ op[t].key = k /\ pc'[t] # "call"
              => (map'[k] = map[k] \/ crashes' # crashes)]_vars

\* Every INIT comes to an end, with the cache ready, failed or restarted, even
\* when clients hold and queue for the locks that the replay needs.
InitReturns == \A t \in InitThreads : pc[t] = "emplace" ~> pc[t] = "idle"

=============================================================================
