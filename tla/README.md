# TLA+ models of chrono-cache

chrono-cache is an in-memory key/value cache with TTLs, served over TCP (RESP)
by a set of worker threads, and rebuilt after a restart from an event log kept
in a Kafka topic. These modules model its concurrent and fault-tolerant parts
and the path of a call from the client to the cache and back,
check them with TLC on small instances and prove their safety properties, that
the hash map implements a map of atomic operations, that the trees of the sorted sets
give true ranks and that requests survive the wire, with TLAPS for all values of the
constants. Paths below are relative to
`src/src/cpp` unless they begin with `src/`.

## 1. The system

| Component | State it keeps | Operations | Talks to |
|---|---|---|---|
| Cache core (`cache/chrono_cache.cpp`, `cache_entry.h`, `cache_state.h`) | lifecycle `state`, the entries, the optional logger | `set get del expire persist pttl`, `init`, `replay` | hash map (callbacks under the slice lock), logger, consumer, clock |
| Event log (`cache/kafka_logging/`) | one sequence counter per key; librdkafka's queue | `log_*`, `next_seq`, `set_seq_counters`, `produce_cache_event`, `consume_all_events` | Kafka |
| Hash map (`cache/kv_store/`) | bucket chains, resize lock, slice locks, metrics | `set get get_ptr get_or_add remove process_and_remove_if`, `maybe_resize` | used by the cache, the logger and the sorted sets |
| Sorted sets (`cache/sorted_sets/`) | per key an AVL tree and a member map, one `mtx` | `zadd zscore zrem zrank` | hash map |
| Server lifecycle (`main.cpp`, `server/server.cpp`, `worker.cpp`, `socket_utils.cpp`) | workers, their threads, `running` flags, listening sockets | `start`, `wait`, `stop`, signal handlers | one event loop per worker; all share the cache |
| Event loop, connections (`server/event_loop.cpp`, `connection.h`) | `fd2conn`, buffers and wishes of each connection | poll round: accept, read, execute, write, close; shutdown | kernel sockets, command handler |
| Command handler (`server/request_handler/command_handler.cpp`) | none of its own | maps commands to calls of the cache | parser, serializer, cache |
| RESP (`server/request_handler/resp_*.cpp`) | none | parse, serialize | event loop |
| Python client (`src/src/python/`) | a socket with a timeout | `init ping get set delete expire persist pttl zadd zscore zrem zrank raw_request`, each one request and one reply | server |

How they interact. A worker's thread runs one event loop; the loop parses the
requests of its connections and executes each through the command handler as a
synchronous call of the cache. All workers share one cache. A call of the cache
checks `state` without a lock, then works under the lock of its key's slice in
the hash map; the logging callback runs under that lock and gives the event a
sequence number and hands it to the producer. `INIT` is a command like the
others: it constructs the logger and, with `INIT true`, replays the topic into
the same map while other workers' clients already use it.

What is hard here:

* concurrency: two levels of reader/writer locks with resizing; state checks
  and lifecycle transitions without locks; counters protected by the lock of
  another data structure; signal handlers at any moment;
* failure: process crashes between any two steps, Kafka messages lost, late,
  reordered or repeated, topic compaction, a full producer queue;
* ordering: sequence numbers across restarts, pipelined requests across partial
  reads and writes;
* time: deadlines that pass while the process is down; poll and consumer timeouts.

What makes each component correct:

* **Cache and event log**: sequence numbers of a key grow over crashes and
  replays and are never reused; what the log holds of the newest change agrees
  with the map; a replay brings back what the log says and nothing that had
  expired or was overwritten; every `INIT` ends.
* **Hash map**: it is a map with atomic operations; chains stay well formed; no
  two writers on one bucket; operations return although tables resize.
* **Server**: workers serve until told to stop; a signal ends the process;
  everything is closed at the end.
* **Event loop**: responses complete, in order and to the right client; nobody
  is left waiting; no connection is cut off before its answers; descriptors are
  given back; the loop's assertions hold.
* **Sorted sets**: the tree is balanced, its sizes give ranks, and it agrees
  with the member map.
* **RESP**: parsing inverts serialization and rejects the rest.
* **Python client**: an answer belongs to the request it is returned for, as long as
  no call has been given up; every call ends.

`PROJECT.json` lists the hazards line by line with the properties that cover
them, or the reason why none does.

## 2. Modules

| Module | What it is |
|---|---|
| `ChronoCache` | cache core with event log, INIT, replay, Kafka, clock, crashes |
| `MCChronoCache` | its instances for TLC |
| `ChronoCacheProofs` | theorems about it: types, sequence numbers, the log and the entries agree, deadlines resume |
| `KVStore` | bucket chains as operators on a record of pointers (no variables) |
| `HashMap` | threads, locks, resizing and metrics on top of `KVStore` |
| `AtomicMap` | what the hash map promises: atomic operations |
| `HashMapProofs` | what each operator of `KVStore` does to chains and contents; theorems about `HashMap`, the refinement of `AtomicMap` among them |
| `MCHashMap` | instances of `HashMap` |
| `Server` | process lifecycle: main thread, workers, signals, `stop()` |
| `ServerProofs` | theorems about it |
| `EventLoop` | one worker's loop with connections, kernel buffers and clients |
| `EventLoopProofs` | theorems about it |
| `MCEventLoop` | its instance |
| `Consumer` | the loop that reads the topic before a replay, against a broker |
| `ConsumerProofs` | theorems about it |
| `AVLTree` | the tree of a sorted set as operators on nodes that are values |
| `SortedSets` | the four operations on sorted sets, tree and member map together |
| `SortedSetsProofs` | theorems about trees of any size: insertion, removal, rank |
| `Recursion` | lemmas about recursive functions on the naturals, instantiated with their bodies |
| `Resp` | parser and serializer on sequences of symbols |
| `CommandHandler` | `execute` and the twelve commands as operators from a cache to outcomes |
| `Requests` | one connection: Python client, both streams, a worker executing |
| `CacheService` | what a client is promised: one effect and one answer for each call |
| `RequestsProofs` | theorems about the parser, the commands and the connection |
| `MCRequests` | the workloads of `Requests` |

`Requests` extends `CommandHandler`, which extends `SortedSets` (over `AVLTree`)
and `Resp`. The other composition is through outcomes: `ChronoCache` takes from
`Consumer` that a normal return gives the log as it was, and `Requests` takes
from `EventLoop` that replies are complete and in order.

### ChronoCache

State: `state`, `map`, `logger` (`cache_event_logger.has_value()`) and `seq`
(its `seq_counters`) are the object's fields; `lock` is the lock of a key's
slice; `pc`, `op`, `counter` are where a worker's thread is in a call, and its
locals; `with_replay`, `rem`, `last`, `rnow` are the locals of `init` and
`replay`; `queue` and `topic` are the producer's queue and the topic (external),
`now` is the clock. `unlogged` is a history variable for the properties:
the keys whose last client write was not logged.

A call is the action `ClientCall` (state check, deadline computed before the
lock), then one action named after the operation (everything under the lock up
to the callback), then the callback: `LogRefused` (logging off, not READY, or
the logic error when there is no logger), or `next_seq` (the counter is read)
and `produce_cache_event` (incremented, produced, lock released). Splitting
`next_seq` keeps the code's claim that no lock is needed a checked property and
not an assumption. `init` is `InitCall`, `InitEmplace`, `InitConstruct`,
`InitEnter`, `Consume` / `ConsumeTimeout`, `Replay...`, `ReplayDone`,
`InitReady`; a replayed event is applied by the same `set` and `del` actions
that serve clients, since the code calls the same methods.

Abstractions: a slice's lock is one lock per key. Keys of one slice exclude each
other in the code and need not here, so the model has more interleavings, and
module `HashMap` has the real slices. `consume_all_events` is one step that
takes a snapshot of the topic (`Consume`) or fails (`ConsumeTimeout`). What a
dead process had handed to the broker but the broker had not stored is taken as
lost or as delivered before the crash. An `INIT` in a state other than
UNINITIALIZED changes nothing and is not bounded. The clean exit, which flushes
the producer, is a `Crash` after deliveries. Kafka may reorder and repeat
messages because the producer's configuration sets neither idempotence nor a
limit of one message in flight; compaction is the topic setting of
`src/README.md`.

### KVStore, HashMap, AtomicMap

`KVStore` has heads, tails, lengths and next pointers exactly as `store.h`
assigns them; a node is named by its key. `HashMap` has one action per lock
acquisition and per access to shared data: resize lock shared, slice lock
(shared or exclusive), `Find`, `Act`, the unprotected metrics (`CountRead`,
`CountWrite`, `LoadFactorWrite`), `Unlock`, the unlocked `MaybeResize` test, the
exclusive resize lock and `Resize`. The compiler may or may not re-read
`num_entries` for the load factor: `LoadFactorWrite` allows both. The callback
of `process_and_remove_if` may keep, change or remove the entry; `get_ptr` is
`get`. `num_buckets` always equals the capacity and is not a variable;
collision and chain statistics are never read by the code and left out.

`AtomicMap` is the abstract specification. The mapping takes `contents` from
the chains and a thread's phase from its `pc`: *pending* up to and including
`Act`, *done* up to the unlock, *idle* otherwise. A resize maps to stuttering,
which is the point: it changes nothing a caller can see.

### Server

`main`, each worker's `pc`, `event_loop` (whether the pointer is set),
`running`, `socket`, `clients`, and `stopper`: one run of `stop()` per
signal and one of the main thread, each walking over the workers in the steps
`StopTest` (`if (event_loop)`), `StopClear` (`running = false`) and
`StopShutdown`. A handler interrupts some thread in the program; here it runs
as a process of its own, which includes all those schedules. `Fail` is a system
call that throws in a worker, which ends its thread with its sockets open.
Descriptor numbers are per worker, so their reuse between workers is not
modelled.

### EventLoop

A client's stream is a sequence of numbered parts, two per request (length
header and body), so that reads and writes stop in the middle of requests and
responses; the response to a request carries its part numbers, which makes order
and completeness visible. `Connection`'s fields are those of `connection.h`;
`handle_read` and `handle_write` are functions of a connection and its socket;
what `poll` reports is `ready`, a function from descriptors to their events;
`HandleClient` is the loop's body for one descriptor with its events from
`poll`, so that clients act between `poll` and the handling, and between two
descriptors. `NextRound` is the test of `running`, which a `stop()` may clear
while the loop is in `poll`: one more round is then made. The kernel is external:
small buffers, half-close, close, reset (a client that closes with unread data,
or a write to a closed client).

### Consumer

`pc`, `count_reached_eof`, `consecutive_timeouts` and `events` are the locals of
`consume_all_events`; the rest is the broker. An iteration of the loop is one
action, chosen by what `consume()` returns: `ReceiveMessage`, `ReceiveEnd`,
`ReceiveTimeout`, `ReceiveError`. A message that does not parse is a record
`bad`; compaction makes a record `gone`, also one that was read. librdkafka
reports the end of a partition once for each position it is reached at, so that
a partition that grows is reported again, and the loop counts reports.
`ReadsWholeLog` is what the step `Consume` of `ChronoCache` assumes;
`MissedPartitions` says how far it is from true when the topic grows.

### AVLTree, SortedSets

A node is a record with its children, height and size, or `nullptr`; freeing
nodes is therefore not modelled. What is recursive on nodes in the code is a function defined
level by level: `Tree[n]` has the trees of fewer than n levels. Heights and sizes are *stored* values that the
code has to update after every rotation, and `TreesAgree` compares them with the
recomputed ones. Scores are multiples of 10<sup>-7</sup> or `NaN`, which compares
with nothing, as in C++. Each operation is one step because it holds `mtx`
(`get_or_add` and `get_ptr` of the map it uses are those of `HashMap`).

### Resp, CommandHandler

A frame is a sequence of symbols: the bytes of the framing one by one (type
bytes, digits, CR, LF), the words of commands and values as one symbol each. `"e"`
stands for a character outside ASCII, which is two bytes on the wire and one
character in the client. Lengths are computed in an `int` up to `IntMax` that
wraps. An operator of `CommandHandler` takes the cache and the arguments to the
set of its outcomes, each a cache and a reply; exceptions are replies, as in
`execute`'s callers. The order of the checks is the code's. `set`, `del`, `expire` and
`persist` change the map first and log the event afterwards, under the same lock
(`Logged`). Writing it can throw: `dump()` (`producer.cpp:40`) refuses texts that are not
UTF-8. The client then gets an error for a change that stays, and a `DEL` of several
keys stops at the first that cannot be logged, with those before it removed. The other
exception of the callback, a missing logger (`chrono_cache.cpp:21`), cannot happen here:
`INIT` creates the logger before the state is `READY`; the races around that are in
`ChronoCache`. `disable_event_logging` is the constant of that name.

### Requests, CacheService

`to_server` and `to_client` are the two streams, `phase` is where the client is
in `_recv_response`, `call` and `answer` are its call and what it has returned.
A reply is one element of `to_client`, with what is `left` of it to be read: the
whole frame, its body, or a piece. `_recv_exact` receives in chunks: `ReadSome` takes a
part of a header or of a body, `ReadHeader` and `ReadBody` what is missing. `Timeout`
makes `recv` raise at any moment, and drops what the call has received; the user may
catch that and use the client again. If nothing of a reply had been received, the next
call reads an older answer. Otherwise the reply is torn (`torn`, history), and the next
call takes 4 bytes from the middle of it for a length (`ReadLength`). If they are the
first of a body they begin with `+`, `-`, `:` or `$`, which makes more than half a
gigabyte, and the call waits for what does not exist (`endless`). In the middle of a
header or of a body they may be any number, a small one included (`garbage`): the call
then reads on, over the ends of replies, and parses whatever it got (`ReadGarbage`, one
text of each kind in `Stretches`), so that it may return a piece of an older reply, or
raise; and it may also come to the end of a reply and be in step again. The *age* of a request is the
number of calls made since, which keeps the state space finite; `meant` (what the
reply given last means to its client) and `nan_keys` are history for the
refinement.

`CacheService` is the abstract specification: no bytes, no replies, no trees.
`ImplementsService` maps the store and the member maps, and takes the moment
of `Execute` as the effect. What the code does that a user might not
expect is written down in `CacheService` instead of hidden:

* a reply with a character outside ASCII cannot be read by the client, which
  counts characters where the server counts bytes: the call raises;
* after a timeout the answers may belong to earlier calls, or be pieces of them, so a
  result says nothing any more (`gave_up`); effects still happen once and in order;
  `AnswersLag` says how far behind the answers are as long as no reply has been torn;
* with a `NaN` among a set's scores its ranks are arbitrary (`unordered`);
* `ZSCORE` rounds to six decimals;
* `DEL` counts a key whose deadline has passed and that is still there.

## 3. Runs

| Run | Question | Result |
|---|---|---|
| `core` | Do sequence numbers and the log stay right in every interleaving with replay, loss, reordering and a crash? | holds (`TypeOK`, `SeqCoversLog`, `NoSeqReuse`, `SeqInv`, `LogAgrees`), and a replay gives each key the TTL it has left (`TTLsResume`) |
| `concurrent_init` | Does every INIT end, two at once included? | holds (`InitReturns`) |
| `expired_in_downtime` | Is a key gone whose newest event expired in the downtime? | violated: `ExpiredStaysGone` |
| `concurrent_init_seq` | Are numbers unique with two INITs at once? | violated: `NoSeqReuse` |
| `write_during_replay` | Is a write accepted in REPLAYING kept? | violated: `AcceptedWriteKept` |
| `hash_map` | Is the map atomic, well formed and live through a resize? | holds (`TypeOK`, `BucketExclusion`, `ChainsWellFormed`, `ImplementsAtomicMap`, `OperationsReturn`) |
| `metrics` | Do the metrics count the nodes? | violated: `MetricsExact` |
| `server` | Do workers serve until stopped, and stop? | holds (`TypeOK`, `ServesUntilStopped`, `ExitIsClean`, `StopsWhenServing`) |
| `lost_signal` | Does every signal stop the server? | violated: `SignalStopsServer` |
| `event_loop` | Are responses right, complete and eventual? | holds (`TypeOK`, `AssertsHold`, `ResponsesInOrder`, `AnswersBeforeClose`, `Answered`, `ConnectionsEnd`) |
| `consumer` | Is the whole log read, and does the loop end? | holds (`TypeOK`, `ReadsWholeLog`, `MissedPartitions`, `ConsumeEnds`) |
| `requests` | Does a connection give the service, with values that are hard to carry, sorted sets, timeouts in the middle of replies, broken frames and events that cannot be written? | holds (`TypeOK`, `TreesAgree`, `RepliesAreFrames`, `ErrorsChangeNothingLoggable`, `CutRequestsAreRefused`, `AnswersLag`, `ImplementsService`, `CallsReturn`) |

The five violations are disagreements between the code and what its comments
say; `PROJECT.json` describes each under `findings`.

1. **A key can come back from the dead.** Replay skips an expired event
   (`chrono_cache.cpp:185`) but has applied the key's earlier ones: after
   `SET k a`, `EXPIRE k`, a crash and the deadline, `INIT true` serves `a`
   without a TTL.
2. **Concurrent INITs** both pass the check of `state` (`:228`); the second
   replaces the logger and its counters, and numbers are used twice.
3. **Writes accepted while REPLAYING** can be overwritten by older events.
4. **The metrics lose updates**, so the load factor drifts from the truth. This
   affects only when the table grows: `ImplementsAtomicMap` holds regardless.
5. **A signal can be lost** when it comes before a worker has entered its loop.

Bounds, and why they suffice. `core`: two threads (one may INIT), one key, two
values, one TTL of two ticks, three calls, one crash, two records in the topic, three ticks.
Keys do not interact except through the lifecycle state: each has its own lock,
counter, partition order and records. Two values tell an old value from a new
one; three calls are a logged write before the crash, one racing the replay and
one after it; two records allow reordering, repetition and compaction; three
ticks let a deadline pass before or after the replay reads the clock, and a TTL of
two lets a part of it pass before a crash, so that a replay that
started it again would be seen. The proofs cover
all other sizes for every invariant of this run, and likewise for the invariants and
action properties of `hash_map`, `server`, `event_loop`, `consumer` and `requests`; what
they leave to the bounds are the liveness properties and `ImplementsService`. `concurrent_init` uses two INIT
threads with both arguments and drops the TTLs. `hash_map`: three keys with two
buckets that become four, two of the keys in one bucket before the
resize and in different ones after it; two threads and three operations are
what makes the table exceed 0.75 while another operation is under way, and give a
chain of two. As in the code, the number of slices equals the initial capacity
(16 in the code, 2 here). `server`: two workers, two signals, one failure, one
client each. `event_loop`: a client with two requests, one with one,
two descriptors, buffers and reads of three parts, which cut requests and
responses in the middle and make writes partial. `consumer`: two partitions with
up to two records each, one append, one error other than a timeout: enough for
one partition's second end to stand in for the other's first, and for records that
are skipped at the start, in the middle and at the end.

`requests` starts one of five workloads, on one connection and one key (two for
`DEL` and `SET`):

* `keys`: every call on values, with empty values, a CR LF in a value, a
  character outside ASCII, and TTLs of one and two ticks;
* `sets`: the four calls on a sorted set with four members and the scores 0,
  4 · 10<sup>-7</sup> (which `ZSCORE` prints as 0) and `NaN`. Four members
  make every rotation happen, on insertion and on erasure;
* `late`: a `SET`, a `GET` and a `DEL`, and two timeouts at any moment, in the middle
  of a header or a body as well: the second one may come while the client is still
  reading what the first one left. Out of step, a piece of a reply is cut again only
  while few replies are missing (`TookOutOfStep`), so that several calls can end in one
  reply and yet the replies that wait stay few;
* `frames`: the requests of another client: every prefix of two requests, every
  change of a framing byte, every insertion of one, and each command with wrong
  numbers and kinds of arguments;
* `unlogged`: requests with keys and values that are not UTF-8, which the Python client
  does not send: every command that logs, on such keys, on others, and on both.

In the last two, calls have no answer to compare with, so the refinement is not asked
for.

`IntMax` is 7, so that lengths of two digits overflow; this happens only in
`frames`. Events are logged (`disable_event_logging` is `FALSE`; otherwise nothing is
unloggable). `CallsReturn` is asked in `keys` and `late`: the other workloads differ
only in what is executed, and fairness is the expensive part of the run.

Deadlock is checked in every run. Where the bounded model may come to rest, a
stuttering disjunct says exactly where (`Quiet`, `Done`, `Over`), so that a
thread stuck inside an operation is still reported.

Fairness. `ChronoCache` and `HashMap`: weak fairness of each thread's steps
inside a call; an operating system keeps running threads, and nothing else is
assumed (no client has to call, Kafka has to deliver nothing, time need not
pass). Weak fairness is enough for the waits on locks because calls are finite
in the bounded models; with unlimited traffic a `shared_mutex` may starve a
writer, which the C++ standard leaves open. `Server`: fairness of the main
thread, of each worker (`poll` returns within its timeout of one second) and of
each run of `stop()`; none of the arrival of signals or of failures.
`EventLoop`: fairness of the loop and of clients reading what has arrived. The
latter is a real condition: a client that sends without reading stops its own
responses, as the server does not read a connection that has something to write.
`Consumer`: fairness of the loop, since `consume()` returns after five seconds
at the latest; errors other than timeouts are bounded, as a broker that answers
with them for ever keeps the loop going. `Requests`: fairness of the worker,
and of the client's reading what has arrived or, when its socket has a timeout
and nothing arrives, timing out.

## 4. Proofs

`ChronoCacheProofs`, for any sets of threads, keys, values and TTLs, any bounds,
and the assumption `CacheAssumption` on the constants:

* `TypeCorrect`: `Spec => []TypeOK`.
* `SequenceInvariant`: `Spec => []SeqInv`.
* `CountersCoverLog`, `SequenceNumbersUnique`: `SafeConfig => (Spec => []...)`
  for `SeqCoversLog` and `NoSeqReuse`.

`SafeConfig` (one thread sends INIT, always with replay, events are logged) is
needed: run `concurrent_init_seq` shows what happens without its first part, and
an INIT without replay starts the counters at 0 on a topic that has events.
Neither property is inductive by itself. That a new number is fresh needs that
no other thread has read the same counter: the lock of the key is held from
`log` to `incr` and the counter read is still current (`LockInv`). That the
counters cover the log after a replay needs that the replay accounts for every
record: each is counted in `last` or still in `rem` (`ReplayInv`), that the
topic does not grow meanwhile, as nothing is queued outside READY (`QueueInv`),
and that INIT's position determines the lifecycle state (`PhaseInv`). `SeqInv`
is their conjunction; one lemma per conjunct has a step per action, and
`SeqInv` is also an invariant of run `core`.

The second half of `ChronoCacheProofs`, under the same assumptions:

* `AgreementInvariant`, `LogAgreesWithCache`, `DeadlinesResume`:
  `SafeConfig => (Spec => []...)` for the inductive invariant, for `LogAgrees` and
  for `TTLsResume`.

`LogAgrees` compares an event with an entry that was written long before the event
was produced, or long after it by a replay, so the invariant (`AgreeParts`, on top
of `SeqInv`) follows the chain link by link. From the client to the log: a
request gives a deadline exactly when it has a TTL (`RequestsWellAsked`); what the
operation wrote is still in the map when the callback logs it, since the
lock is held (`WrittenInv`); no event has number 0, which is what the counters of
a new logger start from (`EventsWellLogged`). From the log back to the map: an
event that the replay still has to apply is the only one of its number, so that
late and repeated deliveries and compaction do not matter (`RemainingInv`); the
clock the replay read is not ahead (`ClockInv`); a call made by the replay
carries what the event says (`ApplyingInv`); and every key that no client has
touched is settled up to the event counted last for it, which at the end of the
replay is the newest one (`SettledInv`). `LogAgrees` itself is the last conjunct.
Clients may write while the cache is REPLAYING, and those writes are not logged:
the keys concerned are excepted, as run `write_during_replay` shows they have to be.

`HashMapProofs`, for any finite set of keys, any values, hash
function, number of slices, initial capacity that is a power of two, threads and
operations (`KVStoreAssumption`, `HashMapAssumption`):

* `InvariantHolds`, `TypeCorrect`, `BucketsExclusive`, `ChainsInOrder`: the
  inductive invariant `Inv` and what follows from it.
* `RefinesAtomicMap`: `Spec => ImplementsAtomicMap`.

`Inv` has four parts besides types. `ResizeLock` and `SliceLocks` say who
holds which lock, and that the slice computed when the resize lock was taken is
still that of the key: the number of buckets changes only under the exclusive
lock. From them follows that two threads at one bucket are both readers
(`SliceExclusion`, `SameBucketSameSlice`). `FoundIsCurrent` says that what `Find`
saw holds until `Act`; this is where exclusion is used, and with `StoreInOrder`
it makes `Act` one step of the atomic map. In the refinement `Call`, `Act` and
`Unlock` map to steps of `AtomicMap` and everything else, `Resize` included,
to stuttering (`AtomicCall`, `AtomicAct`, `AtomicUnlock`, `AtomicStutter`).
`StoreInOrder` rests on the first half of the module: a table is `Tidy` when each bucket has
a sequence of different keys, all of that bucket, along which heads, next pointers,
tails and lengths agree. `InsertTidy`, `UnlinkTidy`, `ValueTidy`
and `ResizeTidy` show that the pointer operations keep this, and `...Contents`
what they do to the entries. The walks along chains are recursive functions; the
induction they need is made with the set of the numbers for which a statement
holds (`EveryNumber`, from the well-foundedness of `<`).

`ServerProofs`, for any number of workers, signals, clients and failures:

* `TypeCorrect`: in particular no run of `stop()` leaves the list of workers.
* `WorkersServeUntilStopped`: strengthened by: a flag that is false in a worker
  that is in its loop has been cleared by some run of `stop()`
  (`StopReached` is stable, since a run only moves forward).
* `ExitLeavesNothingOpen`: strengthened by: the workers that `wait()` has gone
  past have finished, and what a returned worker had is closed.

`EventLoopProofs`, for any finite set of clients, any descriptors, numbers of
requests, and sizes of reads and socket buffers that are not 0 (`EventLoopAssumption`;
`NoConnAssumption`: `NULL` is not a connection):

* `LoopInvariant`: the inductive invariant `Typed /\ Parts`.
* `TypeCorrect`, `AssertionsHold`, `OwnResponsesInOrder`: `TypeOK`, `AssertsHold` and
  `ResponsesInOrder` follow from it.
* `NoAnswerCutOff`: the action property `AnswersBeforeClose`.

`ResponsesInOrder` speaks of responses only, and is not inductive: a response is
right if the request was. `RequestsInv` follows a client's stream: what its
connection has in `incoming` goes on after what was executed, and what is in the
socket goes on after that, up to what the client has sent or to an oversize header;
`ResponsesInv` follows the other direction, from `outgoing` through the socket to
what the client has. `ConnectionInv` is the discipline of `want_read` and
`want_write`: between two turns a connection reads and has nothing to write, or
the other way round, and has at most a header in `incoming`; without it, the end
of a stream could be found with requests unanswered. `OwnerInv` gives each client
one connection at most, so that a turn disturbs nobody else's; `ReadyInv` and
`RoundInv` say that what `poll` reported is still true at a descriptor's turn,
although others were accepted and closed since. The four ways a turn can go are
separate lemmas (`ReadOutcome`, `EndOutcome`, `WriteOutcome`, `NoOutcome`) with one
common description of what a turn leaves (`Outcome`); after it, each part of the
invariant has a lemma with a step per action.

`ConsumerProofs`, for any finite set of partitions, and any number of records,
appends and errors:

* `TypeCorrect`: with `BelowLimit`, the loop goes on only below the limit of
  timeouts.
* `LogReadWhole`: `Spec => []ReadsWholeLog`. Strengthened by: every record before
  a partition's position was read (`ReadSoFar`) and no position is further
  than one past the end (`PositionInLog`); the ends counted are those of the
  partitions whose present end was reported, and at most one more for each
  append (`EndsCounted`). At a return as many ends as partitions are counted
  (`CountedAll`), hence without appends all partitions are at their end.
  Compaction needs care: it changes records under a position, but never their
  number.
* `FewPartitionsMissed`: `Spec => []MissedPartitions`, from the same invariant: the
  partitions that are cut short are among those whose present end was not reported,
  and at a return there are at most as many of these as there were appends.

`Recursion`. Trees, parsers and serializers are recursive functions on the naturals
(levels of a tree, nesting of arrays, elements, digits). TLA+ defines such a function
by a choice, so that it satisfies its own definition has to be shown: `RecursiveFunction`
does, for any body `Step` that looks at the function only below its argument
(`LooksBelow`), and `EveryNatural` is the induction on a set of naturals. The two modules
below instantiate `Recursion` once for each function, with the body of its definition.

`SortedSetsProofs`, for trees of any size, any alphabet and members of any length
(`AlphabetAssumption`: codes are different, and `NaN` is not a number):

* `InsertIsRight`, `EraseIsRight`: from a tree that is `Sound` (stored heights and sizes
  true, balanced) `insert` and `erase` make a sound tree, whatever the scores; and if it
  is `Ordered` and no score is `NaN`, the result is ordered and holds what it should.
* `RankIsPosition`: what `ZRANK` answers is the number of members before this one.

Each is an induction on levels over a statement about all trees of a level
(`InsertedWell`, `ErasedWell`, `RankedWell`), which has to say more than the theorem does:
the height grows, or shrinks, by at most one, without which `rebalance` would be asked for
more than one rotation restores. `NaN` is where the order is lost and the balance is
not. That `Less` is a total order rests on the order of strings of any length.
`ZaddKeepsSets` and `ZremKeepsSets` carry this over to trees with their member maps.

`RequestsProofs`, for any workload whose requests and encoded calls are strings over the
alphabet, any `IntMax`, and values of any length (`RequestsAssumption`):

* `ParserIsTotal`: for any bytes, the parser returns nothing, an error or a value with the
  fields of its type, whose elements are such values. By induction on the depth of nesting.
* `PrefixFree`: where the parser finds a value of some length, it finds nothing in fewer of
  these bytes. At every depth a beginning of the bytes is parsed as all of them are, if the end
  of the value is there, and not at all if it is missing (`CutParser`); and since the depth the
  parser is given is the number of its bytes, a greater one must find the same (`DeeperParser`).
* `RoundTrip`: `parse` of what `serialize_to_bulk_string` writes gives the strings
  written, and uses every byte, whatever is in the strings, CR LF included, and without
  bound on their number; for the server's parser as long as `IntMax` holds the
  count and the lengths. The element parser is followed along the serializer: after i
  elements it stands where the serializer stood after i strings.
* `CommandsArrive`: hence what the worker executes is the command the client wrote.
* `InvHolds`: `Spec => []Inv`, and from it `TypeCorrect`, `SetsAgree`, `RepliesFramed` for
  `TypeOK`, `TreesAgree` and `RepliesAreFrames`.
* `ErrorsConfined`, `CutRequestsRefused`, `AnswersInStep`: the action properties
  `ErrorsChangeNothingLoggable`, `CutRequestsAreRefused` and `AnswersLag`, with
  `disable_event_logging` either way.

`Inv` is `StateOK /\ (~torn => InStepOK)`. `StateOK` says that the sets in the cache are
sound and agree with their member maps unless they were given a `NaN`, and that every
reply on its way to the client is one of those that commands give (`Refusals`,
`Results`). One lemma for each command (`SetOutcome`, `ZaddOutcome`, ...) shows that its
outcomes are such a reply and such a cache, and that an error comes with no change, or
with that of one entry whose event cannot be written and of keys deleted before it
(`UnloggableStored`, `UnloggableRemoved`); `HandleOutcome` puts them together for any
bytes, with `ParserIsTotal`. One lemma for each kind of reply (`SimpleStringIsFrame`,
`IntegerIsFrame`, `BulkStringIsFrame`, ...) shows that it is one frame.

`AnswersLag` speaks of the reply that is being read, and is not inductive. `InStepOK`
says that the requests and replies on their way are those of the last calls, without a
gap: there are as many as calls have been given up, and one more while a call waits;
their ages count down from the client's side of the replies to its side of the requests;
and all replies but the one being read are whole. The last part is what a torn reply
destroys, and what chunks of any size do not. After a reply is torn the theorem claims
nothing, and the code gives no more: the answers may then be pieces.

Model-checked only, and why:

* all liveness properties (`InitReturns`, `OperationsReturn`, `StopsWhenServing`,
  `Answered`, `ConnectionsEnd`, `ConsumeEnds`, `CallsReturn`): liveness under
  fairness is beyond the prover;
* `ImplementsService`: the lemmas for the commands say what a command may reply and that it
  keeps the sets sound, but not which reply means which answer of `CacheService`. This would
  need, on top of them, the client's decoding of each reply (`RoundTrip` has that for requests);
* the five properties that are violated.

## 5. Not modelled, and the plan

The plan had the cache core with the event log, the hash map with its abstract
specification, the server's lifecycle, the event loop, the consumer, sorted sets,
RESP with the command handler, and the client on a connection: all are modelled.
Of the proofs it had, exclusion and refinement of the hash map, the agreement of
log and cache, the event loop, the consumer, the sorted sets, and the connection with
its parser are done. What is left:

1. the refinement of `CacheService` by `Requests`, from what the commands are proved to do;
2. a proof about `MCLostSignal`'s configuration of what *is* true of signals: one
   that comes after every worker has entered its loop ends in every flag cleared.

Not modelled, and why:

* Python client: `sendall` that times out in the middle of a request, the bytes of a
  length read out of step (it is any number), a
  connection the server closes (both end the connection's use, `EventLoop` has the
  server's side), and the interactive `main.py`. It is therefore *partly*
  modelled.
* More than one connection in `Requests`: commands of other workers run
  concurrently inside the cache, which is what `ChronoCache` is about. Requests
  that arrive in pieces are in `EventLoop`; `Requests` has the pieces of replies.
* `std::out_of_range` of very long numbers, which is one more exception; the
  overflow of `now + ttl`, as times are small numbers here.
* Sorted sets have no events: `ZADD` and `ZREM` are not logged and a replay
  brings none back. This is the code's behaviour and `ChronoCache` has none of them.
* Descriptor numbers reused between workers; freeing nodes of chains and
  trees.
* Build files and configuration; logging to the console, wording of errors,
  socket options, the JSON format of events (a message that does not parse is what
  matters, and is in `Consumer`), and the implementation of librdkafka and the
  kernel, which appear as what they may do to messages, timeouts and sockets.

## 6. Running

    tlc -workers 2 -config MCChronoCache.cfg MCChronoCache
    tlc -workers 2 -config MCConcurrentInit.cfg MCChronoCache
    tlc -workers 2 -config MCHashMap.cfg MCHashMap
    tlc -workers 2 -config MCServer.cfg Server
    tlc -workers 2 -config MCEventLoop.cfg MCEventLoop
    tlc -workers 2 -config MCConsumer.cfg Consumer
    tlc -workers 2 -config MCRequests.cfg MCRequests
    tlapm ChronoCacheProofs.tla
    tlapm HashMapProofs.tla
    tlapm ServerProofs.tla
    tlapm EventLoopProofs.tla
    tlapm ConsumerProofs.tla
    tlapm Recursion.tla
    tlapm SortedSetsProofs.tla
    tlapm RequestsProofs.tla

The other `.cfg` files (`MCExpiredInDowntime`, `MCConcurrentInitSeq` and
`MCWriteDuringReplay` with `MCChronoCache`, `MCMetrics` with `MCHashMap`,
`MCLostSignal` with `Server`) end in the counterexamples of section 3.
