------------------------------- MODULE HashMap -------------------------------
(***************************************************************************)
(* The concurrent hash map (cache/kv_store/hash_map.h, metrics.h): threads *)
(* that hold the resize lock shared and the lock of one slice of buckets   *)
(* work on the chains of KVStore; one that holds the resize lock alone     *)
(* doubles the table.  The metrics are shared by all slices and protected  *)
(* by none of these locks, so an increment is a read and a later write.    *)
(***************************************************************************)
EXTENDS KVStore

CONSTANTS Threads, NoThread,
          NumSlices,        \* NUM_SLICES
          InitialCapacity,
          Kinds,            \* the operations that are called
          MaxOps            \* bound of the model: operations called in all

ReadKinds == {"get"}
AddKinds == {"set", "get_or_add"}
RemoveKinds == {"remove", "process_and_remove_if"}

ASSUME HashMapAssumption ==
    /\ NoThread \notin Threads
    /\ NumSlices \in Nat \ {0}
    /\ InitialCapacity \in Nat \ {0} /\ IsPowerOfTwo(InitialCapacity)
    /\ Kinds \subseteq ReadKinds \cup AddKinds \cup RemoveKinds
    /\ MaxOps \in Nat

VARIABLES store, metrics,
          resize_readers, resize_writer,  \* holders of resize_lock
          slice_readers, slice_writer,    \* holders of each slice lock
          pc, request, slice, found, answer, tmp, ops

lockVars == <<resize_readers, resize_writer, slice_readers, slice_writer>>
localVars == <<slice, found, tmp>>
callVars == <<request, answer, localVars, ops>>
vars == <<store, metrics, resize_readers, resize_writer, slice_readers, slice_writer,
          pc, request, slice, found, answer, tmp, ops>>

Slices == 0 .. NumSlices - 1
ValueKinds == {"set", "process_and_remove_if"}  \* they bring a value

\* What an operation of a kind may store.
ValuesOf(kd) == IF kd \in ValueKinds THEN Values
                ELSE IF kd = "get_or_add" THEN {DefaultValue} ELSE {NoValue}

Request == UNION {[kind : {kd}, key : Keys, value : ValuesOf(kd)] : kd \in Kinds}

NoRequest == [kind |-> "none", key |-> NoNode, value |-> NoValue]

\* Past the load factor threshold of 0.75.
Overloaded(entries, buckets) == 4 * entries > 3 * buckets

\* overloaded stands for the cached load factor.  num_buckets is left out: it
\* changes with the capacity, in resize only.
Metrics(entries, buckets) ==
    [num_entries |-> entries, overloaded |-> Overloaded(entries, buckets)]

needs_resize == metrics.overloaded

Init ==
    /\ store = EmptyStore(InitialCapacity)
    /\ metrics = Metrics(0, InitialCapacity)
    /\ resize_readers = {} /\ resize_writer = NoThread
    /\ slice_readers = [i \in Slices |-> {}]
    /\ slice_writer = [i \in Slices |-> NoThread]
    /\ pc = [t \in Threads |-> "idle"]
    /\ request = [t \in Threads |-> NoRequest]
    /\ slice = [t \in Threads |-> 0]
    /\ found = [t \in Threads |-> FALSE]
    /\ answer = [t \in Threads |-> NoValue]
    /\ tmp = [t \in Threads |-> 0]
    /\ ops = 0

Goto(t, label) == pc' = [pc EXCEPT ![t] = label]
key(t) == request[t].key
kind(t) == request[t].kind

Call(t) ==
    /\ pc[t] = "idle"
    /\ ops < MaxOps
    /\ ops' = ops + 1
    /\ \E r \in Request : request' = [request EXCEPT ![t] = r]
    /\ Goto(t, "acquire")
    /\ UNCHANGED <<store, metrics, lockVars, answer, localVars>>

\* The slice computed first, and the resize lock taken afterwards.
LockResizeLate(t) ==
    /\ pc[t] = "acquire"
    /\ slice' = [slice EXCEPT ![t] = compute_bucket_index(store, key(t)) % NumSlices]
    /\ Goto(t, "lock_slice")
    /\ UNCHANGED <<store, metrics, lockVars, request, found, answer, tmp, ops>>

\* The resize lock, shared; then the slice is computed from the capacity.
LockResizeShared(t) ==
    /\ pc[t] = "acquire"
    /\ resize_writer = NoThread
    /\ resize_readers' = resize_readers \cup {t}
    /\ slice' = [slice EXCEPT ![t] = compute_bucket_index(store, key(t)) % NumSlices]
    /\ Goto(t, "lock_slice")
    /\ UNCHANGED <<store, metrics, resize_writer, slice_readers, slice_writer,
                   request, found, answer, tmp, ops>>

LockSliceRead(t) ==
    /\ pc[t] = "lock_slice"
    /\ kind(t) \in ReadKinds
    /\ slice_writer[slice[t]] = NoThread
    /\ slice_readers' = [slice_readers EXCEPT ![slice[t]] = @ \cup {t}]
    /\ Goto(t, "find")
    /\ UNCHANGED <<store, metrics, resize_readers, resize_writer, slice_writer, callVars>>

LockSliceWrite(t) ==
    /\ pc[t] = "lock_slice"
    /\ kind(t) \notin ReadKinds
    /\ slice_writer[slice[t]] = NoThread /\ slice_readers[slice[t]] = {}
    /\ slice_writer' = [slice_writer EXCEPT ![slice[t]] = t]
    /\ Goto(t, "find")
    /\ UNCHANGED <<store, metrics, resize_readers, resize_writer, slice_readers, callVars>>

Find(t) ==
    /\ pc[t] = "find"
    /\ found' = [found EXCEPT ![t] = find_in_bucket(store, key(t))]
    /\ Goto(t, "act")
    /\ UNCHANGED <<store, metrics, lockVars, request, slice, answer, tmp, ops>>

\* What the operation does with what it found.  The callback of
\* process_and_remove_if may change the value in place.
UpdateNode(t) ==
    /\ found[t] /\ kind(t) \in ValueKinds
    /\ store' = [store EXCEPT !.value[key(t)] = request[t].value]
    /\ Goto(t, "unlock")

AddNode(t) ==
    /\ ~found[t] /\ kind(t) \in AddKinds
    /\ store' = insert_node(store, key(t), request[t].value)
    /\ Goto(t, "count")

\* remove, and process_and_remove_if when its callback asks for it.
RemoveNode(t) ==
    /\ found[t] /\ kind(t) \in RemoveKinds
    /\ store' = unlink_from_bucket_chain(store, key(t))
    /\ Goto(t, "count")

LeaveAsIs(t) ==
    /\ \/ kind(t) \in {"get", "process_and_remove_if"}
       \/ found[t] /\ kind(t) = "get_or_add"
       \/ ~found[t] /\ kind(t) = "remove"
    /\ Goto(t, "unlock")
    /\ UNCHANGED store

Act(t) ==
    /\ pc[t] = "act"
    /\ UpdateNode(t) \/ AddNode(t) \/ RemoveNode(t) \/ LeaveAsIs(t)
    /\ answer' = [answer EXCEPT ![t] = IF found[t] THEN store.value[key(t)] ELSE NoValue]
    /\ UNCHANGED <<metrics, lockVars, request, slice, found, tmp, ops>>

\* num_entries++ or -- with no lock that all slices share: it is read, ...
CountRead(t) ==
    /\ pc[t] = "count"
    /\ tmp' = [tmp EXCEPT ![t] = metrics.num_entries + (IF kind(t) \in AddKinds THEN 1 ELSE -1)]
    /\ Goto(t, "count_write")
    /\ UNCHANGED <<store, metrics, lockVars, request, slice, found, answer, ops>>

\* ... written back, ...
CountWrite(t) ==
    /\ pc[t] = "count_write"
    /\ metrics' = [metrics EXCEPT !.num_entries = tmp[t]]
    /\ Goto(t, "load_factor")
    /\ UNCHANGED <<store, lockVars, callVars>>

\* ... and the load factor is computed from it, reading it again or not.
LoadFactorWrite(t) ==
    /\ pc[t] = "load_factor"
    /\ \E n \in {tmp[t], metrics.num_entries} :
          metrics' = [metrics EXCEPT !.overloaded = Overloaded(n, store.capacity)]
    /\ Goto(t, "unlock")
    /\ UNCHANGED <<store, lockVars, callVars>>

\* The scope of both locks and of the locals ends; after an addition the load
\* factor is looked at first.
Unlock(t) ==
    /\ pc[t] = "unlock"
    /\ resize_readers' = resize_readers \ {t}
    /\ slice_readers' = [slice_readers EXCEPT ![slice[t]] = @ \ {t}]
    /\ slice_writer' = [slice_writer EXCEPT ![slice[t]] = IF @ = t THEN NoThread ELSE @]
    /\ Goto(t, IF kind(t) \in AddKinds /\ needs_resize THEN "maybe_resize" ELSE "idle")
    /\ request' = [request EXCEPT ![t] = NoRequest]
    /\ answer' = [answer EXCEPT ![t] = NoValue]
    /\ slice' = [slice EXCEPT ![t] = 0]
    /\ found' = [found EXCEPT ![t] = FALSE]
    /\ tmp' = [tmp EXCEPT ![t] = 0]
    /\ UNCHANGED <<store, metrics, resize_writer, ops>>

\* maybe_resize looks again, without a lock ...
MaybeResize(t) ==
    /\ pc[t] = "maybe_resize"
    /\ Goto(t, IF needs_resize THEN "lock_resize" ELSE "idle")
    /\ UNCHANGED <<store, metrics, lockVars, callVars>>

\* ... and once more when it holds the resize lock alone.
LockResizeExclusive(t) ==
    /\ pc[t] = "lock_resize"
    /\ resize_writer = NoThread /\ resize_readers = {}
    /\ resize_writer' = t
    /\ Goto(t, "resize")
    /\ UNCHANGED <<store, metrics, resize_readers, slice_readers, slice_writer, callVars>>

\* A resize that does not give the lock back when there is nothing to do.
ResizeKeepsLock(t) ==
    /\ pc[t] = "resize"
    /\ IF needs_resize
       THEN /\ store' = resize(store, 2 * store.capacity)
            /\ metrics' = Metrics(NumNodes(store), 2 * store.capacity)
            /\ resize_writer' = NoThread
       ELSE UNCHANGED <<store, metrics, resize_writer>>
    /\ Goto(t, "idle")
    /\ UNCHANGED <<resize_readers, slice_readers, slice_writer, callVars>>

Resize(t) ==
    /\ pc[t] = "resize"
    /\ IF needs_resize
       THEN /\ store' = resize(store, 2 * store.capacity)
            /\ metrics' = Metrics(NumNodes(store), 2 * store.capacity)
       ELSE UNCHANGED <<store, metrics>>
    /\ resize_writer' = NoThread
    /\ Goto(t, "idle")
    /\ UNCHANGED <<resize_readers, slice_readers, slice_writer, callVars>>

Step(t) ==
    \/ LockResizeShared(t) \/ LockSliceRead(t) \/ LockSliceWrite(t)
    \/ Find(t) \/ Act(t) \/ CountRead(t) \/ CountWrite(t) \/ LoadFactorWrite(t) \/ Unlock(t)
    \/ MaybeResize(t) \/ LockResizeExclusive(t) \/ Resize(t)

Quiescent == \A t \in Threads : pc[t] = "idle"

\* All calls have been made and answered: the bounded model stops here.
Done == ops = MaxOps /\ Quiescent /\ UNCHANGED vars

Next == (\E t \in Threads : Call(t) \/ Step(t)) \/ Done

Spec == Init /\ [][Next]_vars

\* A thread inside an operation keeps running.
FairSpec == Spec /\ \A t \in Threads : WF_vars(Step(t))

-----------------------------------------------------------------------------
(* Properties *)

Working(t) == pc[t] \in {"find", "act", "count", "count_write", "load_factor"}

TypeOK ==
    /\ IsStore(store)
    /\ metrics \in [num_entries : Int, overloaded : BOOLEAN]
    /\ resize_readers \subseteq Threads /\ resize_writer \in Threads \cup {NoThread}
    /\ slice_readers \in [Slices -> SUBSET Threads]
    /\ slice_writer \in [Slices -> Threads \cup {NoThread}]
    /\ pc \in [Threads -> {"idle", "acquire", "lock_slice", "find", "act", "count", "count_write",
                           "load_factor", "unlock", "maybe_resize", "lock_resize", "resize"}]
    /\ request \in [Threads -> Request \cup {NoRequest}]
    /\ slice \in [Threads -> Slices]
    /\ found \in [Threads -> BOOLEAN]
    /\ answer \in [Threads -> Values \cup {NoValue}]
    /\ tmp \in [Threads -> Int]
    /\ ops \in 0 .. MaxOps

\* While a thread is at work on a bucket no other thread changes that bucket or
\* the table: resizing in between has not moved its key to another slice.
BucketExclusion ==
    \A t, u \in Threads :
        /\ Working(t) /\ Working(u) /\ t # u
             /\ compute_bucket_index(store, key(t)) = compute_bucket_index(store, key(u))
               => kind(t) \in ReadKinds /\ kind(u) \in ReadKinds
        /\ Working(t) => pc[u] # "resize"

\* Every chain is in order at every moment at which it is not being changed.
ChainsWellFormed == WellFormed(store)

\* With no operation in progress the metrics count the nodes.
MetricsExact == Quiescent => metrics.num_entries = NumNodes(store)

\* Every operation returns, however many resize or wait for one.
OperationsReturn == \A t \in Threads : pc[t] # "idle" ~> pc[t] = "idle"

\* The hash map implements a map whose operations are atomic: each takes effect
\* in its Act step and has its answer before it unlocks, and a resize changes
\* nothing that a caller can see.
phase == [t \in Threads |->
            CASE pc[t] \in {"acquire", "lock_slice", "find", "act"} -> "pending"
              [] pc[t] \in {"count", "count_write", "load_factor", "unlock"} -> "done"
              [] OTHER -> "idle"]

Atomic == INSTANCE AtomicMap WITH contents <- Contents(store)

ImplementsAtomicMap == Atomic!Spec
=============================================================================
