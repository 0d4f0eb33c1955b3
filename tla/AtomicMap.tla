------------------------------ MODULE AtomicMap ------------------------------
(***************************************************************************)
(* What the hash map promises to its callers: each operation takes effect  *)
(* at one moment between its call and its return (kv_store/hash_map.h).    *)
(* An operation is answered with the value its key had at that moment.     *)
(***************************************************************************)
CONSTANTS Threads, Keys, Values, NoValue, DefaultValue, NoRequest

VARIABLES contents,  \* key -> value, NoValue for no entry
          phase,     \* of each thread: idle, pending, done
          request,   \* the operation of each thread
          answer     \* what it found

vars == <<contents, phase, request, answer>>

OpKinds == {"set", "get", "get_or_add", "remove", "process_and_remove_if"}
Request == [kind : OpKinds, key : Keys, value : Values \cup {NoValue}]

Init ==
    /\ contents = [k \in Keys |-> NoValue]
    /\ phase = [t \in Threads |-> "idle"]
    /\ request = [t \in Threads |-> NoRequest]
    /\ answer = [t \in Threads |-> NoValue]

Call(t, r) ==
    /\ phase[t] = "idle"
    /\ phase' = [phase EXCEPT ![t] = "pending"]
    /\ request' = [request EXCEPT ![t] = r]
    /\ UNCHANGED <<contents, answer>>

\* The contents an operation may leave behind; the callback of
\* process_and_remove_if may leave the entry, change it or have it removed.
Outcomes(r, old) ==
    CASE r.kind = "set" -> {r.value}
      [] r.kind = "get" -> {old}
      [] r.kind = "get_or_add" -> {IF old = NoValue THEN DefaultValue ELSE old}
      [] r.kind = "remove" -> {NoValue}
      [] r.kind = "process_and_remove_if" ->
            {old, NoValue} \cup (IF old = NoValue THEN {} ELSE {r.value})

Apply(t) ==
    /\ phase[t] = "pending"
    /\ \E v \in Outcomes(request[t], contents[request[t].key]) :
          contents' = [contents EXCEPT ![request[t].key] = v]
    /\ answer' = [answer EXCEPT ![t] = contents[request[t].key]]
    /\ phase' = [phase EXCEPT ![t] = "done"]
    /\ UNCHANGED request

Return(t) ==
    /\ phase[t] = "done"
    /\ phase' = [phase EXCEPT ![t] = "idle"]
    /\ request' = [request EXCEPT ![t] = NoRequest]
    /\ answer' = [answer EXCEPT ![t] = NoValue]
    /\ UNCHANGED contents

Next == \E t \in Threads : (\E r \in Request : Call(t, r)) \/ Apply(t) \/ Return(t)

Spec == Init /\ [][Next]_vars
=============================================================================
