------------------------------- MODULE Consumer -------------------------------
(***************************************************************************)
(* The consumer that reads the topic at the start of a replay              *)
(* (cache/kafka_logging/consumer.cpp): it assigns itself all partitions    *)
(* from offset 0 and consumes until it has been told as many times as      *)
(* there are partitions that a partition's end was reached.                *)
(*                                                                         *)
(* The broker is external.  It hands out the records of a partition in     *)
(* offset order, the partitions in any order, and in between reports ends, *)
(* timeouts and errors.  The end of a partition is reported once for each  *)
(* position it has: again when records have been appended and read since.  *)
(* Who appends is another INIT of the same process that is READY already,  *)
(* or a second process on the topic.                                       *)
(***************************************************************************)
EXTENDS Integers, Sequences, FiniteSets

CONSTANTS Partitions,
          MaxRecords,  \* bound of the model: records of a partition at the start
          MaxAppends,  \* bound of the model: records appended meanwhile
          MaxErrors    \* bound of the model: errors other than timeouts

ASSUME ConsumerAssumption ==
    /\ IsFiniteSet(Partitions) /\ Partitions # {}
    /\ MaxRecords \in Nat /\ MaxAppends \in Nat /\ MaxErrors \in Nat

VARIABLES
    pc,                   \* assign, loop, returned, thrown, exited
    count_reached_eof,
    consecutive_timeouts,
    events,               \* what is read, as <<partition, offset>>
    log,                  \* external: partition -> records
    position,             \* external: partition -> the offset to be read next
    reported,             \* external: partition -> the end reported last
    initial,              \* history: the length of each partition at the start
    appends, errors

brokerVars == <<log, position, reported, initial, appends, errors>>
vars == <<pc, count_reached_eof, consecutive_timeouts, events, log, position, reported,
          initial, appends, errors>>

MAX_CONSECUTIVE_TIMEOUTS == 3
num_partitions == Cardinality(Partitions)

\* A record that parses, one that does not, and one that compaction has removed.
Record == {"good", "bad", "gone"}
NoEnd == -1

Init ==
    /\ pc = "assign"
    /\ count_reached_eof = 0 /\ consecutive_timeouts = 0 /\ events = <<>>
    /\ log \in [Partitions -> UNION {[1 .. n -> {"good", "bad"}] : n \in 0 .. MaxRecords}]
    /\ position = [p \in Partitions |-> 1]
    /\ reported = [p \in Partitions |-> NoEnd]
    /\ initial = [p \in Partitions |-> Len(log[p])]
    /\ appends = 0 /\ errors = 0

\* exit(1) when the assignment fails: it ends the server.
assign_all_partitions ==
    /\ pc = "assign"
    /\ pc' \in {"loop", "exited"}
    /\ UNCHANGED <<count_reached_eof, consecutive_timeouts, events, brokerVars>>

-----------------------------------------------------------------------------
(* What consume() may answer. *)

Unread(p) == {i \in position[p] .. Len(log[p]) : log[p][i] # "gone"}
AtEnd(p) == Unread(p) = {}

\* A message without an error; when it does not parse, that is printed and the
\* loop goes on.
ReceiveMessage(p) ==
    /\ pc = "loop"
    /\ \E i \in Unread(p) :
         /\ \A j \in Unread(p) : i <= j
         /\ events' = IF log[p][i] = "good" THEN Append(events, <<p, i>>) ELSE events
         /\ position' = [position EXCEPT ![p] = i + 1]
    /\ consecutive_timeouts' = 0
    /\ UNCHANGED <<pc, count_reached_eof, log, reported, initial, appends, errors>>

\* A loop that is left one report of an end too early.
EndEarly(p) ==
    /\ pc = "loop"
    /\ AtEnd(p) /\ reported[p] # Len(log[p])
    /\ reported' = [reported EXCEPT ![p] = Len(log[p])]
    /\ count_reached_eof' = count_reached_eof + 1
    /\ pc' = IF count_reached_eof' >= num_partitions - 1 THEN "returned" ELSE "loop"
    /\ consecutive_timeouts' = 0
    /\ UNCHANGED <<events, log, position, initial, appends, errors>>

\* ERR__PARTITION_EOF, and the test of the loop after it.
ReceiveEnd(p) ==
    /\ pc = "loop"
    /\ AtEnd(p) /\ reported[p] # Len(log[p])
    /\ reported' = [reported EXCEPT ![p] = Len(log[p])]
    /\ count_reached_eof' = count_reached_eof + 1
    /\ pc' = IF count_reached_eof' >= num_partitions THEN "returned" ELSE "loop"
    /\ consecutive_timeouts' = 0
    /\ UNCHANGED <<events, log, position, initial, appends, errors>>

\* One timeout more than the limit.
TimeoutLate ==
    /\ pc = "loop"
    /\ consecutive_timeouts' = consecutive_timeouts + 1
    /\ pc' = IF consecutive_timeouts' > MAX_CONSECUTIVE_TIMEOUTS THEN "thrown" ELSE "loop"
    /\ UNCHANGED <<count_reached_eof, events, brokerVars>>

\* The third timeout starts the count again.
TimeoutStartsOver ==
    /\ pc = "loop"
    /\ consecutive_timeouts' = (consecutive_timeouts + 1) % MAX_CONSECUTIVE_TIMEOUTS
    /\ UNCHANGED <<pc, count_reached_eof, events, brokerVars>>

\* ERR__TIMED_OUT: the third in a row is a runtime_error.
ReceiveTimeout ==
    /\ pc = "loop"
    /\ consecutive_timeouts' = consecutive_timeouts + 1
    /\ pc' = IF consecutive_timeouts' >= MAX_CONSECUTIVE_TIMEOUTS THEN "thrown" ELSE "loop"
    /\ UNCHANGED <<count_reached_eof, events, brokerVars>>

\* Any other error is printed; the counters stay as they are.
ReceiveError ==
    /\ pc = "loop"
    /\ errors < MaxErrors
    /\ errors' = errors + 1
    /\ UNCHANGED <<pc, count_reached_eof, consecutive_timeouts, events, log, position,
                   reported, initial, appends>>

consume_all_events ==
    \/ \E p \in Partitions : ReceiveMessage(p) \/ ReceiveEnd(p)
    \/ ReceiveTimeout \/ ReceiveError

-----------------------------------------------------------------------------
(* The topic meanwhile. *)

ProduceElsewhere(p) ==
    /\ pc = "loop"
    /\ appends < MaxAppends
    /\ appends' = appends + 1
    /\ log' = [log EXCEPT ![p] = Append(@, "good")]
    /\ UNCHANGED <<pc, count_reached_eof, consecutive_timeouts, events, position, reported,
                   initial, errors>>

\* A record may go once its partition has a later one, also after it was read.
Compact(p, i) ==
    /\ pc = "loop"
    /\ log[p][i] # "gone"
    /\ log' = [log EXCEPT ![p][i] = "gone"]
    /\ UNCHANGED <<pc, count_reached_eof, consecutive_timeouts, events, position, reported,
                   initial, appends, errors>>

Finished == pc \in {"returned", "thrown", "exited"} /\ UNCHANGED vars

Next ==
    \/ assign_all_partitions \/ consume_all_events
    \/ \E p \in Partitions : ProduceElsewhere(p) \/ \E i \in 1 .. Len(log[p]) - 1 : Compact(p, i)
    \/ Finished

Spec == Init /\ [][Next]_vars

\* consume() returns after its timeout of five seconds at the latest.
FairSpec == Spec /\ WF_vars(assign_all_partitions) /\ WF_vars(consume_all_events)

-----------------------------------------------------------------------------
(* Properties *)

TypeOK ==
    /\ pc \in {"assign", "loop", "returned", "thrown", "exited"}
    /\ count_reached_eof \in Nat
    /\ consecutive_timeouts \in 0 .. MAX_CONSECUTIVE_TIMEOUTS
    /\ events \in Seq(Partitions \X (Nat \ {0}))
    /\ log \in [Partitions -> Seq(Record)]
    /\ position \in [Partitions -> Nat \ {0}]
    /\ reported \in [Partitions -> Nat \cup {NoEnd}]
    /\ initial \in [Partitions -> Nat]
    /\ appends \in Nat /\ errors \in Nat

WasRead(p, i) == \E j \in DOMAIN events : events[j] = <<p, i>>

\* When nothing is appended meanwhile, a normal return means that every record
\* of every partition that parses has been read, also when reports of ends,
\* timeouts, errors and compaction came in between: this is what the replay
\* takes the list of events for (consumer.cpp:84, :124).
ReadsWholeLog ==
    pc = "returned" /\ appends = 0 =>
        \A p \in Partitions : \A i \in 1 .. Len(log[p]) : log[p][i] = "good" => WasRead(p, i)

\* The reports are counted, not the partitions, so one that has grown takes the
\* place of one that was never read to its end; but never more partitions are
\* cut short than records were appended (consumer.cpp:127).
MissedPartitions ==
    pc = "returned" => Cardinality({p \in Partitions : position[p] <= initial[p] /\ ~AtEnd(p)}) <= appends

\* Consuming ends, by returning, by an exception or by ending the process, when
\* the broker does not answer with errors for ever (consumer.cpp:140).
ConsumeEnds == pc = "assign" ~> pc \in {"returned", "thrown", "exited"}
=============================================================================
