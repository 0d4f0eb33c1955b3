---------------------------- MODULE ConsumerProofs ----------------------------
(***************************************************************************)
(* Proofs about Consumer, for any number of partitions and any bounds: a   *)
(* normal return means that the whole log was read, but for one partition  *)
(* at most for each record appended meanwhile.                             *)
(***************************************************************************)
EXTENDS Consumer, TLAPS, FiniteSetTheorems, SequenceTheorems

-----------------------------------------------------------------------------
(* Type correctness. *)

\* The loop goes on only below the limit, so that the counter stays in its type.
BelowLimit == pc \in {"assign", "loop"} => consecutive_timeouts < MAX_CONSECUTIVE_TIMEOUTS

LEMMA TypeInit == Init => TypeOK
<1> SUFFICES ASSUME Init PROVE TypeOK
  OBVIOUS
<1>1. log \in [Partitions -> Seq(Record)]
  <2>1. UNION {[1 .. n -> {"good", "bad"}] : n \in 0 .. MaxRecords} \subseteq Seq(Record)
    <3> SUFFICES ASSUME NEW n \in 0 .. MaxRecords, NEW s \in [1 .. n -> {"good", "bad"}]
                 PROVE  s \in Seq(Record)
      OBVIOUS
    <3>1. n \in Nat /\ s \in [1 .. n -> Record]
      BY ConsumerAssumption DEF ConsumerAssumption, Record
    <3>2. QED
      BY <3>1 DEF Record
  <2>2. QED
    BY <2>1 DEF Init
<1>2. initial \in [Partitions -> Nat]
  <2>1. \A p \in Partitions : Len(log[p]) \in Nat
    BY <1>1, LenProperties
  <2>2. QED
    BY <2>1 DEF Init
<1>3. QED
  BY <1>1, <1>2 DEF Init, TypeOK, NoEnd, MAX_CONSECUTIVE_TIMEOUTS

\* One step per action that writes to a partition's entry of a function.
LEMMA TypeReceive ==
    ASSUME TypeOK, NEW p \in Partitions, ReceiveMessage(p)
    PROVE  TypeOK'
<1>1. PICK i \in Unread(p) :
         /\ events' = IF log[p][i] = "good" THEN Append(events, <<p, i>>) ELSE events
         /\ position' = [position EXCEPT ![p] = i + 1]
  BY DEF ReceiveMessage
<1>2. i \in Nat \ {0}
  <2>1. position[p] \in Nat \ {0} /\ Len(log[p]) \in Nat
    BY LenProperties DEF TypeOK
  <2>2. QED
    BY <1>1, <2>1 DEF Unread
<1>3. events' \in Seq(Partitions \X (Nat \ {0}))
  <2>1. <<p, i>> \in Partitions \X (Nat \ {0})
    BY <1>2
  <2>2. Append(events, <<p, i>>) \in Seq(Partitions \X (Nat \ {0}))
    BY <2>1, AppendProperties DEF TypeOK
  <2>3. QED
    BY <1>1, <2>2 DEF TypeOK
<1>4. position' \in [Partitions -> Nat \ {0}]
  BY <1>1, <1>2 DEF TypeOK
<1>5. QED
  BY <1>3, <1>4 DEF ReceiveMessage, TypeOK, MAX_CONSECUTIVE_TIMEOUTS

LEMMA TypeTopic ==
    ASSUME TypeOK, NEW p \in Partitions,
           ProduceElsewhere(p) \/ \E i \in 1 .. Len(log[p]) - 1 : Compact(p, i)
    PROVE  TypeOK'
<1>1. log[p] \in Seq(Record) /\ Len(log[p]) \in Nat
  BY LenProperties DEF TypeOK
<1>2. CASE ProduceElsewhere(p)
  <2>1. Append(log[p], "good") \in Seq(Record)
    BY <1>1, AppendProperties DEF Record
  <2>2. log' \in [Partitions -> Seq(Record)]
    BY <1>2, <2>1 DEF ProduceElsewhere, TypeOK
  <2>3. QED
    BY <1>2, <2>2 DEF ProduceElsewhere, TypeOK
<1>3. ASSUME NEW i \in 1 .. Len(log[p]) - 1, Compact(p, i)
      PROVE  TypeOK'
  <2>1. [log[p] EXCEPT ![i] = "gone"] \in Seq(Record)
    BY <1>1, ExceptSeq DEF Record
  <2>2. log' = [log EXCEPT ![p] = [log[p] EXCEPT ![i] = "gone"]]
    BY <1>3 DEF Compact, TypeOK
  <2>3. log' \in [Partitions -> Seq(Record)]
    BY <2>1, <2>2 DEF TypeOK
  <2>4. QED
    BY <1>3, <2>3 DEF Compact, TypeOK
<1>4. QED
  BY <1>2, <1>3

LEMMA TypeEnd ==
    ASSUME TypeOK, NEW p \in Partitions, ReceiveEnd(p)
    PROVE  TypeOK'
<1>1. Len(log[p]) \in Nat
  BY LenProperties DEF TypeOK
<1>2. QED
  BY <1>1 DEF ReceiveEnd, TypeOK, MAX_CONSECUTIVE_TIMEOUTS

LEMMA TypeNext ==
    ASSUME TypeOK, BelowLimit, [Next]_vars
    PROVE  TypeOK'
<1>1. CASE assign_all_partitions
  BY <1>1 DEF assign_all_partitions, TypeOK, brokerVars
<1>2. CASE ReceiveTimeout
  <2>1. consecutive_timeouts' \in 0 .. MAX_CONSECUTIVE_TIMEOUTS
    BY <1>2 DEF ReceiveTimeout, TypeOK, BelowLimit, MAX_CONSECUTIVE_TIMEOUTS
  <2>2. QED
    BY <1>2, <2>1 DEF ReceiveTimeout, TypeOK, brokerVars
<1>3. CASE ReceiveError
  BY <1>3 DEF ReceiveError, TypeOK
<1>4. CASE UNCHANGED vars
  BY <1>4 DEF vars, brokerVars, TypeOK
<1>5. QED
  BY <1>1, <1>2, <1>3, <1>4, TypeReceive, TypeEnd, TypeTopic
     DEF Next, consume_all_events, Finished

LEMMA BelowLimitNext ==
    ASSUME TypeOK, BelowLimit, [Next]_vars
    PROVE  BelowLimit'
<1> USE DEF BelowLimit, TypeOK, MAX_CONSECUTIVE_TIMEOUTS
<1>1. CASE assign_all_partitions
  BY <1>1 DEF assign_all_partitions
<1>2. CASE \E p \in Partitions : ReceiveMessage(p) \/ ReceiveEnd(p)
  BY <1>2 DEF ReceiveMessage, ReceiveEnd
<1>3. CASE ReceiveTimeout \/ ReceiveError
  BY <1>3 DEF ReceiveTimeout, ReceiveError
<1>4. CASE \E p \in Partitions : \/ ProduceElsewhere(p)
                                 \/ \E i \in 1 .. Len(log[p]) - 1 : Compact(p, i)
  BY <1>4 DEF ProduceElsewhere, Compact
<1>5. CASE UNCHANGED vars
  BY <1>5 DEF vars
<1>6. QED
  BY <1>1, <1>2, <1>3, <1>4, <1>5 DEF Next, consume_all_events, Finished

\* The counter of timeouts never passes its limit, and everything else has its
\* type (consumer.cpp:131).
THEOREM TypeCorrect == Spec => []TypeOK
<1>1. Init => TypeOK /\ BelowLimit
  BY TypeInit DEF Init, BelowLimit, MAX_CONSECUTIVE_TIMEOUTS
<1>2. TypeOK /\ BelowLimit /\ [Next]_vars => (TypeOK /\ BelowLimit)'
  BY TypeNext, BelowLimitNext
<1>3. QED
  BY <1>1, <1>2, PTL DEF Spec

-----------------------------------------------------------------------------
(* The log is read whole. *)

\* A position is at most one past the last record, so that a record appended
\* is not taken for one that was read; and no end was reported that lies ahead.
PositionInLog ==
    \A p \in Partitions : position[p] <= Len(log[p]) + 1 /\ reported[p] <= Len(log[p])

\* Every record before the position of its partition has been read.
ReadSoFar ==
    \A p \in Partitions : \A i \in 1 .. Len(log[p]) :
        i < position[p] /\ log[p][i] = "good" => WasRead(p, i)

\* The partitions whose end, where it is now, has been reported.
Ended == {p \in Partitions : reported[p] = Len(log[p])}

\* An end that was reported stays one until something is appended, and one append
\* makes at most one partition eligible for another report.
EndsCounted ==
    /\ count_reached_eof <= Cardinality(Ended) + appends
    /\ \A p \in Ended : AtEnd(p)

CountedAll == pc = "returned" => count_reached_eof >= num_partitions

ReadInv ==
    TypeOK /\ BelowLimit /\ PositionInLog /\ ReadSoFar /\ EndsCounted /\ CountedAll

LEMMA LengthType == ASSUME TypeOK, NEW p \in Partitions PROVE Len(log[p]) \in Nat
BY LenProperties DEF TypeOK

\* The partitions whose end was reported are as many as their cardinality says.
LEMMA EndedFinite ==
    /\ Ended \subseteq Partitions /\ IsFiniteSet(Ended) /\ Cardinality(Ended) \in Nat
    /\ IsFiniteSet(Partitions) /\ Cardinality(Partitions) \in Nat
BY ConsumerAssumption, FS_Subset, FS_CardinalityType DEF Ended

LEMMA ReadInit == Init => ReadInv
<1> SUFFICES ASSUME Init PROVE ReadInv
  OBVIOUS
<1>1. TypeOK
  BY TypeInit
<1>2. BelowLimit /\ CountedAll
  BY DEF Init, BelowLimit, CountedAll, MAX_CONSECUTIVE_TIMEOUTS
<1>3. PositionInLog /\ ReadSoFar
  BY <1>1, LengthType DEF Init, PositionInLog, ReadSoFar, NoEnd
<1>4. EndsCounted
  <2>1. \A p \in Partitions : reported[p] = NoEnd /\ Len(log[p]) # NoEnd
    BY <1>1, LengthType DEF Init, NoEnd
  <2>2. Ended = {}
    BY <2>1 DEF Ended
  <2>3. QED
    BY <2>2, FS_EmptySet DEF Init, EndsCounted
<1>5. QED
  BY <1>1, <1>2, <1>3, <1>4 DEF ReadInv

\* A message: the records skipped on the way to it have been compacted.
LEMMA ReadReceive ==
    ASSUME ReadInv, NEW p \in Partitions, ReceiveMessage(p), TypeOK'
    PROVE  PositionInLog' /\ ReadSoFar' /\ EndsCounted' /\ CountedAll'
<1> USE DEF ReadInv
<1>1. PICK i \in Unread(p) :
         /\ \A j \in Unread(p) : i <= j
         /\ events' = IF log[p][i] = "good" THEN Append(events, <<p, i>>) ELSE events
         /\ position' = [position EXCEPT ![p] = i + 1]
  BY DEF ReceiveMessage
<1>2. UNCHANGED <<pc, count_reached_eof, log, reported, appends>>
  BY DEF ReceiveMessage
<1>3. position[p] \in Nat \ {0} /\ i \in position[p] .. Len(log[p]) /\ Len(log[p]) \in Nat
  BY LengthType DEF Unread, TypeOK
<1>4. /\ position' \in [Partitions -> Nat \ {0}]
      /\ position'[p] = i + 1
      /\ \A q \in Partitions \ {p} : position'[q] = position[q]
  BY <1>1, <1>3 DEF TypeOK
<1>5. PositionInLog'
  BY <1>2, <1>3, <1>4 DEF PositionInLog
<1> DEFINE longer == Append(events, <<p, i>>)
<1>a. /\ Len(events) \in Nat /\ DOMAIN events = 1 .. Len(events)
      /\ DOMAIN longer = 1 .. Len(events) + 1
      /\ \A j \in 1 .. Len(events) : longer[j] = events[j]
      /\ longer[Len(events) + 1] = <<p, i>>
  <2>1. <<p, i>> \in Partitions \X (Nat \ {0}) /\ events \in Seq(Partitions \X (Nat \ {0}))
    BY <1>3 DEF TypeOK
  <2>2. longer \in Seq(Partitions \X (Nat \ {0})) /\ Len(longer) = Len(events) + 1
    BY <2>1, AppendProperties
  <2>3. DOMAIN longer = 1 .. Len(longer) /\ DOMAIN events = 1 .. Len(events)
    BY <2>1, <2>2, LenProperties
  <2>4. QED
    BY <2>1, <2>2, <2>3, AppendProperties, LenProperties
<1> HIDE DEF longer
<1>b. events' = IF log[p][i] = "good" THEN longer ELSE events
  BY <1>1 DEF longer
<1>6. ReadSoFar'
  <2> SUFFICES ASSUME NEW q \in Partitions, NEW k \in 1 .. Len(log[q]),
                      k < position'[q], log[q][k] = "good"
               PROVE  WasRead(q, k)'
    BY <1>2 DEF ReadSoFar
  <2>1. CASE WasRead(q, k)
    <3>1. PICK j \in DOMAIN events : events[j] = <<q, k>>
      BY <2>1 DEF WasRead
    <3>2. j \in DOMAIN events' /\ events'[j] = events[j]
      BY <1>a, <1>b
    <3>3. QED
      BY <3>1, <3>2 DEF WasRead
  <2>2. CASE q = p /\ k = i
    <3>1. Len(events) + 1 \in DOMAIN events' /\ events'[Len(events) + 1] = <<p, i>>
      BY <1>a, <1>b, <2>2
    <3>2. QED
      BY <2>2, <3>1 DEF WasRead
  <2>3. CASE q = p /\ k < i
    <3>1. k \notin Unread(p)
      BY <1>1, <1>3, <2>3
    <3>2. k < position[p]
      BY <1>3, <2>3, <3>1 DEF Unread
    <3>3. QED
      BY <2>1, <2>3, <3>2 DEF ReadSoFar
  <2>4. CASE q # p
    BY <1>4, <2>1, <2>4 DEF ReadSoFar
  <2>5. QED
    BY <1>3, <1>4, <2>2, <2>3, <2>4
<1>7. EndsCounted'
  <2>1. Ended' = Ended /\ p \notin Ended
    BY <1>1, <1>2 DEF Ended, EndsCounted, AtEnd
  <2>2. \A q \in Ended : AtEnd(q)'
    BY <1>2, <1>4, <2>1 DEF Ended, EndsCounted, AtEnd, Unread
  <2>3. QED
    BY <1>2, <2>1, <2>2 DEF EndsCounted
<1>8. CountedAll'
  BY <1>2 DEF CountedAll
<1>9. QED
  BY <1>5, <1>6, <1>7, <1>8

\* The end of a partition: while nothing is appended, of one not counted yet.
LEMMA ReadEnd ==
    ASSUME ReadInv, NEW p \in Partitions, ReceiveEnd(p), TypeOK'
    PROVE  PositionInLog' /\ ReadSoFar' /\ EndsCounted' /\ CountedAll'
<1> USE DEF ReadInv
<1>1. /\ AtEnd(p) /\ reported[p] # Len(log[p])
      /\ reported' = [reported EXCEPT ![p] = Len(log[p])]
      /\ count_reached_eof' = count_reached_eof + 1
      /\ pc' = IF count_reached_eof' >= num_partitions THEN "returned" ELSE "loop"
      /\ UNCHANGED <<events, log, position, appends>>
  BY DEF ReceiveEnd
<1>2. PositionInLog' /\ ReadSoFar'
  <2>1. Len(log[p]) \in Nat
    BY LengthType
  <2>2. QED
    BY <1>1, <2>1 DEF PositionInLog, ReadSoFar, WasRead, TypeOK
<1>3. EndsCounted'
  <2>1. p \notin Ended
    BY <1>1 DEF Ended
  <2>2. Ended' = Ended \cup {p}
    BY <1>1 DEF Ended, TypeOK
  <2>3. Cardinality(Ended') = Cardinality(Ended) + 1
    BY <2>1, <2>2, EndedFinite, FS_AddElement
  <2>4. \A q \in Ended' : AtEnd(q)
    BY <1>1, <2>2 DEF EndsCounted
  <2>5. \A q \in Ended' : AtEnd(q)'
    BY <1>1, <2>4 DEF AtEnd, Unread
  <2>6. count_reached_eof' <= Cardinality(Ended') + appends'
    BY <1>1, <2>3, EndedFinite DEF EndsCounted, TypeOK
  <2>7. QED
    BY <2>5, <2>6 DEF EndsCounted
<1>4. CountedAll'
  BY <1>1 DEF CountedAll, num_partitions
<1>5. QED
  BY <1>2, <1>3, <1>4

\* The length of q once p has grown.
LengthAfter(p, q) == IF q = p THEN Len(log[q]) + 1 ELSE Len(log[q])

\* What the topic does in a step of its own: no partition gets shorter, none
\* longer without an append, and a record stays or goes.
LEMMA TopicKeeps ==
    ASSUME TypeOK, NEW p \in Partitions,
           ProduceElsewhere(p) \/ \E i \in 1 .. Len(log[p]) - 1 : Compact(p, i),
           NEW q \in Partitions
    PROVE  /\ Len(log'[q]) \in Nat /\ Len(log[q]) <= Len(log'[q])
           /\ \/ appends' = appends /\ Len(log'[q]) = Len(log[q])
              \/ appends' = appends + 1 /\ Len(log'[q]) = LengthAfter(p, q)
           /\ \A k \in 1 .. Len(log[q]) : log'[q][k] \in {log[q][k], "gone"}
           /\ UNCHANGED <<pc, count_reached_eof, events, position, reported>>
<1>1. log[p] \in Seq(Record) /\ log[q] \in Seq(Record) /\ Len(log[p]) \in Nat
      /\ Len(log[q]) \in Nat
  BY LenProperties DEF TypeOK
<1>2. CASE ProduceElsewhere(p)
  <2>1. log'[q] = IF q = p THEN Append(log[q], "good") ELSE log[q]
    BY <1>2 DEF ProduceElsewhere, TypeOK
  <2>2. /\ Len(Append(log[q], "good")) = Len(log[q]) + 1
        /\ \A k \in 1 .. Len(log[q]) : Append(log[q], "good")[k] = log[q][k]
    BY <1>1, AppendProperties DEF Record
  <2>3. appends' = appends + 1 /\ UNCHANGED <<pc, count_reached_eof, events, position, reported>>
    BY <1>2 DEF ProduceElsewhere
  <2>4. CASE q = p
    BY <1>1, <2>1, <2>2, <2>3, <2>4 DEF LengthAfter
  <2>5. CASE q # p
    BY <1>1, <2>1, <2>3, <2>5 DEF LengthAfter
  <2>6. QED
    BY <2>4, <2>5
<1>3. ASSUME NEW i \in 1 .. Len(log[p]) - 1, Compact(p, i)
      PROVE  /\ Len(log'[q]) = Len(log[q]) /\ appends' = appends
             /\ \A k \in 1 .. Len(log[q]) : log'[q][k] \in {log[q][k], "gone"}
             /\ UNCHANGED <<pc, count_reached_eof, events, position, reported>>
  <2>1. log'[q] = IF q = p THEN [log[q] EXCEPT ![i] = "gone"] ELSE log[q]
    BY <1>3 DEF Compact, TypeOK
  <2>2. CASE q = p
    <3>1. /\ Len([log[q] EXCEPT ![i] = "gone"]) = Len(log[q])
          /\ \A k \in 1 .. Len(log[q]) :
               [log[q] EXCEPT ![i] = "gone"][k] = IF k = i THEN "gone" ELSE log[q][k]
      <4>1. i \in 1 .. Len(log[q]) /\ "gone" \in Record
        BY <1>1, <2>2 DEF Record
      <4>2. QED
        BY <1>1, <4>1, ExceptSeq
    <3>2. QED
      BY <1>3, <2>1, <2>2, <3>1 DEF Compact
  <2>3. QED
    BY <1>3, <2>1, <2>2 DEF Compact
<1>4. CASE \E i \in 1 .. Len(log[p]) - 1 : Compact(p, i)
  BY <1>1, <1>3, <1>4
<1>5. QED
  BY <1>2, <1>4

LEMMA ReadTopic ==
    ASSUME ReadInv, NEW p \in Partitions,
           ProduceElsewhere(p) \/ \E i \in 1 .. Len(log[p]) - 1 : Compact(p, i)
    PROVE  PositionInLog' /\ ReadSoFar' /\ EndsCounted' /\ CountedAll'
<1> USE DEF ReadInv
<1>1. \A q \in Partitions :
         /\ Len(log'[q]) \in Nat /\ Len(log[q]) \in Nat /\ Len(log[q]) <= Len(log'[q])
         /\ \/ appends' = appends /\ Len(log'[q]) = Len(log[q])
            \/ appends' = appends + 1 /\ Len(log'[q]) = LengthAfter(p, q)
         /\ \A k \in 1 .. Len(log[q]) : log'[q][k] \in {log[q][k], "gone"}
  BY TopicKeeps, LengthType
<1>2. UNCHANGED <<pc, count_reached_eof, events, position, reported>>
  BY TopicKeeps
<1>3. \A q \in Partitions : position[q] \in Nat \ {0}
  BY DEF TypeOK
<1>4. PositionInLog'
  <2> SUFFICES ASSUME NEW q \in Partitions
               PROVE  position[q] <= Len(log'[q]) + 1 /\ reported[q] <= Len(log'[q])
    BY <1>2 DEF PositionInLog
  <2>1. /\ position[q] \in Nat /\ reported[q] \in Int
        /\ position[q] <= Len(log[q]) + 1 /\ reported[q] <= Len(log[q])
    BY DEF TypeOK, PositionInLog, NoEnd
  <2>2. Len(log'[q]) \in Nat /\ Len(log[q]) \in Nat /\ Len(log[q]) <= Len(log'[q])
    BY <1>1
  <2>3. QED
    BY <2>1, <2>2
<1>5. ReadSoFar'
  <2> SUFFICES ASSUME NEW q \in Partitions, NEW k \in 1 .. Len(log'[q]),
                      k < position[q], log'[q][k] = "good"
               PROVE  WasRead(q, k)
    BY <1>2 DEF ReadSoFar, WasRead
  <2>1. k \in 1 .. Len(log[q])
    BY <1>1, <1>3 DEF PositionInLog
  <2>2. log[q][k] = "good"
    BY <1>1, <2>1
  <2>3. QED
    BY <2>1, <2>2 DEF ReadSoFar
<1>6. \A q \in Ended : Len(log'[q]) = Len(log[q]) => AtEnd(q)'
  <2> SUFFICES ASSUME NEW q \in Ended, Len(log'[q]) = Len(log[q]),
                      NEW k \in position[q] .. Len(log[q])
               PROVE  log'[q][k] = "gone"
    BY <1>2 DEF AtEnd, Unread
  <2>1. q \in Partitions /\ AtEnd(q)
    BY DEF Ended, EndsCounted
  <2>2. k \in 1 .. Len(log[q])
    BY <1>1, <1>3, <2>1
  <2>3. log[q][k] = "gone"
    BY <2>1 DEF AtEnd, Unread
  <2>4. QED
    BY <1>1, <2>1, <2>2, <2>3
<1>7. EndsCounted'
  <2>1. CASE appends' = appends
    <3>1. \A q \in Partitions : Len(log'[q]) = Len(log[q])
      BY <1>1, <2>1 DEF TypeOK
    <3>2. Ended' = Ended
      BY <1>2, <3>1 DEF Ended
    <3>3. QED
      BY <1>2, <1>6, <2>1, <3>1, <3>2 DEF EndsCounted, Ended
  <2>2. CASE appends' = appends + 1
    <3>1. \A q \in Partitions : Len(log'[q]) = LengthAfter(p, q)
      BY <1>1, <2>2 DEF TypeOK
    <3>2. reported[p] # Len(log[p]) + 1
      <4>1. reported[p] \in Int /\ reported[p] <= Len(log[p]) /\ Len(log[p]) \in Nat
        BY <1>1 DEF PositionInLog, TypeOK, NoEnd
      <4>2. QED
        BY <4>1
    <3>3. Ended' = Ended \ {p}
      BY <1>2, <3>1, <3>2 DEF Ended, LengthAfter
    <3>4. Cardinality(Ended) <= Cardinality(Ended') + 1
      <4>1. CASE p \in Ended
        <5>1. Cardinality(Ended \ {p}) = Cardinality(Ended) - 1
          BY <4>1, EndedFinite, FS_RemoveElement
        <5>2. QED
          BY <3>3, <5>1, EndedFinite
      <4>2. CASE p \notin Ended
        <5>1. Ended' = Ended
          BY <3>3, <4>2
        <5>2. QED
          BY <5>1, EndedFinite
      <4>3. QED
        BY <4>1, <4>2
    <3>5. Cardinality(Ended') \in Nat
      BY <3>3, EndedFinite, FS_Subset, FS_CardinalityType
    <3>6. \A q \in Ended' : AtEnd(q)'
      BY <1>6, <3>1, <3>3, EndedFinite DEF LengthAfter
    <3>7. count_reached_eof' <= Cardinality(Ended') + appends'
      <4>1. /\ count_reached_eof' = count_reached_eof /\ count_reached_eof \in Nat
            /\ appends \in Nat /\ count_reached_eof <= Cardinality(Ended) + appends
        BY <1>2 DEF EndsCounted, TypeOK
      <4>2. QED
        BY <2>2, <3>4, <3>5, <4>1, EndedFinite
    <3>8. QED
      BY <3>6, <3>7 DEF EndsCounted
  <2>3. QED
    BY <1>1, <2>1, <2>2
<1>8. CountedAll'
  BY <1>2 DEF CountedAll
<1>9. QED
  BY <1>4, <1>5, <1>7, <1>8

LEMMA ReadNext ==
    ASSUME ReadInv, [Next]_vars
    PROVE  ReadInv'
<1>1. TypeOK' /\ BelowLimit'
  BY TypeNext, BelowLimitNext DEF ReadInv
<1>2. ASSUME UNCHANGED <<count_reached_eof, events, log, position, reported, appends>>,
             pc' = "returned" => pc = "returned"
      PROVE  ReadInv'
  BY <1>1, <1>2 DEF ReadInv, PositionInLog, ReadSoFar, WasRead, EndsCounted, Ended,
                    AtEnd, Unread, CountedAll
<1>3. CASE assign_all_partitions
  BY <1>2, <1>3 DEF assign_all_partitions, brokerVars
<1>4. CASE ReceiveTimeout
  BY <1>2, <1>4 DEF ReceiveTimeout, brokerVars
<1>5. CASE ReceiveError
  BY <1>2, <1>5 DEF ReceiveError
<1>6. CASE UNCHANGED vars
  BY <1>2, <1>6 DEF vars
<1>7. CASE \E p \in Partitions :
             \/ ReceiveMessage(p) \/ ReceiveEnd(p) \/ ProduceElsewhere(p)
             \/ \E i \in 1 .. Len(log[p]) - 1 : Compact(p, i)
  BY <1>1, <1>7, ReadReceive, ReadEnd, ReadTopic DEF ReadInv
<1>8. QED
  BY <1>3, <1>4, <1>5, <1>6, <1>7 DEF Next, consume_all_events, Finished

\* Only as many partitions as there were appends can be left before their end.
LEMMA FewLeft ==
    ASSUME ReadInv, pc = "returned"
    PROVE  /\ IsFiniteSet(Partitions \ Ended)
           /\ Cardinality(Partitions \ Ended) \in Nat
           /\ Cardinality(Partitions \ Ended) <= appends
<1>1. /\ IsFiniteSet(Partitions \ Ended)
      /\ Cardinality(Partitions \ Ended) = Cardinality(Partitions) - Cardinality(Partitions \cap Ended)
  BY EndedFinite, FS_Difference
<1>2. Partitions \cap Ended = Ended
  BY EndedFinite
<1>3. Cardinality(Partitions) <= Cardinality(Ended) + appends
  <2>1. /\ count_reached_eof >= Cardinality(Partitions) /\ count_reached_eof \in Nat
        /\ count_reached_eof <= Cardinality(Ended) + appends /\ appends \in Nat
    BY DEF ReadInv, CountedAll, EndsCounted, TypeOK, num_partitions
  <2>2. QED
    BY <2>1, EndedFinite
<1>4. appends \in Nat
  BY DEF ReadInv, TypeOK
<1>5. QED
  <2>1. Cardinality(Partitions \ Ended) = Cardinality(Partitions) - Cardinality(Ended)
    BY <1>1, <1>2
  <2>2. Cardinality(Partitions \ Ended) \in Nat
    BY <1>1, FS_CardinalityType
  <2>3. QED
    BY <1>1, <1>3, <1>4, <2>1, <2>2, EndedFinite

\* Nothing appended: no partition is left.
LEMMA ReadInvImplies == ReadInv => ReadsWholeLog
<1> SUFFICES ASSUME ReadInv, pc = "returned", appends = 0,
                    NEW p \in Partitions, NEW i \in 1 .. Len(log[p]), log[p][i] = "good"
             PROVE  WasRead(p, i)
  BY DEF ReadsWholeLog
<1> USE DEF ReadInv
<1>1. Ended = Partitions
  <2>1. Cardinality(Partitions \ Ended) = 0
    BY FewLeft
  <2>2. Partitions \ Ended = {}
    BY <2>1, FewLeft, FS_EmptySet
  <2>3. QED
    BY <2>2, EndedFinite
<1>2. AtEnd(p)
  BY <1>1 DEF EndsCounted
<1>3. i < position[p]
  <2>1. i \notin Unread(p)
    BY <1>2 DEF AtEnd
  <2>2. i \notin position[p] .. Len(log[p])
    BY <2>1 DEF Unread
  <2>3. Len(log[p]) \in Nat /\ position[p] \in Nat
    BY LengthType DEF TypeOK
  <2>4. QED
    BY <2>2, <2>3
<1>4. QED
  BY <1>3 DEF ReadSoFar

\* A normal return means that every record that parses has been read, when
\* nothing was appended meanwhile, for any number of partitions and records and
\* whatever the broker answers in between (consumer.cpp:84, :124).
THEOREM LogReadWhole == Spec => []ReadsWholeLog
<1>1. ReadInv /\ [Next]_vars => ReadInv'
  BY ReadNext
<1>2. QED
  BY <1>1, ReadInit, ReadInvImplies, PTL DEF Spec

\* A report of an end that has moved takes the place of one that was never made,
\* but only once for each record appended: consuming returns with no more
\* partitions cut short than there were appends (consumer.cpp:127).
THEOREM FewPartitionsMissed == Spec => []MissedPartitions
<1>1. ReadInv => MissedPartitions
  <2> SUFFICES ASSUME ReadInv, pc = "returned"
               PROVE  Cardinality({p \in Partitions : position[p] <= initial[p] /\ ~AtEnd(p)}) <= appends
    BY DEF MissedPartitions
  <2> DEFINE missed == {p \in Partitions : position[p] <= initial[p] /\ ~AtEnd(p)}
  <2>1. missed \subseteq Partitions \ Ended
    BY DEF ReadInv, EndsCounted
  <2> HIDE DEF missed
  <2>2. Cardinality(missed) <= Cardinality(Partitions \ Ended) /\ Cardinality(missed) \in Nat
    BY <2>1, FewLeft, FS_Subset, FS_CardinalityType
  <2>3. appends \in Nat
    BY DEF ReadInv, TypeOK
  <2>4. Cardinality(missed) <= appends
    BY <2>2, <2>3, FewLeft
  <2>5. QED
    BY <2>4 DEF missed
<1>2. ReadInv /\ [Next]_vars => ReadInv'
  BY ReadNext
<1>3. QED
  BY <1>1, <1>2, ReadInit, PTL DEF Spec

=============================================================================
