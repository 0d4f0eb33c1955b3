------------------------------- MODULE Requests -------------------------------
(***************************************************************************)
(* One connection from end to end: the Python client (src/src/python/      *)
(* client.py, resp_parser.py), the stream in both directions, and a worker *)
(* that executes the requests on the cache (CommandHandler over Resp and   *)
(* SortedSets).                                                            *)
(*                                                                         *)
(* The client writes a call as a frame, reads the header of the reply and  *)
(* then as many bytes as it says, both in as many chunks as they arrive    *)
(* in, and gives up with an exception when its socket times out.  Its user *)
(* may catch that and go on with the same client, in the middle of a reply *)
(* if a part of one has been read.  How requests travel in pieces is the   *)
(* subject of EventLoop; here they are sent whole.                         *)
(***************************************************************************)
EXTENDS CommandHandler

CONSTANT
    Workload  \* what is sent in a behaviour: name -> [calls, frames, timeouts, fair];
              \* frames are bodies that another client sends, timeouts bounds
              \* how often the client stops waiting for what is on its way, fair
              \* says whether it is asked that calls return

VARIABLES
    workload,   \* which one this behaviour is
    cache,
    to_server,  \* requests on their way: age, call, body
    to_client,  \* replies on their way: age, bytes, and what is left to be read:
                \* the frame, its body, or a piece of the header or the body
    phase,      \* of the client: idle, or what it reads: header, body, a rest of
                \* either, or what follows a length that is none: garbage, endless
    call,       \* the call in progress, or the last one
    answer,     \* what the last call has returned
    timeouts,
    torn,       \* history: a call has been given up with a reply partly read
    meant,      \* history: what the reply given last means to the client
    nan_keys    \* history: the keys whose set has been given a NaN

vars == <<workload, cache, to_server, to_client, phase, call, answer, timeouts, torn,
          meant, nan_keys>>

\* The age of a request is the number of calls made after it.
Older(q) == [i \in DOMAIN q |-> [q[i] EXCEPT !.age = @ + 1]]

-----------------------------------------------------------------------------
(* The client's methods. *)

NoCall == [name |-> "raw", key |-> <<>>, keys |-> <<>>, value |-> <<>>, member |-> <<>>,
           score |-> 0, ttl |-> 0, replay |-> FALSE]

Answer(kind, str, int) == [kind |-> kind, str |-> str, int |-> int]
Raised == Answer("raised", <<>>, 0)
NoAnswer == Answer("nothing", <<>>, 0)

\* The tokens of a call; init, ping, get, ... of ChronoCacheClient.
tokens(c) ==
    CASE c.name = "init" -> <<<<"INIT">>, <<IF c.replay THEN "true" ELSE "false">>>>
      [] c.name = "ping" -> <<<<"PING">>>> \o (IF c.value = <<>> THEN <<>> ELSE <<c.value>>)
      [] c.name = "get" -> <<<<"GET">>, c.key>>
      [] c.name = "set" -> <<<<"SET">>, c.key, c.value>>
                               \o (IF c.ttl = 0 THEN <<>> ELSE <<<<"EX">>, to_string(c.ttl)>>)
      [] c.name = "delete" -> <<<<"DEL">>>> \o c.keys
      [] c.name = "expire" -> <<<<"EXPIRE">>, c.key, to_string(c.ttl)>>
      [] c.name = "persist" -> <<<<"PERSIST">>, c.key>>
      [] c.name = "pttl" -> <<<<"PTTL">>, c.key>>
      [] c.name = "zadd" -> <<<<"ZADD">>, c.key, <<ScoreWord[c.score]>>, c.member>>
      [] c.name = "zscore" -> <<<<"ZSCORE">>, c.key, c.member>>
      [] c.name = "zrem" -> <<<<"ZREM">>, c.key, c.member>>
      [] c.name = "zrank" -> <<<<"ZRANK">>, c.key, c.member>>

Encoded(ts) == serialize_to_bulk_string([i \in DOMAIN ts |-> encode(ts[i])])

\* What is sent consists of bytes.
ASSUME RequestsAssumption ==
    /\ IntMax \in Nat \ {0} /\ disable_event_logging \in BOOLEAN
    /\ \A w \in DOMAIN Workload :
           /\ Workload[w].timeouts \in Nat /\ Workload[w].fair \in BOOLEAN
           /\ Workload[w].frames \subseteq Strings
           /\ \A c \in Workload[w].calls : Encoded(tokens(c)) \in Strings

\* parse of resp_parser.py: on the decoded text, so that it counts characters.
py_parse(bytes) ==
    IF Decodes(bytes) THEN Once(decode(bytes), LAMBDA text : parse(text, TRUE)) ELSE nullopt

\* _get_value_from_resp_value; the server sends no arrays.
Value_of(v) ==
    CASE v.type \in {"nullopt", "Error", "Array"} -> Raised
      [] v.type = "Integer" -> Answer("int", <<>>, v.int_value)
      [] OTHER -> IF v.is_null THEN Answer("None", <<>>, 0) ELSE Answer("str", v.str_value, 0)

Kinds(c) ==
    CASE c.name \in {"init", "ping", "set"} -> {"str"}
      [] c.name \in {"delete", "expire", "persist", "pttl", "zadd", "zrem"} -> {"int"}
      [] c.name \in {"get", "zscore"} -> {"str", "None"}
      [] c.name = "zrank" -> {"int", "None"}
      [] OTHER -> {"str", "int", "None"}

\* float() of what zscore reads.
ToFloat(r) ==
    LET fits == {x \in DOMAIN FixedWord : r.str = <<FixedWord[x]>>}
    IN  IF r.kind # "str" THEN r
        ELSE IF fits = {} THEN Raised ELSE Answer("float", <<>>, CHOOSE x \in fits : TRUE)

\* _request_str, _request_int, _request_optional_str, _request_optional_int.
Returned(c, bytes) ==
    Once(Once(py_parse(bytes), Value_of),
         LAMBDA r : IF r.kind \notin Kinds(c) THEN Raised
                    ELSE IF c.name = "zscore" THEN ToFloat(r) ELSE r)

-----------------------------------------------------------------------------
Init ==
    /\ workload \in DOMAIN Workload
    /\ cache \in [state : {"UNINITIALIZED", "READY"}, entries : {<<>>}, sets : {<<>>}]
    /\ to_server = <<>> /\ to_client = <<>>
    /\ phase = "idle" /\ call = NoCall /\ answer = NoAnswer
    /\ timeouts = 0 /\ torn = FALSE
    /\ meant = NoAnswer /\ nan_keys = {}

\* _send_request.
Send(c, body) ==
    /\ phase = "idle"
    /\ to_server' = Append(Older(to_server), [age |-> 0, call |-> c, body |-> body])
    /\ to_client' = Older(to_client)
    /\ phase' = "header" /\ call' = c /\ answer' = NoAnswer /\ meant' = NoAnswer
    /\ UNCHANGED <<workload, cache, timeouts, torn, nan_keys>>

Invoke == \E c \in Workload[workload].calls : Send(c, Encoded(tokens(c)))

\* Another client, which frames whatever it sends.
SendFrame == \E body \in Workload[workload].frames : Send(NoCall, body)

\* The reply to a request, and enqueue_response.
enqueue_response(q, o) ==
    /\ to_client' = Append(to_client, [age |-> q.age, left |-> "frame", bytes |-> o.reply])
    /\ meant' = Returned(q.call, o.reply)

\* The effect of a request, with its outcome o.
Run(q, o) ==
    /\ cache' = o.cache
    /\ nan_keys' = nan_keys \cup {k \in DOMAIN o.cache.sets : HoldsNaN(o.cache.sets[k])}
    /\ UNCHANGED <<workload, phase, call, answer, timeouts, torn>>

\* A worker that takes the newest request first.
ExecuteNewest ==
    /\ to_server # <<>> /\ to_server' = Front(to_server)
    /\ \E o \in Handle(cache, Last(to_server).body) :
           Run(Last(to_server), o) /\ enqueue_response(Last(to_server), o)

\* A worker that answers only what it does not refuse.
ExecuteSilently ==
    /\ to_server # <<>> /\ to_server' = Tail(to_server)
    /\ \E o \in Handle(cache, Head(to_server).body) :
           /\ Run(Head(to_server), o)
           /\ IF IsError(o.reply) THEN UNCHANGED <<to_client, meant>>
                                  ELSE enqueue_response(Head(to_server), o)

\* The loop over the requests of a read.
Execute ==
    /\ to_server # <<>> /\ to_server' = Tail(to_server)
    /\ \E o \in Handle(cache, Head(to_server).body) :
           Run(Head(to_server), o) /\ enqueue_response(Head(to_server), o)

-----------------------------------------------------------------------------
(* _recv_response: 4 bytes that are a length, and as many bytes as it says. *)

\* Bytes are taken off the stream.
Took(rest) ==
    /\ to_client # <<>>
    /\ to_client' = rest
    /\ UNCHANGED <<workload, cache, to_server, call, timeouts, torn, meant, nan_keys>>

\* q, with what is left of its first reply.
Begun(q, left) == [i \in DOMAIN q |-> IF i = 1 THEN [q[i] EXCEPT !.left = left] ELSE q[i]]
InStep == phase = "header" /\ to_client # <<>> /\ Head(to_client).left = "frame"

\* A recv in _recv_exact gives fewer bytes than are missing.
ReadSome ==
    /\ InStep \/ phase = "body"
    /\ Took(Begun(to_client, "piece"))
    /\ phase' = IF phase = "header" THEN "rest_of_header" ELSE "rest_of_body"
    /\ UNCHANGED answer

ReadHeader ==
    /\ InStep \/ phase = "rest_of_header"
    /\ Took(Begun(to_client, "body"))
    /\ phase' = "body"
    /\ UNCHANGED answer

ReadBody ==
    /\ phase \in {"body", "rest_of_body"}
    /\ Took(Tail(to_client))
    /\ phase' = "idle"
    /\ answer' = Returned(call, Head(to_client).bytes)

\* Out of step, bytes are taken up to the end of a reply or not.  A piece is cut
\* again, so that several calls may end in one reply, only while few replies are
\* missing: this bounds the replies that wait to be read.
TookOutOfStep ==
    /\ to_client # <<>>
    /\ \/ Took(Tail(to_client))
       \/ /\ Head(to_client).left = "piece" =>
                  Len(to_server) + Len(to_client) <= Workload[workload].timeouts
          /\ Took(Begun(to_client, "piece"))

\* A length is read from the middle of a reply.  It may be any; but a body has at
\* least 4 bytes, and begins with a type byte, so that it makes half a gigabyte
\* and more: a call that begins there waits for what does not exist.
ReadLength ==
    /\ phase = "header" /\ to_client # <<>> /\ Head(to_client).left # "frame"
    /\ TookOutOfStep
    /\ phase' \in IF Head(to_client).left = "body" THEN {"endless"} ELSE {"endless", "garbage"}
    /\ UNCHANGED answer

ReadOn ==
    /\ phase \in {"garbage", "endless"}
    /\ TookOutOfStep
    /\ UNCHANGED <<phase, answer>>

\* What has been read is parsed: one text of each kind.
Stretches == {<<>>, ok, Flag(FALSE), null_bulk, bulk_string(<<FixedWord[0]>>)}

ReadGarbage ==
    /\ phase = "garbage"
    /\ phase' = "idle"
    /\ answer' \in {Returned(call, stretch) : stretch \in Stretches}
    /\ UNCHANGED <<workload, cache, to_server, to_client, call, timeouts, torn, meant, nan_keys>>

\* recv times out: nothing is on its way, or it takes too long to arrive.  What
\* the call has read is gone.
Timeout ==
    /\ phase # "idle"
    /\ \/ timeouts < Workload[workload].timeouts
       \/ timeouts > 0 /\ to_server = <<>> /\ to_client = <<>>
    /\ timeouts' = IF timeouts < Workload[workload].timeouts THEN timeouts + 1 ELSE timeouts
    /\ torn' = (torn \/ phase # "header")
    /\ phase' = "idle" /\ answer' = Raised
    /\ UNCHANGED <<workload, cache, to_server, to_client, call, meant, nan_keys>>

\* The clock, as far as deadlines notice it.
ticked(e) == [e EXCEPT !.left = IF @ > 0 THEN @ - 1 ELSE @]
Tick ==
    /\ \E k \in DOMAIN cache.entries : cache.entries[k].left > 0
    /\ cache' = [cache EXCEPT !.entries = [k \in DOMAIN @ |-> ticked(@[k])]]
    /\ UNCHANGED <<workload, to_server, to_client, phase, call, answer, timeouts, torn,
                   meant, nan_keys>>

Receive == ReadSome \/ ReadHeader \/ ReadBody \/ ReadLength \/ ReadOn \/ ReadGarbage
Next == Invoke \/ SendFrame \/ Execute \/ Receive \/ Timeout \/ Tick

Spec == Init /\ [][Next]_vars

\* The worker serves its connections, the client reads what has arrived, and a
\* socket with a timeout does time out.
Fair == Workload[workload].fair
FairSpec == Spec /\ WF_vars(Fair /\ Execute) /\ WF_vars(Fair /\ (Receive \/ Timeout))

-----------------------------------------------------------------------------
(* Properties *)

Phases == {"idle", "header", "rest_of_header", "body", "rest_of_body", "garbage", "endless"}

TypeOK ==
    /\ workload \in DOMAIN Workload
    /\ cache.state \in {"UNINITIALIZED", "READY", "REPLAY_FAILED"}
    /\ \A k \in DOMAIN cache.entries : cache.entries[k].left \in Nat \cup {Forever}
    /\ \A i \in DOMAIN to_server : to_server[i].age \in Nat
    /\ \A i \in DOMAIN to_client :
           to_client[i].age \in Nat /\ to_client[i].left \in {"frame", "body", "piece"}
    /\ phase \in Phases
    /\ answer.kind \in {"nothing", "raised", "str", "int", "float", "None"}
    /\ timeouts \in Nat /\ torn \in BOOLEAN
    /\ nan_keys \subseteq DOMAIN cache.sets

\* After every sequence of ZADD and ZREM the heights and sizes stored in the
\* nodes of a tree are true and it is balanced; and as long as no NaN was among
\* the scores, it holds exactly the members and scores of the member map, in
\* order (sorted_set.cpp:24, :60; tree.cpp:41, :87).
TreesAgree ==
    \A k \in DOMAIN cache.sets :
        /\ Sound(cache.sets[k].tree)
        /\ k \notin nan_keys => Agrees(cache.sets[k])

\* Every reply is one frame, all of it: none is cut short and none is followed
\* by bytes that a client would take for the next one.  Only the error that
\* quotes the name of an unknown command may go on after its first CR LF.
RepliesAreFrames ==
    \A i \in DOMAIN to_client :
        LET v == parse(to_client[i].bytes, TRUE)
        IN  /\ v # nullopt
            /\ v.num_resp_bytes = Len(to_client[i].bytes) \/ IsError(to_client[i].bytes)

\* A request that is answered by an error has changed nothing, whichever check
\* it failed and however far it got, unless what fails is the logging of what it
\* has done (chrono_cache.cpp:44, producer.cpp:40): then there is one entry whose
\* event cannot be written, and whatever else has changed are keys deleted
\* before it.
EntryOf(entries, k) == IF k \in DOMAIN entries THEN {entries[k]} ELSE {}
Changes(old, new) == {k \in DOMAIN old \cup DOMAIN new : EntryOf(new, k) # EntryOf(old, k)}
OnlyUnloggable(old, new) ==
    \/ Changes(old, new) = {}
    \/ \E k \in Changes(old, new) :
           /\ ~Loggable({k} \cup {e.value : e \in EntryOf(new, k)})
           /\ (Changes(old, new) \ {k}) \cap DOMAIN new = {}

ErrorsChangeNothingLoggable ==
    [][Len(to_client') > Len(to_client) /\ IsError(Last(to_client').bytes) =>
          /\ cache'.sets = cache.sets
          /\ OnlyUnloggable(cache.entries, cache'.entries)]_vars

\* A request whose end is missing is refused, wherever it was cut
\* (resp_parser.cpp:74, :112).
IsComplete(body) ==
    Once(parse(body, FALSE), LAMBDA v : v # nullopt /\ v.num_resp_bytes = Len(body))

CutRequestsAreRefused ==
    [][/\ Len(to_client') > Len(to_client)
       /\ \E f \in Workload[workload].frames :
              IsStrictPrefix(Head(to_server).body, f) /\ IsComplete(f)
       => IsError(Last(to_client').bytes)]_vars

\* As long as every call that was given up had read nothing of a reply yet, a
\* call returns, whole, the answer to the request that was sent exactly as many
\* calls earlier as calls have been given up: none is skipped and none comes
\* twice (client.py:113).
AnswersLag ==
    [][~torn /\ Len(to_client') < Len(to_client) =>
          /\ phase \in {"body", "rest_of_body"}
          /\ Head(to_client).age = timeouts]_vars

\* Every call ends, with an answer or an exception.
CallsReturn == Fair /\ phase # "idle" ~> phase = "idle"

\* The connection implements the service: parsing and serializing on both
\* sides, the handler, the trees and the timeouts are invisible, but for what
\* CacheService leaves open.
Waiting == phase # "idle" /\ to_server # <<>>
Answered == phase # "idle" /\ to_server = <<>>

Service == INSTANCE CacheService WITH
    state <- cache.state,
    store <- [k \in DOMAIN cache.entries |->
                 [cache.entries[k] EXCEPT !.value = decode(@)]],
    scores <- [k \in DOMAIN cache.sets |-> cache.sets[k].member_score],
    unordered <- nan_keys,
    phase <- IF phase = "idle" THEN "idle" ELSE IF to_server = <<>> THEN "done" ELSE "pending",
    result <- IF timeouts > 0 THEN NoAnswer
              ELSE IF Answered THEN meant ELSE answer,
    gave_up <- timeouts > 0,
    late <- LET calls == [i \in DOMAIN to_server |-> to_server[i].call]
            IN  IF Waiting THEN Front(calls) ELSE calls

ImplementsService ==
    /\ Workload[workload].frames # {} \/ Service!Init
    /\ [][Workload[workload].frames # {} \/ Service!Next]_(Service!vars)
=============================================================================
