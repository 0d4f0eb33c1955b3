---------------------------- MODULE CommandHandler ----------------------------
(***************************************************************************)
(* From the bytes of a request to the bytes of its reply                   *)
(* (server/request_handler/command_handler.cpp, and the part of            *)
(* event_loop.cpp that calls it): every command with its checks and early  *)
(* replies, as an operator from the cache to the possible outcomes, each a *)
(* cache and a reply.  A worker runs a command without interruption; what  *)
(* other workers do to the cache meanwhile is the subject of ChronoCache.  *)
(*                                                                         *)
(* The cache is [state, entries, sets].  An entry has the number of clock  *)
(* ticks left until it is expired: 0 means that it is expired and has not  *)
(* been removed yet, Forever that it has no deadline.                      *)
(***************************************************************************)
EXTENDS SortedSets, Resp, TLC

CONSTANT disable_event_logging  \* of CacheConfig

Forever == -1
Entry(value, left) == [value |-> value, left |-> left]

Outcome(c, reply) == [cache |-> c, reply |-> reply]
Reply(c, reply) == {Outcome(c, reply)}

\* An error reply, also the one for an exception: what() is one word here.
Refuse(c, msg) == Reply(c, error(<<msg>>))

IsError(reply) == Head(reply) = "-"
ok == simple_string(<<"OK">>)
Flag(b) == integer(IF b THEN 1 ELSE 0)

\* check_accepting_ops throws.
WhenReady(c, outcomes) ==
    IF c.state = "READY" THEN outcomes ELSE Refuse(c, "ERR not ready to accept operations")
WithArgs(c, fits, outcomes) ==
    IF fits THEN outcomes ELSE Refuse(c, "ERR wrong number of arguments")

-----------------------------------------------------------------------------
(* Numbers in arguments. *)

\* std::stoll takes the longest prefix that is a number.
NumberPrefixes(s) == {n \in 1 .. Len(s) : IsNumber(SubSeq(s, 1, n))}
stoll(s) == Number(SubSeq(s, 1, CHOOSE n \in NumberPrefixes(s) :
                                    \A m \in NumberPrefixes(s) : m <= n))

\* A TTL that does not parse is an exception, one that is not positive an error.
WithTTL(c, s, Rest(_)) ==
    IF NumberPrefixes(s) = {} THEN Refuse(c, "ERR stoll")
    ELSE IF stoll(s) <= 0 THEN Refuse(c, "ERR invalid expire time")
    ELSE Rest(stoll(s))

\* Scores in units of 10^-7, and the words they are written as by Python's
\* str().
ScoreWord == [x \in {0, 4, 10, NaN} |-> CASE x = 0 -> "0.0" [] x = 4 -> "4e-07"
                                         [] x = 10 -> "1e-06" [] OTHER -> "nan"]
Scores == DOMAIN ScoreWord
IsScore(s) == \E x \in Scores : s = <<ScoreWord[x]>>
stod(s) == CHOOSE x \in Scores : s = <<ScoreWord[x]>>

\* std::to_string prints six decimals.
Rounded(x) == IF x = NaN THEN NaN ELSE ((x + 5) \div 10) * 10
FixedWord == [x \in {0, 10, NaN} |-> CASE x = 0 -> "0.000000" [] x = 10 -> "0.000001"
                                     [] OTHER -> "nan"]

-----------------------------------------------------------------------------
(* The cache, for one caller. *)

Stored(c, key, value, left) == [c EXCEPT !.entries = Put(@, key, Entry(value, left))]
Removed(c, keys) == [c EXCEPT !.entries = Restrict(@, DOMAIN @ \ keys)]
Live_unexpired_unchecked(c, key) == key \in DOMAIN c.entries  \* whatever its deadline
Live(c, key) == key \in DOMAIN c.entries /\ c.entries[key].left # 0

\* The event of a change is logged after the change, under the same lock, as
\* JSON: dump() throws if one of its texts is not UTF-8.  The change stays, and
\* the client gets the exception for an answer.
Loggable(texts) == disable_event_logging \/ \A s \in texts : Decodes(s)
Logged(c, texts, reply) ==
    IF Loggable(texts) THEN Reply(c, reply) ELSE Refuse(c, "ERR invalid UTF-8 byte")

\* process_and_remove_if of get, expire, persist and pttl: nothing to do for a
\* key that is absent, and an expired one goes.
OnLive(c, key, none, Do(_)) ==
    IF Live(c, key) THEN Do(c.entries[key]) ELSE Reply(Removed(c, {key}), none)

\* A deadline is passed one tick after it is reached.
Ticks(ttl) == ttl + 1

cmd_init(c, a) ==
    IF Len(a) > 1 THEN Refuse(c, "ERR wrong number of arguments")
    ELSE IF Len(a) = 1 /\ a[1] \notin {<<"true">>, <<"false">>}
         THEN Refuse(c, "ERR invalid argument")
    ELSE IF c.state = "READY" THEN Reply(c, ok)
    ELSE IF c.state # "UNINITIALIZED" THEN Refuse(c, "ERR init() requires UNINITIALIZED state")
    ELSE Reply([c EXCEPT !.state = "READY"], ok)
         \cup IF a = <<<<"true">>>>  \* the replay may fail; the topic is empty
              THEN Refuse([c EXCEPT !.state = "REPLAY_FAILED"], "ERR Kafka broker unreachable")
              ELSE {}

cmd_ping(c, a) == Reply(c, IF a = <<>> THEN simple_string(<<"PONG">>) ELSE bulk_string(a[1]))

\* The new value first, the checks of its TTL afterwards.
cmd_set_unchecked(c, a) ==
    IF Len(a) < 2 THEN Refuse(c, "ERR wrong number of arguments")
    ELSE IF Len(a) = 2 THEN WhenReady(c, Logged(Stored(c, a[1], a[2], Forever), {a[1], a[2]}, ok))
    ELSE IF Len(a) # 4 \/ a[3] \notin {<<"EX">>, <<"ex">>} THEN Refuse(c, "ERR syntax error")
    ELSE WithTTL(Stored(c, a[1], a[2], Forever), a[4],
            LAMBDA ttl :
                WhenReady(c, Logged(Stored(c, a[1], a[2], Ticks(ttl)), {a[1], a[2]}, ok)))

cmd_set(c, a) ==
    IF Len(a) < 2 THEN Refuse(c, "ERR wrong number of arguments")
    ELSE IF Len(a) = 2 THEN WhenReady(c, Logged(Stored(c, a[1], a[2], Forever), {a[1], a[2]}, ok))
    ELSE IF Len(a) # 4 \/ a[3] \notin {<<"EX">>, <<"ex">>} THEN Refuse(c, "ERR syntax error")
    ELSE WithTTL(c, a[4],
            LAMBDA ttl :
                WhenReady(c, Logged(Stored(c, a[1], a[2], Ticks(ttl)), {a[1], a[2]}, ok)))

\* A value sent as a line.
cmd_get_line(c, a) ==
    WithArgs(c, Len(a) = 1,
        WhenReady(c, OnLive(c, a[1], null_bulk, LAMBDA e : Reply(c, simple_string(e.value)))))

cmd_get(c, a) ==
    WithArgs(c, Len(a) = 1,
        WhenReady(c, OnLive(c, a[1], null_bulk, LAMBDA e : Reply(c, bulk_string(e.value)))))

\* One del after the other; each takes whatever node there is.  The first that
\* cannot be logged is the last.
cmd_del(c, a) ==
    LET unloggable == {i \in DOMAIN a : a[i] \in DOMAIN c.entries /\ ~Loggable({a[i]})}
    IN  WithArgs(c, a # <<>>, WhenReady(c,
            IF unloggable = {}
            THEN Reply(Removed(c, Range(a)),
                       integer(Cardinality(Range(a) \cap DOMAIN c.entries)))
            ELSE Refuse(Removed(c, Range(SubSeq(a, 1, Min(unloggable)))),
                        "ERR invalid UTF-8 byte")))

cmd_expire(c, a) ==
    WithArgs(c, Len(a) = 2,
        WithTTL(c, a[2], LAMBDA ttl :
            WhenReady(c, OnLive(c, a[1], Flag(FALSE), LAMBDA e :
                Logged(Stored(c, a[1], e.value, Ticks(ttl)), {a[1], e.value}, Flag(TRUE))))))

cmd_persist(c, a) ==
    WithArgs(c, Len(a) = 1,
        WhenReady(c, OnLive(c, a[1], Flag(FALSE), LAMBDA e :
            IF e.left = Forever THEN Reply(c, Flag(FALSE))
            ELSE Logged(Stored(c, a[1], e.value, Forever), {a[1], e.value}, Flag(TRUE)))))

cmd_pttl(c, a) ==
    WithArgs(c, Len(a) = 1,
        WhenReady(c, OnLive(c, a[1], integer(-2), LAMBDA e :
            Reply(c, integer(IF e.left = Forever THEN -1 ELSE e.left - 1)))))

\* A sorted-set operation, and how its value is written.
OnSets(c, result, Written(_)) ==
    WhenReady(c, Once(result, LAMBDA r : Reply([c EXCEPT !.sets = r.sets], Written(r.value))))
OrNull(value, Written(_)) == IF value = NoResult THEN null_bulk ELSE Written(value)

cmd_zadd(c, a) ==
    WithArgs(c, Len(a) = 3,
        IF ~IsScore(a[2]) THEN Refuse(c, "ERR stod")
        ELSE OnSets(c, zadd(c.sets, a[1], stod(a[2]), a[3]), Flag))

cmd_zscore(c, a) ==
    WithArgs(c, Len(a) = 2,
        OnSets(c, zscore(c.sets, a[1], a[2]), LAMBDA score :
            OrNull(score, LAMBDA x : bulk_string(<<FixedWord[Rounded(x)]>>))))

cmd_zrem(c, a) == WithArgs(c, Len(a) = 2, OnSets(c, zrem(c.sets, a[1], a[2]), Flag))

cmd_zrank(c, a) ==
    WithArgs(c, Len(a) = 2,
        OnSets(c, zrank(c.sets, a[1], a[2]), LAMBDA r : OrNull(r, integer)))

-----------------------------------------------------------------------------
\* to_upper, of the words that occur in lower case.
Upper == ("get" :> "GET")
to_upper(s) == [i \in DOMAIN s |-> IF s[i] \in DOMAIN Upper THEN Upper[s[i]] ELSE s[i]]

\* The command named name, with its arguments a.
Dispatch(c, name, a) ==
    CASE to_upper(name) = <<"INIT">> -> cmd_init(c, a)
      [] to_upper(name) = <<"PING">> -> cmd_ping(c, a)
      [] to_upper(name) = <<"SET">> -> cmd_set(c, a)
      [] to_upper(name) = <<"GET">> -> cmd_get(c, a)
      [] to_upper(name) = <<"DEL">> -> cmd_del(c, a)
      [] to_upper(name) = <<"EXPIRE">> -> cmd_expire(c, a)
      [] to_upper(name) = <<"PERSIST">> -> cmd_persist(c, a)
      [] to_upper(name) = <<"PTTL">> -> cmd_pttl(c, a)
      [] to_upper(name) = <<"ZADD">> -> cmd_zadd(c, a)
      [] to_upper(name) = <<"ZSCORE">> -> cmd_zscore(c, a)
      [] to_upper(name) = <<"ZREM">> -> cmd_zrem(c, a)
      [] to_upper(name) = <<"ZRANK">> -> cmd_zrank(c, a)
      [] OTHER -> Reply(c, error(<<"ERR unknown command">> \o name))

execute(c, command) ==
    IF command.type # "Array" \/ command.array = <<>>
    THEN Refuse(c, "ERR invalid command format")
    ELSE Once([i \in DOMAIN command.array |-> command.array[i].str_value],
              LAMBDA strings : Dispatch(c, Head(strings), Tail(strings)))

\* What the event loop does with the body of a request.
Handle(c, body) ==
    Once(parse(body, FALSE),
         LAMBDA command : IF command = nullopt THEN Refuse(c, "ERR invalid RESP message")
                          ELSE execute(c, command))
=============================================================================
