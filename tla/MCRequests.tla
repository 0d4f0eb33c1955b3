----------------------------- MODULE MCRequests -----------------------------
(* What Requests is model-checked with: five workloads on one connection.  *)
EXTENDS Requests

Order == <<<<"a">>, <<"b">>, <<"c">>, <<"d">>>>

\* The symbols of the requests, words among them, roughly as ASCII has them.
Symbols ==
    <<"CR", "LF", "$", "*", "+", "-", "0.0", "0", "1e-06", "1", "2", "3", "4e-07", "4", "5", "6",
      "7", "8", "9", ":", "DEL", "EXPIRE", "EX", "GET", "INIT", "PERSIST", "PING", "PTTL", "PX",
      "SET", "ZADD", "ZRANK", "ZREM", "ZSCORE", "a", "b", "c", "d", "false", "get", "k", "l",
      "nan", "true", "v", "w", "x", "e1", "e2">>

K == <<"k">>
Called(name) == [NoCall EXCEPT !.name = name, !.key = K]

\* Every call on values, with the values that are hard to carry: empty, with a
\* CR LF, and outside ASCII.
KeyCalls ==
    {[NoCall EXCEPT !.name = "init", !.replay = r] : r \in BOOLEAN}
    \cup {[NoCall EXCEPT !.name = "ping", !.value = v] : v \in {<<>>, <<"v">>, <<"e">>}}
    \cup {[Called("set") EXCEPT !.value = v, !.ttl = t] :
              v \in {<<>>, <<"e">>, CRLF}, t \in 0 .. 2}
    \cup {Called("get"), Called("persist"), Called("pttl"), [Called("expire") EXCEPT !.ttl = 1]}
    \cup {[NoCall EXCEPT !.name = "set", !.key = <<"l">>, !.value = <<"v">>]}
    \cup {[NoCall EXCEPT !.name = "delete", !.keys = ks] :
              ks \in {<<K>>, <<K, K>>, <<K, <<"l">>>>}}

\* Every call on one sorted set.
SetCalls ==
    {[NoCall EXCEPT !.name = "init"], Called("get")}
    \cup {[Called("zadd") EXCEPT !.member = Order[i], !.score = x] :
              i \in DOMAIN Order, x \in {0, 4, NaN}}
    \cup {[Called(n) EXCEPT !.member = Order[i]] :
              n \in {"zrem", "zscore", "zrank"}, i \in DOMAIN Order}

LateCalls ==
    {Called("get"), [Called("set") EXCEPT !.value = <<"v">>],
     [NoCall EXCEPT !.name = "delete", !.keys = <<K>>]}

\* Requests that are not what the client would send: cut, with a byte of their
\* framing that is another one or with one too many, or of other words.
Set == Encoded(<<<<"SET">>, K, <<"v">>, <<"EX">>, <<"2">>>>)
Get == Encoded(<<<<"get">>, K>>)
Bytes == {"$", "*", ":", "-", "CR", "LF", "0", "1", "2", "9", "x"}

Cut(body) == {SubSeq(body, 1, n) : n \in 0 .. Len(body) - 1}
Framing(body) == {i \in DOMAIN body : body[i] \in Bytes}
Changed(body) == {[body EXCEPT ![i] = b] : i \in Framing(body), b \in Bytes}
Widened(body) ==
    {InsertAt(body, i, b) : i \in DOMAIN body, b \in Bytes} \ {Append(body, b) : b \in Bytes}

Commands ==
    {<<w>> : w \in {"INIT", "PING", "SET", "GET", "DEL", "EXPIRE", "PERSIST", "PTTL",
                    "ZADD", "ZSCORE", "ZREM", "ZRANK", "CR"}}
Arguments == {<<>>, <<K>>, <<K, <<"0">>>>, <<K, <<"v">>, <<"EX">>>>, <<K, <<"v">>, <<"EX">>, <<"0">>>>,
              <<K, <<"v">>, <<"EX">>, <<"x">>>>, <<K, <<"v">>, <<"PX">>, <<"2">>>>,
              <<K, <<"0.0">>, <<"a">>>>, <<K, <<"x">>, <<"a">>>>, <<<<"true">>>>, <<K, <<"a">>>>}

Frames ==
    UNION {{body} \cup Cut(body) \cup Changed(body) \cup Widened(body) : body \in {Set, Get}}
    \cup {Encoded(<<n>> \o a) : n \in Commands, a \in Arguments}
    \cup {Encoded(<<CRLF>>), Encoded(<<>>)}

\* Texts that are not UTF-8, in keys and in values: their events cannot be
\* written.
Odd == <<"e2", "e1">>
UnloggedFrames ==
    {Encoded(ts) :
        ts \in {<<<<"SET">>, k, v>> : k \in {K, Odd}, v \in {<<"v">>, Odd}}
               \cup {<<<<"SET">>, k, v, <<"EX">>, <<"2">>>> : k \in {K, Odd}, v \in {<<"v">>, Odd}}
               \cup {<<<<n>>, k>> : n \in {"GET", "DEL", "PERSIST"}, k \in {K, Odd}}
               \cup {<<<<"EXPIRE">>, k, <<"1">>>> : k \in {K, Odd}}
               \cup {<<<<"DEL">>, K, Odd>>, <<<<"DEL">>, Odd, K>>, <<<<"DEL">>, Odd, Odd>>}}

MCWorkload ==
    "keys" :> [calls |-> KeyCalls, frames |-> {}, timeouts |-> 0, fair |-> TRUE]
    @@ "sets" :> [calls |-> SetCalls, frames |-> {}, timeouts |-> 0, fair |-> FALSE]
    @@ "late" :> [calls |-> LateCalls, frames |-> {}, timeouts |-> 2, fair |-> TRUE]
    @@ "frames" :> [calls |-> {}, frames |-> Frames, timeouts |-> 0, fair |-> FALSE]
    @@ "unlogged" :> [calls |-> {}, frames |-> UnloggedFrames, timeouts |-> 0, fair |-> FALSE]
=============================================================================
