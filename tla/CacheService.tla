----------------------------- MODULE CacheService -----------------------------
(***************************************************************************)
(* What a client of the cache is promised: it makes one call at a time;    *)
(* each takes effect once, at one moment between its start and its end, on *)
(* a store of values with TTLs and on sorted sets that are functions from  *)
(* members to scores, and returns what it found there.  There are no       *)
(* bytes, no replies and no trees here.                                    *)
(*                                                                         *)
(* Once a call has been given up on a connection, the answers of that      *)
(* connection say nothing any more; the effects still happen once and in   *)
(* the order of the calls.                                                 *)
(***************************************************************************)
EXTENDS Integers, Sequences, FiniteSets

CONSTANTS NaN, Before(_, _)

VARIABLES
    state,      \* of the cache: UNINITIALIZED, READY, REPLAY_FAILED
    store,      \* key -> value and the ticks it has left; 0 is expired
    scores,     \* key -> member -> score
    unordered,  \* the keys whose set has been given a NaN
    phase,      \* of the call: idle, pending, done
    call, result,
    gave_up,    \* a call has been given up
    late        \* the calls given up before their effect

vars == <<state, store, scores, unordered, phase, call, result, gave_up, late>>

Answer(kind, str, int) == [kind |-> kind, str |-> str, int |-> int]
Str(s) == Answer("str", s, 0)
Num(n) == Answer("int", <<>>, n)
Float(x) == Answer("float", <<>>, x)
None == Answer("None", <<>>, 0)
Raised == Answer("raised", <<>>, 0)
NoAnswer == Answer("nothing", <<>>, 0)
Bool(b) == Num(IF b THEN 1 ELSE 0)

-----------------------------------------------------------------------------
(* The store. *)

Unlimited == -1
Left(ttl) == IF ttl = 0 THEN Unlimited ELSE ttl + 1
Has(key) == key \in DOMAIN store /\ store[key].left # 0

With(f, x, y) == [z \in DOMAIN f \cup {x} |-> IF z = x THEN y ELSE f[z]]
Without(f, xs) == [z \in DOMAIN f \ xs |-> f[z]]
Elements(s) == {s[i] : i \in DOMAIN s}

ScoresOf(key) == IF key \in DOMAIN scores THEN scores[key] ELSE <<>>
IsIn(c) == c.member \in DOMAIN ScoresOf(c.key)

Precedes(f, m, n) ==
    \/ f[m] < f[n]
    \/ f[m] = f[n] /\ Before(m, n)

\* The effect of a call.  A cache that is not READY is left as it is, except by
\* init, which may fail when it replays.  Looking up an expired value forgets it.
StoreAfter(c) ==
    CASE c.name = "set" -> With(store, c.key, [value |-> c.value, left |-> Left(c.ttl)])
      [] c.name = "delete" -> Without(store, Elements(c.keys))
      [] c.name \in {"get", "expire", "persist", "pttl"} /\ ~Has(c.key) -> Without(store, {c.key})
      [] c.name = "expire" /\ Has(c.key) -> [store EXCEPT ![c.key].left = Left(c.ttl)]
      [] c.name = "persist" /\ Has(c.key) -> [store EXCEPT ![c.key].left = Unlimited]
      [] OTHER -> store

ScoresAfter(c) ==
    CASE c.name = "zadd" -> With(scores, c.key, With(ScoresOf(c.key), c.member, c.score))
      [] c.name = "zrem" /\ IsIn(c) -> [scores EXCEPT ![c.key] = Without(@, {c.member})]
      [] OTHER -> scores

StatesAfter(c) ==
    IF c.name # "init" \/ state # "UNINITIALIZED" THEN {state}
    ELSE IF c.replay THEN {"READY", "REPLAY_FAILED"} ELSE {"READY"}

Effect(c) ==
    /\ state' \in StatesAfter(c)
    /\ IF state = "READY" THEN store' = StoreAfter(c) /\ scores' = ScoresAfter(c)
                          ELSE UNCHANGED <<store, scores>>
    /\ unordered' = IF state = "READY" /\ c.name = "zadd" /\ c.score = NaN
                    THEN unordered \cup {c.key} ELSE unordered

\* The answer r to a call.  A text that is not ASCII need not come back: the
\* client cannot read it.  delete counts values that have expired unnoticed.  A
\* score comes back with six decimals.  The rank is the number of members
\* before this one, unless a NaN has left the order open.
Text(s, r) == r = Str(s) \/ (r = Raised /\ \E i \in DOMAIN s : s[i] = "e")

AnswerOnReady(c, r) ==
    LET f == ScoresOf(c.key)
    IN  CASE c.name = "get" -> IF Has(c.key) THEN Text(store[c.key].value, r) ELSE r = None
          [] c.name = "set" -> r = Str(<<"OK">>)
          [] c.name = "delete" -> r = Num(Cardinality(Elements(c.keys) \cap DOMAIN store))
          [] c.name = "expire" -> r = Bool(Has(c.key))
          [] c.name = "persist" -> r = Bool(Has(c.key) /\ store[c.key].left # Unlimited)
          [] c.name = "pttl" ->
                r = Num(IF ~Has(c.key) THEN -2
                        ELSE IF store[c.key].left = Unlimited THEN -1 ELSE store[c.key].left - 1)
          [] c.name = "zadd" -> r = Bool(~IsIn(c))
          [] c.name = "zrem" -> r = Bool(IsIn(c))
          [] c.name = "zscore" ->
                r = IF ~IsIn(c) THEN None
                    ELSE Float(IF f[c.member] = NaN THEN NaN ELSE ((f[c.member] + 5) \div 10) * 10)
          [] c.name = "zrank" ->
                IF ~IsIn(c) THEN r = None
                ELSE IF c.key \in unordered THEN r.kind = "int"
                ELSE r = Num(Cardinality({m \in DOMAIN f : Precedes(f, m, c.member)}))

Answers(c, r) ==
    CASE c.name = "ping" -> Text(IF c.value = <<>> THEN <<"PONG">> ELSE c.value, r)
      [] c.name = "init" -> r = IF state' = "READY" THEN Str(<<"OK">>) ELSE Raised
      [] OTHER -> IF state = "READY" THEN AnswerOnReady(c, r) ELSE r = Raised

-----------------------------------------------------------------------------
Init ==
    /\ state \in {"UNINITIALIZED", "READY"}
    /\ store = <<>> /\ scores = <<>> /\ unordered = {}
    /\ phase = "idle" /\ result = NoAnswer
    /\ gave_up = FALSE /\ late = <<>>

Unchanged == UNCHANGED <<state, store, scores, unordered>>

\* A client starts a call: any call.
Invoke ==
    /\ phase = "idle" /\ phase' = "pending"
    /\ result' = NoAnswer
    /\ Unchanged /\ UNCHANGED <<gave_up, late>>

\* The calls take effect in their order.  What is answered is known as long as
\* no call has been given up.
Perform ==
    /\ phase = "pending" /\ late = <<>>
    /\ phase' = "done"
    /\ Effect(call)
    /\ IF gave_up THEN UNCHANGED result ELSE Answers(call, result')
    /\ UNCHANGED <<call, gave_up, late>>

PerformLate ==
    /\ late # <<>> /\ late' = Tail(late)
    /\ Effect(Head(late))
    /\ UNCHANGED <<phase, call, result, gave_up>>

Return ==
    /\ phase = "done" /\ ~gave_up /\ phase' = "idle"
    /\ Unchanged /\ UNCHANGED <<call, result, gave_up, late>>

\* The client stops waiting; after the first time it no longer knows which
\* call it gets an answer to.
GiveUp ==
    /\ phase # "idle" /\ phase' = "idle"
    /\ gave_up' = TRUE
    /\ result' = NoAnswer
    /\ late' = IF phase = "pending" THEN Append(late, call) ELSE late
    /\ Unchanged /\ UNCHANGED call

\* A clock tick.
Tick ==
    /\ store' = [k \in DOMAIN store |->
                    [store[k] EXCEPT !.left = IF @ > 0 THEN @ - 1 ELSE @]]
    /\ UNCHANGED <<state, scores, unordered, phase, call, result, gave_up, late>>

Next == Invoke \/ Perform \/ Return \/ GiveUp \/ PerformLate \/ Tick

Spec == Init /\ [][Next]_vars
=============================================================================
