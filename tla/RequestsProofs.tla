--------------------------- MODULE RequestsProofs ---------------------------
(***************************************************************************)
(* Proofs about a connection from end to end: what the parser returns for  *)
(* any bytes, what every command does to the cache and replies, and that   *)
(* the stream of replies stays in order whatever times out.                *)
(***************************************************************************)
EXTENDS Requests, SortedSetsProofs

-----------------------------------------------------------------------------
(* Numbers.                                                                  *)

MagnitudeBody(s, f, i) == IF i = 0 THEN 0 ELSE f[i - 1] * 10 + DigitValue(s[i])
MagnitudeRecursion == INSTANCE Recursion WITH Step <- MagnitudeBody
MagnitudeOf(s) == CHOOSE f : f = [i \in Nat |-> MagnitudeBody(s, f, i)]

LEMMA MagnitudeSteps ==
    ASSUME NEW s
    PROVE  /\ Magnitude(s) = MagnitudeOf(s)[Len(s)]
           /\ MagnitudeOf(s)[0] = 0
           /\ \A i \in Nat :
                  MagnitudeOf(s)[i + 1] = MagnitudeOf(s)[i] * 10 + DigitValue(s[i + 1])
<1>1. MagnitudeRecursion!LooksBelow(s)
  <2> SUFFICES ASSUME NEW g, NEW h, NEW n \in Nat, \A m \in 0 .. n - 1 : g[m] = h[m]
               PROVE  MagnitudeBody(s, g, n) = MagnitudeBody(s, h, n)
    BY DEF MagnitudeRecursion!LooksBelow
  <2>1. n # 0 => g[n - 1] = h[n - 1]
    OBVIOUS
  <2> QED
    BY <2>1 DEF MagnitudeBody
<1> DEFINE f == MagnitudeOf(s)
<1>2. Magnitude(s) = f[Len(s)]
  BY DEF Magnitude, MagnitudeOf, MagnitudeBody
<1>3. f = CHOOSE g : g = [n \in Nat |-> MagnitudeBody(s, g, n)]
  BY DEF MagnitudeOf
<1> HIDE DEF f
<1>4. f = [n \in Nat |-> MagnitudeBody(s, f, n)]
  BY <1>1, <1>3, MagnitudeRecursion!RecursiveFunction
<1>5. \A n \in Nat : f[n] = MagnitudeBody(s, f, n)
  BY <1>4
<1>6. f[0] = 0
  BY <1>5 DEF MagnitudeBody
<1>7. \A i \in Nat : f[i + 1] = f[i] * 10 + DigitValue(s[i + 1])
  <2> TAKE i \in Nat
  <2>1. i + 1 # 0 /\ (i + 1) - 1 = i
    OBVIOUS
  <2>2. f[i + 1] = MagnitudeBody(s, f, i + 1)
    BY <1>5
  <2> QED
    BY <2>1, <2>2 DEF MagnitudeBody
<1> QED
  BY <1>2, <1>6, <1>7 DEF f

LEMMA DigitFacts ==
    /\ \A b : IsDigit(b) => DigitValue(b) \in 0 .. 9
    /\ \A n \in 0 .. 9 : IsDigit(Digits[n + 1]) /\ DigitValue(Digits[n + 1]) = n
BY DEF IsDigit, DigitValue, Digits

\* A text of digits stands for a natural.
LEMMA MagnitudeNat ==
    ASSUME NEW s, Len(s) \in Nat, \A i \in 1 .. Len(s) : IsDigit(s[i])
    PROVE  Magnitude(s) \in Nat
<1> DEFINE f == MagnitudeOf(s)
           S == {i \in Nat : i <= Len(s) => f[i] \in Nat}
<1>0. /\ Magnitude(s) = f[Len(s)] /\ f[0] = 0
      /\ \A i \in Nat : f[i + 1] = f[i] * 10 + DigitValue(s[i + 1])
  BY MagnitudeSteps
<1> HIDE DEF f
<1>1. 0 \in S
  <2>1. f[0] \in Nat
    BY <1>0
  <2> QED
    BY <2>1
<1>2. ASSUME NEW i \in Nat, i \in S PROVE i + 1 \in S
  <2> SUFFICES ASSUME i + 1 <= Len(s) PROVE f[i + 1] \in Nat
    OBVIOUS
  <2>1. f[i] \in Nat /\ DigitValue(s[i + 1]) \in 0 .. 9
    BY <1>2, DigitFacts
  <2>2. f[i + 1] = f[i] * 10 + DigitValue(s[i + 1])
    BY <1>0
  <2>3. \A a \in Nat, d \in 0 .. 9 : a * 10 + d \in Nat
    OBVIOUS
  <2> QED
    BY ONLY <2>1, <2>2, <2>3
<1> HIDE DEF S
<1>3. \A i \in Nat : i \in S
  BY <1>1, <1>2, MagnitudeRecursion!EveryNatural
<1> QED
  BY <1>0, <1>3 DEF S

LEMMA NumberInt ==
    ASSUME NEW T, NEW s \in Seq(T), IsNumber(s)
    PROVE  Number(s) \in Int /\ \A python \in BOOLEAN : parse_string_as_int(s, python) \in Int
<1>1. Len(Unsigned(s)) \in Nat /\ DOMAIN Unsigned(s) = 1 .. Len(Unsigned(s))
  BY DEF Unsigned, HasSign
<1>2. Magnitude(Unsigned(s)) \in Nat
  BY <1>1, MagnitudeNat DEF IsNumber
<1>3. Number(s) \in Int
  <2>1. CASE HasSign(s)
    <3>1. Unsigned(s) = Tail(s)
      BY <2>1 DEF Unsigned
    <3> QED
      BY <3>1, <1>2 DEF Number
  <2>2. CASE ~HasSign(s)
    BY <2>2, <1>2 DEF Number
  <2> QED
    BY <2>1, <2>2
<1> HIDE DEF Number
<1>4. Wrap(Number(s)) \in Int
  BY <1>3, RequestsAssumption DEF Wrap
<1> QED
  BY <1>3, <1>4 DEF parse_string_as_int

-----------------------------------------------------------------------------
(* What the parser returns for any bytes.                                    *)

LEMMA CrlfFacts ==
    ASSUME NEW T, NEW buf \in Seq(T)
    PROVE  LET k == find_crlf(buf)
               At(i) == buf[i] = "CR" /\ buf[i + 1] = "LF"
           IN  /\ k \in Nat
               /\ k # 0 => k \in 1 .. Len(buf) - 1 /\ At(k) /\ \A i \in 1 .. k - 1 : ~At(i)
               /\ k = 0 => \A i \in 1 .. Len(buf) - 1 : ~At(i)
<1> DEFINE found == {i \in 1 .. Len(buf) - 1 : buf[i] = "CR" /\ buf[i + 1] = "LF"}
           k == find_crlf(buf)
<1>1. k = IF found = {} THEN 0 ELSE Min(found)
  BY DEF find_crlf, Once
<1>2. \A i \in 1 .. Len(buf) - 1 : i \in found <=> buf[i] = "CR" /\ buf[i + 1] = "LF"
  OBVIOUS
<1>3. found \in SUBSET Nat /\ found \subseteq 1 .. Len(buf) - 1
  OBVIOUS
<1> HIDE DEF found, k
<1>4. found # {} => k \in found /\ \A i \in found : k <= i
  <2> SUFFICES ASSUME found # {} PROVE k \in found /\ \A i \in found : k <= i
    OBVIOUS
  <2>1. \E m \in found : \A i \in found : m <= i
    BY <1>3, Least
  <2> QED
    BY <1>1, <2>1 DEF Min
<1>5. k \in Nat /\ (k = 0 => found = {}) /\ (k # 0 => k \in found)
  BY <1>1, <1>3, <1>4
<1>6. k # 0 => \A i \in 1 .. k - 1 : i \notin found /\ i \in 1 .. Len(buf) - 1
  BY <1>3, <1>4, <1>5
<1> QED
  BY <1>2, <1>3, <1>5, <1>6 DEF k

\* A list of values whose texts are strings.
AreElements(array) == \E V : array \in Seq(V) /\ \A v \in V : v.str_value \in Strings

\* A value whose length is known.
IsValue(v) ==
    \E type, str, int, array, null, length :
        /\ str \in Strings /\ AreElements(array) /\ length \in Nat
        /\ v = RespValue(type, str, int, array, null, length)

\* What a parser returns.
IsParsed(v) == v = nullopt \/ v = Invalid \/ IsValue(v)

LEMMA ValueParts ==
    ASSUME NEW type, NEW str, NEW int, NEW array, NEW null, NEW length
    PROVE  LET v == RespValue(type, str, int, array, null, length)
           IN  /\ v.str_value = str /\ v.int_value = int /\ v.array = array
               /\ v.num_resp_bytes = length /\ v.type = type /\ v.is_null = null
BY DEF RespValue

LEMMA EmptyIsString == <<>> \in Strings /\ AreElements(<<>>)
<1>1. <<>> \in Strings
  BY DEF Strings
<1>2. <<>> \in Seq({})
  OBVIOUS
<1> QED
  BY <1>1, <1>2 DEF AreElements

LEMMA InvalidLength == Invalid.num_resp_bytes = NoLength
BY DEF Invalid, Text, RespValue

LEMMA MakeValue ==
    ASSUME NEW type, NEW str \in Strings, NEW int, NEW array, AreElements(array), NEW null,
           NEW length \in Nat
    PROVE  IsParsed(RespValue(type, str, int, array, null, length))
<1> DEFINE v == RespValue(type, str, int, array, null, length)
<1> SUFFICES \E ty, st, in, ar, nu, le :
                 /\ st \in Strings /\ AreElements(ar) /\ le \in Nat
                 /\ v = RespValue(ty, st, in, ar, nu, le)
  BY DEF IsValue, IsParsed
<1> WITNESS type, str, int, array, null, length
<1> QED
  OBVIOUS

LEMMA LineFacts ==
    ASSUME NEW buf \in Strings, find_crlf(buf) # 0
    PROVE  /\ Line(buf) \in Strings
           /\ LineEnd(buf) \in Nat /\ LineEnd(buf) <= Len(buf)
<1>1. buf \in Seq(Byte)
  BY DEF Strings
<1>2. find_crlf(buf) \in 1 .. Len(buf) - 1
  BY <1>1, CrlfFacts
<1> QED
  BY <1>1, <1>2, SubSeqProperties DEF Line, LineEnd, Strings

LEMMA ParseLine ==
    ASSUME NEW buf \in Strings, NEW type
    PROVE  IsParsed(parse_line(buf, type))
<1>1. find_crlf(buf) = 0 => IsParsed(parse_line(buf, type))
  BY DEF parse_line, IsParsed
<1>2. find_crlf(buf) # 0 => IsParsed(Text(type, Line(buf), LineEnd(buf)))
  BY LineFacts, EmptyIsString, MakeValue DEF Text
<1> QED
  BY <1>1, <1>2 DEF parse_line

LEMMA LineNumber ==
    ASSUME NEW buf \in Strings, NEW python \in BOOLEAN, find_crlf(buf) # 0, IsNumber(Line(buf))
    PROVE  parse_string_as_int(Line(buf), python) \in Int
BY LineFacts, NumberInt DEF Strings

LEMMA ParseInteger ==
    ASSUME NEW buf \in Strings, NEW python \in BOOLEAN
    PROVE  IsParsed(parse_integer(buf, python))
<1> DEFINE n == parse_string_as_int(Line(buf), python)
<1>1. find_crlf(buf) = 0 => parse_integer(buf, python) = nullopt
  BY DEF parse_integer, WithNumber
<1>2. find_crlf(buf) # 0 /\ ~IsNumber(Line(buf)) => parse_integer(buf, python) = Invalid
  BY DEF parse_integer, WithNumber, Once
<1>3. find_crlf(buf) # 0 /\ IsNumber(Line(buf)) =>
          parse_integer(buf, python) = RespValue("Integer", <<>>, n, <<>>, FALSE, LineEnd(buf))
  BY DEF parse_integer, WithNumber, Once
<1>4. find_crlf(buf) # 0 =>
          IsParsed(RespValue("Integer", <<>>, n, <<>>, FALSE, LineEnd(buf)))
  BY LineFacts, EmptyIsString, MakeValue
<1> QED
  BY <1>1, <1>2, <1>3, <1>4 DEF IsParsed

LEMMA ParseBulkString ==
    ASSUME NEW buf \in Strings, NEW python \in BOOLEAN
    PROVE  IsParsed(parse_bulk_string(buf, python))
<1> DEFINE n == parse_string_as_int(Line(buf), python)
           end == LineEnd(buf) + n
<1>1. parse_bulk_string(buf, python) =
          IF find_crlf(buf) = 0 THEN nullopt
          ELSE IF IsNumber(Line(buf))
               THEN IF n = -1 THEN Null("BulkString", LineEnd(buf))
                    ELSE IF n < -1 THEN Invalid ELSE Terminated(buf, end)
          ELSE Invalid
  BY DEF parse_bulk_string, WithLength, WithNumber, Once
<1>2. ASSUME find_crlf(buf) # 0, IsNumber(Line(buf)), ~(n < -1), n # -1
      PROVE  IsParsed(Terminated(buf, end))
  <2>1. n \in Nat
    BY <1>2, LineNumber
  <2> HIDE DEF n
  <2>2. end \in Nat /\ LineEnd(buf) \in Nat
    BY <1>2, <2>1, LineFacts
  <2> HIDE DEF end
  <2>3. Len(buf) >= end => SubSeq(buf, LineEnd(buf) + 1, end) \in Strings
    BY <2>2, SubSeqProperties DEF Strings
  <2>4. IsParsed(Payload(buf, end))
    <3>1. CASE Len(buf) < end
      BY <3>1 DEF Payload, IsParsed
    <3>2. CASE Len(buf) >= end
      <4>1. Len(buf) \in Nat
        BY DEF Strings
      <4>2. ~(Len(buf) < end) /\ end + 2 \in Nat
        BY <2>2, <3>2, <4>1
      <4> QED
        BY <2>3, <3>2, <4>2, EmptyIsString, MakeValue DEF Payload, Text
    <3> QED
      BY <2>2, <3>1, <3>2 DEF Strings
  <2> QED
    BY <2>4 DEF Terminated, IsParsed
<1>3. IsParsed(Null("BulkString", LineEnd(buf))) \/ find_crlf(buf) = 0
  BY LineFacts, EmptyIsString, MakeValue DEF Null
<1> HIDE DEF n, end
<1> QED
  BY <1>1, <1>2, <1>3 DEF IsParsed

\* p is the pair of At and start.
NextElement(At, v) ==
    Once(v, LAMBDA w : IF w = nullopt \/ w = Invalid THEN w
                       ELSE Once(At[w.num_resp_bytes], LAMBDA next : AddElement(w, next)))
ElementsBody(p, f, i) == IF i = 0 THEN ArrayOf(<<>>, p[2]) ELSE NextElement(p[1], f[i - 1])
ElementsRecursion == INSTANCE Recursion WITH Step <- ElementsBody
ElementsOf(At, start) == CHOOSE f : f = [i \in Nat |-> ElementsBody(<<At, start>>, f, i)]

LEMMA ElementSteps ==
    ASSUME NEW At, NEW start
    PROVE  /\ \A n : Elements(At, start, n) = ElementsOf(At, start)[n]
           /\ ElementsOf(At, start)[0] = ArrayOf(<<>>, start)
           /\ \A i \in Nat :
                  ElementsOf(At, start)[i + 1] = NextElement(At, ElementsOf(At, start)[i])
<1> DEFINE p == <<At, start>>
           f == ElementsOf(At, start)
<1>1. ElementsRecursion!LooksBelow(p)
  <2> SUFFICES ASSUME NEW g, NEW h, NEW n \in Nat, \A m \in 0 .. n - 1 : g[m] = h[m]
               PROVE  ElementsBody(p, g, n) = ElementsBody(p, h, n)
    BY DEF ElementsRecursion!LooksBelow
  <2>1. n # 0 => g[n - 1] = h[n - 1]
    OBVIOUS
  <2> QED
    BY <2>1 DEF ElementsBody
<1>2. \A n : Elements(At, start, n) = f[n]
  BY DEF Elements, ElementsOf, ElementsBody, NextElement
<1>3. f = CHOOSE g : g = [n \in Nat |-> ElementsBody(p, g, n)]
  BY DEF ElementsOf
<1> HIDE DEF f
<1>4. f = [n \in Nat |-> ElementsBody(p, f, n)]
  BY <1>1, <1>3, ElementsRecursion!RecursiveFunction
<1>5. \A n \in Nat : f[n] = ElementsBody(p, f, n)
  BY <1>4
<1>6. f[0] = ArrayOf(<<>>, start)
  BY <1>5 DEF ElementsBody
<1>7. \A i \in Nat : f[i + 1] = NextElement(At, f[i])
  <2> TAKE i \in Nat
  <2>1. i + 1 # 0 /\ (i + 1) - 1 = i
    OBVIOUS
  <2>2. f[i + 1] = ElementsBody(p, f, i + 1)
    BY <1>5
  <2> QED
    BY <2>1, <2>2 DEF ElementsBody
<1> QED
  BY <1>2, <1>6, <1>7 DEF f

LEMMA NextElementIsParsed ==
    ASSUME NEW At, \A i \in Nat : IsParsed(At[i]), NEW v, IsParsed(v)
    PROVE  IsParsed(NextElement(At, v))
<1>1. CASE v = nullopt \/ v = Invalid
  BY <1>1 DEF NextElement, Once
<1>2. CASE v # nullopt /\ v # Invalid
  <2> DEFINE next == At[v.num_resp_bytes]
  <2>1. NextElement(At, v) = AddElement(v, next)
    BY <1>2 DEF NextElement, Once
  <2>2. v.num_resp_bytes \in Nat /\ AreElements(v.array)
    BY <1>2, ValueParts DEF IsParsed, IsValue
  <2>3. IsParsed(next)
    BY <2>2
  <2> HIDE DEF next
  <2>4. CASE next = nullopt \/ next.num_resp_bytes = NoLength
    BY <2>1, <2>4 DEF AddElement, IsParsed
  <2>5. CASE next # nullopt /\ next.num_resp_bytes # NoLength
    <3>1. IsValue(next)
      BY <2>3, <2>5, InvalidLength DEF IsParsed
    <3>2. next.str_value \in Strings /\ next.num_resp_bytes \in Nat
      BY <3>1, ValueParts DEF IsValue
    <3>3. PICK V : v.array \in Seq(V) /\ \A w \in V : w.str_value \in Strings
      BY <2>2 DEF AreElements
    <3>4. Append(v.array, next) \in Seq(V \cup {next})
      BY <3>3
    <3>5. AreElements(Append(v.array, next))
      BY <3>2, <3>3, <3>4 DEF AreElements
    <3>6. v.num_resp_bytes + next.num_resp_bytes \in Nat
      BY <2>2, <3>2
    <3> QED
      BY <2>1, <2>5, <3>5, <3>6, EmptyIsString, MakeValue DEF AddElement, ArrayOf
  <2> QED
    BY <2>4, <2>5
<1> QED
  BY <1>1, <1>2

LEMMA ElementsAreParsed ==
    ASSUME NEW At, \A i \in Nat : IsParsed(At[i]), NEW start \in Nat
    PROVE  \A n \in Nat : IsParsed(Elements(At, start, n))
<1> DEFINE f == ElementsOf(At, start)
           S == {n \in Nat : IsParsed(f[n])}
<1>1. /\ \A n : Elements(At, start, n) = f[n]
      /\ f[0] = ArrayOf(<<>>, start)
      /\ \A i \in Nat : f[i + 1] = NextElement(At, f[i])
  BY ElementSteps
<1> HIDE DEF f
<1>2. 0 \in S
  BY <1>1, EmptyIsString, MakeValue DEF ArrayOf
<1>3. ASSUME NEW n \in Nat, n \in S PROVE n + 1 \in S
  <2>1. IsParsed(f[n])
    BY <1>3
  <2>2. IsParsed(NextElement(At, f[n]))
    BY <2>1, NextElementIsParsed
  <2> QED
    BY <1>1, <2>2
<1> HIDE DEF S
<1>4. \A n \in Nat : n \in S
  BY <1>2, <1>3, ElementsRecursion!EveryNatural
<1> QED
  BY <1>1, <1>4 DEF S

LEMMA ParseArray ==
    ASSUME NEW buf \in Strings, NEW python \in BOOLEAN, NEW At, \A i \in Nat : IsParsed(At[i])
    PROVE  IsParsed(parse_array(buf, python, At))
<1> DEFINE n == parse_string_as_int(Line(buf), python)
<1>1. parse_array(buf, python, At) =
          IF find_crlf(buf) = 0 THEN nullopt
          ELSE IF IsNumber(Line(buf))
               THEN IF n = -1 THEN Null("Array", LineEnd(buf))
                    ELSE IF n < -1 THEN Invalid ELSE Elements(At, LineEnd(buf), n)
          ELSE Invalid
  BY DEF parse_array, WithLength, WithNumber, Once
<1>2. ASSUME find_crlf(buf) # 0, IsNumber(Line(buf)), ~(n < -1), n # -1
      PROVE  IsParsed(Elements(At, LineEnd(buf), n))
  <2>1. n \in Nat
    BY <1>2, LineNumber
  <2>2. LineEnd(buf) \in Nat
    BY <1>2, LineFacts
  <2> HIDE DEF n
  <2> QED
    BY <2>1, <2>2, ElementsAreParsed
<1>3. IsParsed(Null("Array", LineEnd(buf))) \/ find_crlf(buf) = 0
  BY LineFacts, EmptyIsString, MakeValue DEF Null
<1> HIDE DEF n
<1> QED
  BY <1>1, <1>2, <1>3 DEF IsParsed

LEMMA ParseValue ==
    ASSUME NEW buf \in Strings, NEW python \in BOOLEAN, NEW At, \A i \in Nat : IsParsed(At[i])
    PROVE  IsParsed(parse_value(buf, python, At))
<1>1. IsParsed(nullopt) /\ IsParsed(Invalid)
  BY DEF IsParsed
<1> QED
  BY <1>1, ParseLine, ParseInteger, ParseBulkString, ParseArray DEF parse_value

\* A function on positions, counted from pos.
Shifted(f, pos) == [i \in Nat |-> f[pos + i]]

\* p is the pair of buf and python.
ParserFrom(buf, python, n, below) ==
    [pos \in Nat |->
        IF n = 0 THEN nullopt
        ELSE Once(From(buf, pos), LAMBDA rest :
                 parse_value(rest, python, Shifted(below, pos)))]
ParserBody(p, f, n) == ParserFrom(p[1], p[2], n, f[n - 1])
ParserRecursion == INSTANCE Recursion WITH Step <- ParserBody
ParserOf(buf, python) == CHOOSE f : f = [n \in Nat |-> ParserBody(<<buf, python>>, f, n)]

LEMMA ParserSteps ==
    ASSUME NEW buf, NEW python
    PROVE  /\ parse(buf, python) = ParserOf(buf, python)[Len(buf) + 1][0]
           /\ \A pos \in Nat : ParserOf(buf, python)[0][pos] = nullopt
           /\ \A n, pos \in Nat :
                  ParserOf(buf, python)[n + 1][pos] =
                      parse_value(From(buf, pos), python,
                                  Shifted(ParserOf(buf, python)[n], pos))
<1> DEFINE p == <<buf, python>>
           f == ParserOf(buf, python)
<1>1. ParserRecursion!LooksBelow(p)
  <2> SUFFICES ASSUME NEW g, NEW h, NEW n \in Nat, \A m \in 0 .. n - 1 : g[m] = h[m]
               PROVE  ParserBody(p, g, n) = ParserBody(p, h, n)
    BY DEF ParserRecursion!LooksBelow
  <2>1. CASE n = 0
    BY <2>1 DEF ParserBody, ParserFrom
  <2>2. CASE n # 0
    <3>1. g[n - 1] = h[n - 1]
      BY <2>2
    <3> QED
      BY <3>1 DEF ParserBody
  <2> QED
    BY <2>1, <2>2
<1>2. parse(buf, python) = f[Len(buf) + 1][0]
  BY DEF parse, ParserOf, ParserBody, ParserFrom, Shifted
<1>3. f = CHOOSE g : g = [n \in Nat |-> ParserBody(p, g, n)]
  BY DEF ParserOf
<1> HIDE DEF f
<1>4. f = [n \in Nat |-> ParserBody(p, f, n)]
  BY <1>1, <1>3, ParserRecursion!RecursiveFunction
<1>5. \A n \in Nat : f[n] = ParserBody(p, f, n)
  BY <1>4
<1>6. \A pos \in Nat : f[0][pos] = nullopt
  BY <1>5 DEF ParserBody, ParserFrom
<1>7. \A n, pos \in Nat :
          f[n + 1][pos] = parse_value(From(buf, pos), python, Shifted(f[n], pos))
  <2> TAKE n, pos \in Nat
  <2>1. n + 1 # 0 /\ (n + 1) - 1 = n /\ n + 1 \in Nat
    OBVIOUS
  <2>2. f[n + 1] = ParserFrom(buf, python, n + 1, f[n])
    BY <1>5, <2>1 DEF ParserBody
  <2> QED
    BY <2>1, <2>2 DEF ParserFrom, Once
<1> QED
  BY <1>2, <1>6, <1>7 DEF f

\* Whatever is asked of the parser inside a request is answered by IsParsed.
LEMMA ParserIsParsed ==
    ASSUME NEW buf \in Strings, NEW python \in BOOLEAN
    PROVE  \A n, pos \in Nat : IsParsed(ParserOf(buf, python)[n][pos])
<1> DEFINE f == ParserOf(buf, python)
           S == {n \in Nat : \A pos \in Nat : IsParsed(f[n][pos])}
<1>1. \A n, pos \in Nat :
          f[n + 1][pos] = parse_value(From(buf, pos), python, Shifted(f[n], pos))
  BY ParserSteps
<1>2. 0 \in S
  BY ParserSteps DEF IsParsed
<1> HIDE DEF f
<1>3. ASSUME NEW n \in Nat, n \in S PROVE n + 1 \in S
  <2> SUFFICES ASSUME NEW pos \in Nat PROVE IsParsed(f[n + 1][pos])
    OBVIOUS
  <2> DEFINE At == Shifted(f[n], pos)
  <2>1. \A i \in Nat : pos + i \in Nat /\ At[i] = f[n][pos + i]
    BY DEF Shifted
  <2>2. f[n + 1][pos] = parse_value(From(buf, pos), python, At)
    BY <1>1
  <2> HIDE DEF At
  <2>3. \A i \in Nat : IsParsed(At[i])
    BY <1>3, <2>1
  <2>4. From(buf, pos) \in Strings
    BY SubSeqProperties DEF From, Strings
  <2> QED
    BY <2>2, <2>3, <2>4, ParseValue
<1> HIDE DEF S
<1>4. \A n \in Nat : n \in S
  BY <1>2, <1>3, ParserRecursion!EveryNatural
<1> QED
  BY <1>4 DEF S, f

\* The parser is total: for any bytes it returns nullopt, the error value, or
\* a value whose texts are strings (resp_parser.cpp).
THEOREM ParserIsTotal ==
    ASSUME NEW buf \in Strings, NEW python \in BOOLEAN
    PROVE  IsParsed(parse(buf, python))
<1>1. parse(buf, python) = ParserOf(buf, python)[Len(buf) + 1][0]
  BY ParserSteps
<1>2. Len(buf) + 1 \in Nat /\ 0 \in Nat
  BY DEF Strings
<1> QED
  BY <1>1, <1>2, ParserIsParsed

-----------------------------------------------------------------------------
(* Frames that are cut.                                                      *)

\* c is the beginning of b.
IsCut(c, b) ==
    /\ b \in Strings /\ c \in Strings /\ Len(c) <= Len(b)
    /\ \A i \in 1 .. Len(c) : c[i] = b[i]

\* What is parsed from m bytes, where x is parsed from more of them.
IsCutResult(x, y, m) ==
    x # nullopt /\ x.num_resp_bytes # NoLength =>
        IF x.num_resp_bytes <= m THEN y = x ELSE y = nullopt

SameLine(c, b) ==
    IF find_crlf(b) # 0 /\ LineEnd(b) <= Len(c)
    THEN find_crlf(c) # 0 /\ LineEnd(c) = LineEnd(b) /\ Line(c) = Line(b)
    ELSE find_crlf(c) = 0

LEMMA SameSubSeq ==
    ASSUME NEW T, NEW b \in Seq(T), NEW c \in Seq(T), NEW i \in Nat \ {0}, NEW j \in Nat,
           j <= Len(c), j <= Len(b), \A k \in 1 .. Len(c) : c[k] = b[k]
    PROVE  SubSeq(c, i, j) = SubSeq(b, i, j)
<1>1. SubSeq(c, i, j) \in Seq(T) /\ SubSeq(b, i, j) \in Seq(T)
  BY SubSeqProperties
<1>2. Len(SubSeq(c, i, j)) = IF i <= j THEN j - i + 1 ELSE 0
  BY SubSeqProperties
<1>3. Len(SubSeq(b, i, j)) = IF i <= j THEN j - i + 1 ELSE 0
  BY SubSeqProperties
<1>4. ASSUME NEW k \in 1 .. j - i + 1 PROVE SubSeq(c, i, j)[k] = SubSeq(b, i, j)[k]
  <2>1. SubSeq(c, i, j)[k] = c[i + k - 1] /\ SubSeq(b, i, j)[k] = b[i + k - 1]
    BY SubSeqProperties
  <2>2. i + k - 1 \in 1 .. Len(c)
    OBVIOUS
  <2> QED
    BY <2>1, <2>2
<1> DEFINE p == SubSeq(c, i, j)
           q == SubSeq(b, i, j)
<1>5. /\ p \in Seq(T) /\ q \in Seq(T) /\ Len(p) = Len(q)
      /\ \A k \in 1 .. Len(p) : p[k] = q[k]
  BY <1>1, <1>2, <1>3, <1>4
<1> HIDE DEF p, q
<1>6. p = q
  BY ONLY <1>5, SeqEqual
<1> QED
  BY <1>6 DEF p, q

LEMMA CutLine ==
    ASSUME NEW b, NEW c, IsCut(c, b)
    PROVE  SameLine(c, b)
<1> DEFINE k == find_crlf(b)
           h == find_crlf(c)
           At(s, i) == s[i] = "CR" /\ s[i + 1] = "LF"
<1>1. b \in Seq(Byte) /\ c \in Seq(Byte) /\ Len(b) \in Nat /\ Len(c) \in Nat
  BY DEF IsCut, Strings
<1>2. /\ k \in Nat
      /\ k # 0 => k \in 1 .. Len(b) - 1 /\ At(b, k) /\ \A i \in 1 .. k - 1 : ~At(b, i)
      /\ k = 0 => \A i \in 1 .. Len(b) - 1 : ~At(b, i)
  BY <1>1, CrlfFacts
<1>3. /\ h \in Nat
      /\ h # 0 => h \in 1 .. Len(c) - 1 /\ At(c, h) /\ \A i \in 1 .. h - 1 : ~At(c, i)
      /\ h = 0 => \A i \in 1 .. Len(c) - 1 : ~At(c, i)
  BY <1>1, CrlfFacts
<1>4. \A i \in 1 .. Len(c) - 1 : i \in 1 .. Len(b) - 1 /\ (At(c, i) <=> At(b, i))
  <2> TAKE i \in 1 .. Len(c) - 1
  <2>1. i \in 1 .. Len(c) /\ i + 1 \in 1 .. Len(c) /\ i \in 1 .. Len(b) - 1
    BY <1>1 DEF IsCut
  <2> QED
    BY <2>1 DEF IsCut
<1> HIDE DEF k, h, At
<1>5. CASE k # 0 /\ k + 1 <= Len(c)
  <2>1. k \in 1 .. Len(c) - 1
    BY <1>1, <1>2, <1>5
  <2>2. At(c, k)
    BY <1>2, <1>4, <1>5, <2>1
  <2>3. h # 0
    BY <1>3, <2>1, <2>2
  <2>4. ~(h < k)
    <3> SUFFICES ASSUME h < k PROVE FALSE
      OBVIOUS
    <3>1. h \in 1 .. k - 1
      BY <1>2, <1>3, <2>3
    <3> QED
      BY <1>2, <1>3, <1>4, <1>5, <2>3, <3>1
  <2>5. ~(k < h)
    <3> SUFFICES ASSUME k < h PROVE FALSE
      OBVIOUS
    <3>1. k \in 1 .. h - 1
      BY <1>3, <2>1
    <3> QED
      BY <1>3, <2>2, <2>3, <3>1
  <2>6. h = k
    BY <1>2, <1>3, <2>4, <2>5
  <2>7. k - 1 \in Nat /\ k - 1 <= Len(c) /\ k - 1 <= Len(b)
    BY <1>1, <1>2, <1>5, <2>1
  <2>8. SubSeq(c, 2, k - 1) = SubSeq(b, 2, k - 1)
    BY <1>1, <2>7, SameSubSeq DEF IsCut
  <2> QED
    BY <1>5, <2>3, <2>6, <2>8 DEF SameLine, Line, LineEnd, h, k
<1>6. CASE ~(k # 0 /\ k + 1 <= Len(c))
  <2>1. h = 0
    <3> SUFFICES ASSUME h # 0 PROVE FALSE
      OBVIOUS
    <3>1. h \in 1 .. Len(c) - 1 /\ At(c, h)
      BY <1>3
    <3>2. h \in 1 .. Len(b) - 1 /\ At(b, h)
      BY <1>4, <3>1
    <3>3. k # 0
      BY <1>2, <3>2
    <3>4. Len(c) < k + 1
      BY <1>1, <1>2, <1>6, <3>3
    <3>5. h \in 1 .. k - 1
      BY <1>1, <1>2, <3>1, <3>4
    <3> QED
      BY <1>2, <3>2, <3>3, <3>5
  <2> QED
    BY <1>6, <2>1 DEF SameLine, LineEnd, h, k
<1> QED
  BY <1>5, <1>6

\* The length of a text or a number is the end of its line.
LEMMA CutParseLine ==
    ASSUME NEW b, NEW c, IsCut(c, b), NEW type
    PROVE  IsCutResult(parse_line(b, type), parse_line(c, type), Len(c))
<1>1. SameLine(c, b)
  BY CutLine
<1>2. find_crlf(b) # 0 => parse_line(b, type).num_resp_bytes = LineEnd(b)
  BY DEF parse_line, Text, RespValue
<1> QED
  BY <1>1, <1>2 DEF SameLine, IsCutResult, parse_line

LEMMA CutParseInteger ==
    ASSUME NEW b, NEW c, IsCut(c, b), NEW python
    PROVE  IsCutResult(parse_integer(b, python), parse_integer(c, python), Len(c))
<1> DEFINE x == parse_integer(b, python)
           AsInteger(s) == RespValue("Integer", <<>>, parse_string_as_int(Line(s), python), <<>>, FALSE,
                                 LineEnd(s))
<1>1. SameLine(c, b)
  BY CutLine
<1>2. \A s : parse_integer(s, python) = IF find_crlf(s) = 0 THEN nullopt
                                        ELSE IF IsNumber(Line(s)) THEN AsInteger(s) ELSE Invalid
  <2> TAKE s
  <2>1. find_crlf(s) = 0 => parse_integer(s, python) = nullopt
    BY DEF parse_integer, WithNumber
  <2>2. find_crlf(s) # 0 /\ ~IsNumber(Line(s)) => parse_integer(s, python) = Invalid
    BY DEF parse_integer, WithNumber, Once
  <2>3. find_crlf(s) # 0 /\ IsNumber(Line(s)) => parse_integer(s, python) = AsInteger(s)
    BY DEF parse_integer, WithNumber, Once
  <2> QED
    BY <2>1, <2>2, <2>3
<1>3. \A s : AsInteger(s).num_resp_bytes = LineEnd(s)
  BY DEF RespValue
<1>4. Line(c) = Line(b) /\ LineEnd(c) = LineEnd(b) => AsInteger(c) = AsInteger(b)
  OBVIOUS
<1> HIDE DEF AsInteger
<1> QED
  BY <1>1, <1>2, <1>3, <1>4, InvalidLength DEF SameLine, IsCutResult

LEMMA CutTerminated ==
    ASSUME NEW b, NEW c, IsCut(c, b), NEW end \in Nat, find_crlf(b) # 0, LineEnd(b) <= Len(c)
    PROVE  IsCutResult(Terminated(b, end), Terminated(c, end), Len(c))
<1>1. b \in Seq(Byte) /\ c \in Seq(Byte) /\ Len(b) \in Nat /\ Len(c) \in Nat /\ Len(c) <= Len(b)
  BY DEF IsCut, Strings
<1>2. LineEnd(c) = LineEnd(b) /\ LineEnd(b) + 1 \in Nat \ {0}
  BY CutLine, LineFacts DEF SameLine, IsCut
<1>3. CASE Len(c) < end + 2
  <2>1. Terminated(c, end) = nullopt
    BY <1>3 DEF Terminated
  <2>2. \/ Terminated(b, end) \in {nullopt, Invalid}
        \/ Terminated(b, end).num_resp_bytes = end + 2
    BY DEF Terminated, Payload, Text, RespValue
  <2>3. ~(end + 2 <= Len(c))
    BY <1>1, <1>3
  <2> QED
    BY <2>1, <2>2, <2>3, InvalidLength DEF IsCutResult
<1>4. CASE ~(Len(c) < end + 2)
  <2>1. end + 2 <= Len(c) /\ end + 2 <= Len(b) /\ end <= Len(c) /\ end <= Len(b)
    BY <1>1, <1>4
  <2>2. SubSeq(c, end + 1, end + 2) = SubSeq(b, end + 1, end + 2)
    BY <1>1, <2>1, SameSubSeq DEF IsCut
  <2>3. SubSeq(c, LineEnd(b) + 1, end) = SubSeq(b, LineEnd(b) + 1, end)
    <3> DEFINE first == LineEnd(b) + 1
    <3>1. first \in Nat \ {0} /\ \A k \in 1 .. Len(c) : c[k] = b[k]
      BY <1>2 DEF IsCut
    <3> HIDE DEF first
    <3>2. SubSeq(c, first, end) = SubSeq(b, first, end)
      BY ONLY <1>1, <2>1, <3>1, end \in Nat, SameSubSeq
    <3> QED
      BY <3>2 DEF first
  <2>4. ~(Len(b) < end + 2) /\ ~(Len(b) < end) /\ ~(Len(c) < end)
    BY <1>1, <2>1
  <2>5. Terminated(c, end) = Terminated(b, end)
    BY <1>2, <1>4, <2>2, <2>3, <2>4 DEF Terminated, Payload
  <2>6. \/ Terminated(b, end) \in {nullopt, Invalid}
        \/ Terminated(b, end).num_resp_bytes = end + 2
    BY DEF Terminated, Payload, Text, RespValue
  <2> QED
    BY <2>1, <2>5, <2>6, InvalidLength DEF IsCutResult
<1> QED
  BY <1>3, <1>4

LEMMA CutParseBulkString ==
    ASSUME NEW b, NEW c, IsCut(c, b), NEW python \in BOOLEAN
    PROVE  IsCutResult(parse_bulk_string(b, python), parse_bulk_string(c, python), Len(c))
<1> DEFINE N(s) == parse_string_as_int(Line(s), python)
           x == parse_bulk_string(b, python)
           y == parse_bulk_string(c, python)
<1>1. SameLine(c, b)
  BY CutLine
<1>2. \A s : parse_bulk_string(s, python) =
                 IF find_crlf(s) = 0 THEN nullopt
                 ELSE IF IsNumber(Line(s))
                      THEN IF N(s) = -1 THEN Null("BulkString", LineEnd(s))
                           ELSE IF N(s) < -1 THEN Invalid ELSE Terminated(s, LineEnd(s) + N(s))
                 ELSE Invalid
  BY DEF parse_bulk_string, WithLength, WithNumber, Once
<1>3. Line(c) = Line(b) => N(c) = N(b)
  OBVIOUS
<1>4. find_crlf(b) # 0 /\ IsNumber(Line(b)) => N(b) \in Int
  BY LineNumber DEF IsCut
<1>5. b \in Strings /\ c \in Strings /\ Len(b) \in Nat /\ Len(c) \in Nat
  BY DEF IsCut, Strings
<1>6. find_crlf(b) # 0 => LineEnd(b) \in Nat
  BY <1>5, LineFacts
<1> HIDE DEF N
<1>7. CASE find_crlf(b) = 0
  BY <1>2, <1>7 DEF IsCutResult
<1>8. CASE find_crlf(b) # 0 /\ ~IsNumber(Line(b))
  BY <1>2, <1>8, InvalidLength DEF IsCutResult
<1>9. CASE find_crlf(b) # 0 /\ IsNumber(Line(b)) /\ N(b) < -1
  <2>1. N(b) # -1
    BY <1>4, <1>9
  <2> QED
    BY <1>2, <1>9, <2>1, InvalidLength DEF IsCutResult
<1>10. CASE find_crlf(b) # 0 /\ IsNumber(Line(b)) /\ N(b) = -1
  <2>1. x = Null("BulkString", LineEnd(b)) /\ x.num_resp_bytes = LineEnd(b)
    BY <1>2, <1>10 DEF Null, RespValue
  <2>2. LineEnd(b) <= Len(c) => y = x
    BY <1>1, <1>2, <1>3, <1>10, <2>1 DEF SameLine
  <2>3. ~(LineEnd(b) <= Len(c)) => y = nullopt
    BY <1>1, <1>2 DEF SameLine
  <2> QED
    BY <2>1, <2>2, <2>3 DEF IsCutResult
<1>11. CASE find_crlf(b) # 0 /\ IsNumber(Line(b)) /\ ~(N(b) < -1) /\ N(b) # -1
  <2> DEFINE end == LineEnd(b) + N(b)
  <2>1. N(b) \in Nat
    BY <1>4, <1>11
  <2>2. end \in Nat
    BY <1>6, <1>11, <2>1
  <2>3. x = Terminated(b, end)
    BY <1>2, <1>11
  <2>4. CASE LineEnd(b) <= Len(c)
    <3>1. y = Terminated(c, end)
      BY <1>1, <1>2, <1>3, <1>11, <2>4 DEF SameLine
    <3>2. IsCutResult(Terminated(b, end), Terminated(c, end), Len(c))
      <4> HIDE DEF end
      <4> QED
        BY <1>11, <2>2, <2>4, CutTerminated
    <3> QED
      BY <2>3, <3>1, <3>2
  <2>5. CASE ~(LineEnd(b) <= Len(c))
    <3>1. y = nullopt
      BY <1>1, <1>2, <2>5 DEF SameLine
    <3>2. x \in {nullopt, Invalid} \/ x.num_resp_bytes = end + 2
      BY <2>3 DEF Terminated, Payload, Text, RespValue
    <3>3. ~(end + 2 <= Len(c))
      BY <1>5, <1>6, <1>11, <2>1, <2>5
    <3> HIDE DEF end
    <3> QED
      BY <3>1, <3>2, <3>3, InvalidLength DEF IsCutResult
  <2> QED
    BY <2>4, <2>5
<1> QED
  BY <1>7, <1>8, <1>9, <1>10, <1>11

\* The elements of an array, where what At and Bt parse from i has m - i bytes.
CutBelow(At, Bt, m) == \A i \in 0 .. m : IsCutResult(At[i], Bt[i], m - i)

LEMMA NextParts ==
    ASSUME NEW At, \A i \in Nat : IsParsed(At[i]), NEW v, IsParsed(v)
    PROVE  LET u == NextElement(At, v)
               p == v.num_resp_bytes
               next == At[p]
           IN  u # nullopt /\ u.num_resp_bytes # NoLength =>
                   /\ v # nullopt /\ v.num_resp_bytes # NoLength /\ p \in Nat
                   /\ next # nullopt /\ next.num_resp_bytes # NoLength
                   /\ next.num_resp_bytes \in Nat
                   /\ u = ArrayOf(Append(v.array, next), p + next.num_resp_bytes)
                   /\ u.num_resp_bytes = p + next.num_resp_bytes
<1> DEFINE u == NextElement(At, v)
           p == v.num_resp_bytes
           next == At[p]
<1> SUFFICES ASSUME u # nullopt, u.num_resp_bytes # NoLength
             PROVE  /\ v # nullopt /\ v.num_resp_bytes # NoLength /\ p \in Nat
                    /\ next # nullopt /\ next.num_resp_bytes # NoLength
                    /\ next.num_resp_bytes \in Nat
                    /\ u = ArrayOf(Append(v.array, next), p + next.num_resp_bytes)
                    /\ u.num_resp_bytes = p + next.num_resp_bytes
  OBVIOUS
<1>1. v # nullopt /\ v # Invalid
  BY InvalidLength DEF NextElement, Once
<1>2. IsValue(v)
  BY <1>1 DEF IsParsed
<1>3. p \in Nat
  BY <1>2, ValueParts DEF IsValue
<1>4. u = AddElement(v, next)
  BY <1>1 DEF NextElement, Once
<1>5. IsParsed(next)
  BY <1>3
<1>6. NoLength \notin Nat
  BY DEF NoLength
<1> HIDE DEF u, next
<1>7. next # nullopt /\ next.num_resp_bytes # NoLength
  BY <1>4, InvalidLength DEF AddElement
<1>8. next.num_resp_bytes \in Nat
  <2>1. IsValue(next)
    BY <1>5, <1>7, InvalidLength DEF IsParsed
  <2> QED
    BY <2>1, ValueParts DEF IsValue
<1>9. u = ArrayOf(Append(v.array, next), p + next.num_resp_bytes)
  BY <1>4, <1>7 DEF AddElement
<1>10. u.num_resp_bytes = p + next.num_resp_bytes
  BY <1>9 DEF ArrayOf, RespValue
<1> QED
  BY <1>1, <1>3, <1>6, <1>7, <1>8, <1>9, <1>10

LEMMA CutNext ==
    ASSUME NEW At, \A i \in Nat : IsParsed(At[i]), NEW Bt, NEW m \in Nat, CutBelow(At, Bt, m),
           NEW v, IsParsed(v), NEW w, IsCutResult(v, w, m)
    PROVE  IsCutResult(NextElement(At, v), NextElement(Bt, w), m)
<1> DEFINE u == NextElement(At, v)
           p == v.num_resp_bytes
           next == At[p]
<1> SUFFICES ASSUME u # nullopt, u.num_resp_bytes # NoLength
             PROVE  IF u.num_resp_bytes <= m THEN NextElement(Bt, w) = u
                                             ELSE NextElement(Bt, w) = nullopt
  BY DEF IsCutResult
<1>1. /\ v # nullopt /\ v.num_resp_bytes # NoLength /\ p \in Nat
      /\ next # nullopt /\ next.num_resp_bytes # NoLength
      /\ next.num_resp_bytes \in Nat
      /\ u = ArrayOf(Append(v.array, next), p + next.num_resp_bytes)
      /\ u.num_resp_bytes = p + next.num_resp_bytes
  BY NextParts
<1> DEFINE q == next.num_resp_bytes
<1>2. IF p <= m THEN w = v ELSE w = nullopt
  BY <1>1 DEF IsCutResult
<1>3. CASE ~(p <= m)
  <2>1. NextElement(Bt, w) = nullopt
    BY <1>2, <1>3 DEF NextElement, Once
  <2>2. ~(p + q <= m)
    BY <1>1, <1>3
  <2> QED
    BY <1>1, <2>1, <2>2
<1>4. CASE p <= m
  <2>1. w = v /\ v # Invalid
    BY <1>1, <1>2, <1>4, InvalidLength
  <2>2. NextElement(Bt, w) = AddElement(v, Bt[p])
    BY <1>1, <2>1 DEF NextElement, Once
  <2>3. p \in 0 .. m
    BY <1>1, <1>4
  <2>4. IF q <= m - p THEN Bt[p] = next ELSE Bt[p] = nullopt
    BY <1>1, <2>3 DEF CutBelow, IsCutResult
  <2>5. q <= m - p <=> p + q <= m
    BY <1>1
  <2>6. q <= m - p => NextElement(Bt, w) = u
    BY <1>1, <2>2, <2>4 DEF AddElement
  <2>7. ~(q <= m - p) => NextElement(Bt, w) = nullopt
    BY <2>2, <2>4 DEF AddElement
  <2> QED
    BY <1>1, <2>5, <2>6, <2>7
<1> QED
  BY <1>3, <1>4

LEMMA CutElements ==
    ASSUME NEW At, \A i \in Nat : IsParsed(At[i]), NEW Bt, NEW m \in Nat, CutBelow(At, Bt, m),
           NEW start \in Nat, start <= m
    PROVE  \A n \in Nat : IsCutResult(Elements(At, start, n), Elements(Bt, start, n), m)
<1> DEFINE f == ElementsOf(At, start)
           g == ElementsOf(Bt, start)
           S == {n \in Nat : IsCutResult(f[n], g[n], m)}
<1>1. /\ \A n : Elements(At, start, n) = f[n]
      /\ f[0] = ArrayOf(<<>>, start)
      /\ \A i \in Nat : f[i + 1] = NextElement(At, f[i])
  BY ElementSteps
<1>2. /\ \A n : Elements(Bt, start, n) = g[n]
      /\ g[0] = ArrayOf(<<>>, start)
      /\ \A i \in Nat : g[i + 1] = NextElement(Bt, g[i])
  BY ElementSteps
<1>3. \A n \in Nat : IsParsed(Elements(At, start, n))
  BY ElementsAreParsed
<1>4. \A n \in Nat : IsParsed(f[n])
  BY <1>1, <1>3
<1> HIDE DEF f, g
<1>5. 0 \in S
  <2>1. ArrayOf(<<>>, start).num_resp_bytes = start
    BY DEF ArrayOf, RespValue
  <2> QED
    BY <1>1, <1>2, <2>1 DEF IsCutResult
<1>6. ASSUME NEW n \in Nat, n \in S PROVE n + 1 \in S
  <2>1. IsParsed(f[n]) /\ IsCutResult(f[n], g[n], m)
    BY <1>4, <1>6
  <2>2. IsCutResult(NextElement(At, f[n]), NextElement(Bt, g[n]), m)
    BY <2>1, CutNext
  <2>3. f[n + 1] = NextElement(At, f[n]) /\ g[n + 1] = NextElement(Bt, g[n])
    BY <1>1, <1>2
  <2>4. IsCutResult(f[n + 1], g[n + 1], m)
    BY <2>2, <2>3
  <2> QED
    BY <2>4
<1> HIDE DEF S
<1>7. \A n \in Nat : n \in S
  BY <1>5, <1>6, ElementsRecursion!EveryNatural
<1> QED
  BY <1>1, <1>2, <1>7 DEF S

\* No array ends before its elements start.
LEMMA ElementsLength ==
    ASSUME NEW At, \A i \in Nat : IsParsed(At[i]), NEW start \in Nat, NEW n \in Nat
    PROVE  LET v == Elements(At, start, n)
           IN  v # nullopt /\ v.num_resp_bytes # NoLength => start <= v.num_resp_bytes
<1> DEFINE f == ElementsOf(At, start)
           S == {i \in Nat : f[i] # nullopt /\ f[i].num_resp_bytes # NoLength =>
                                 start <= f[i].num_resp_bytes}
<1>1. /\ \A i : Elements(At, start, i) = f[i]
      /\ f[0] = ArrayOf(<<>>, start)
      /\ \A i \in Nat : f[i + 1] = NextElement(At, f[i])
  BY ElementSteps
<1>2. \A i \in Nat : IsParsed(Elements(At, start, i))
  BY ElementsAreParsed
<1>3. \A i \in Nat : IsParsed(f[i])
  BY <1>1, <1>2
<1> HIDE DEF f
<1>4. 0 \in S
  BY <1>1 DEF ArrayOf, RespValue
<1>5. ASSUME NEW i \in Nat, i \in S PROVE i + 1 \in S
  <2> DEFINE u == NextElement(At, f[i])
             p == f[i].num_resp_bytes
  <2>0. f[i + 1] = u
    BY <1>1
  <2> SUFFICES ASSUME u # nullopt, u.num_resp_bytes # NoLength PROVE start <= u.num_resp_bytes
    BY <2>0
  <2>1. /\ f[i] # nullopt /\ p # NoLength /\ p \in Nat /\ At[p].num_resp_bytes \in Nat
        /\ u.num_resp_bytes = p + At[p].num_resp_bytes
    BY <1>3, NextParts
  <2>2. start <= p
    BY <1>5, <2>1
  <2> HIDE DEF u, p
  <2> QED
    BY <2>1, <2>2
<1> HIDE DEF S
<1>6. \A i \in Nat : i \in S
  BY <1>4, <1>5, ElementsRecursion!EveryNatural
<1> QED
  BY <1>1, <1>6 DEF S

LEMMA CutParseArray ==
    ASSUME NEW b, NEW c, IsCut(c, b), NEW python \in BOOLEAN,
           NEW At, \A i \in Nat : IsParsed(At[i]), NEW Bt, CutBelow(At, Bt, Len(c))
    PROVE  IsCutResult(parse_array(b, python, At), parse_array(c, python, Bt), Len(c))
<1> DEFINE N(s) == parse_string_as_int(Line(s), python)
           x == parse_array(b, python, At)
           y == parse_array(c, python, Bt)
           m == Len(c)
<1>1. SameLine(c, b)
  BY CutLine
<1>2. \A s, F : parse_array(s, python, F) =
                    IF find_crlf(s) = 0 THEN nullopt
                    ELSE IF IsNumber(Line(s))
                         THEN IF N(s) = -1 THEN Null("Array", LineEnd(s))
                              ELSE IF N(s) < -1 THEN Invalid ELSE Elements(F, LineEnd(s), N(s))
                    ELSE Invalid
  BY DEF parse_array, WithLength, WithNumber, Once
<1>3. Line(c) = Line(b) => N(c) = N(b)
  OBVIOUS
<1>4. find_crlf(b) # 0 /\ IsNumber(Line(b)) => N(b) \in Int
  BY LineNumber DEF IsCut
<1>5. b \in Strings /\ c \in Strings /\ m \in Nat
  BY DEF IsCut, Strings
<1>6. find_crlf(b) # 0 => LineEnd(b) \in Nat
  BY <1>5, LineFacts
<1> HIDE DEF N, m
<1>7. CASE find_crlf(b) = 0
  BY <1>2, <1>7 DEF IsCutResult
<1>8. CASE find_crlf(b) # 0 /\ ~IsNumber(Line(b))
  BY <1>2, <1>8, InvalidLength DEF IsCutResult
<1>9. CASE find_crlf(b) # 0 /\ IsNumber(Line(b)) /\ N(b) < -1
  <2>1. N(b) # -1
    BY <1>4, <1>9
  <2> QED
    BY <1>2, <1>9, <2>1, InvalidLength DEF IsCutResult
<1>10. CASE find_crlf(b) # 0 /\ IsNumber(Line(b)) /\ N(b) = -1
  <2>1. x = Null("Array", LineEnd(b)) /\ x.num_resp_bytes = LineEnd(b)
    BY <1>2, <1>10 DEF Null, RespValue
  <2>2. LineEnd(b) <= m => y = x
    BY <1>1, <1>2, <1>3, <1>10, <2>1 DEF SameLine, m
  <2>3. ~(LineEnd(b) <= m) => y = nullopt
    BY <1>1, <1>2 DEF SameLine, m
  <2> QED
    BY <2>1, <2>2, <2>3 DEF IsCutResult, m
<1>11. CASE find_crlf(b) # 0 /\ IsNumber(Line(b)) /\ ~(N(b) < -1) /\ N(b) # -1
  <2>1. N(b) \in Nat
    BY <1>4, <1>11
  <2>2. x = Elements(At, LineEnd(b), N(b))
    BY <1>2, <1>11
  <2>3. CASE LineEnd(b) <= m
    <3>1. y = Elements(Bt, LineEnd(b), N(b))
      BY <1>1, <1>2, <1>3, <1>11, <2>3 DEF SameLine, m
    <3>2. CutBelow(At, Bt, m)
      BY DEF m
    <3>3. IsCutResult(Elements(At, LineEnd(b), N(b)), Elements(Bt, LineEnd(b), N(b)), m)
      BY <1>5, <1>6, <1>11, <2>1, <2>3, <3>2, CutElements
    <3> QED
      BY <2>2, <3>1, <3>3 DEF m
  <2>4. CASE ~(LineEnd(b) <= m)
    <3>1. y = nullopt
      BY <1>1, <1>2, <2>4 DEF SameLine, m
    <3>2. x # nullopt /\ x.num_resp_bytes # NoLength => LineEnd(b) <= x.num_resp_bytes
      BY <1>6, <1>11, <2>1, <2>2, ElementsLength
    <3>3. x # nullopt /\ x.num_resp_bytes # NoLength => x.num_resp_bytes \in Nat
      <4>1. IsParsed(x)
        BY <1>5, ParseArray
      <4> HIDE DEF x
      <4> QED
        BY <4>1, ValueParts, InvalidLength DEF IsParsed, IsValue
    <3>4. x # nullopt /\ x.num_resp_bytes # NoLength => ~(x.num_resp_bytes <= m)
      <4> HIDE DEF x
      <4> QED
        BY <1>5, <1>6, <1>11, <2>4, <3>2, <3>3
    <3> QED
      BY <3>1, <3>4 DEF IsCutResult, m
  <2> QED
    BY <2>3, <2>4
<1> QED
  BY <1>7, <1>8, <1>9, <1>10, <1>11

LEMMA CutParseValue ==
    ASSUME NEW b, NEW c, IsCut(c, b), NEW python \in BOOLEAN,
           NEW At, \A i \in Nat : IsParsed(At[i]), NEW Bt, CutBelow(At, Bt, Len(c))
    PROVE  IsCutResult(parse_value(b, python, At), parse_value(c, python, Bt), Len(c))
<1>1. b \in Seq(Byte) /\ c \in Seq(Byte) /\ Len(b) \in Nat /\ Len(c) \in Nat
  BY DEF IsCut, Strings
<1>2. CASE c = <<>>
  <2>1. parse_value(c, python, Bt) = nullopt
    BY <1>2 DEF parse_value
  <2>2. find_crlf(c) = 0
    <3>1. find_crlf(c) # 0 => find_crlf(c) \in 1 .. Len(c) - 1
      BY <1>1, CrlfFacts
    <3> QED
      BY <1>2, <3>1
  <2>3. /\ \A type : parse_line(c, type) = nullopt
        /\ parse_integer(c, python) = nullopt /\ parse_bulk_string(c, python) = nullopt
        /\ parse_array(c, python, Bt) = nullopt
    BY <2>2 DEF parse_line, parse_integer, parse_bulk_string, parse_array, WithLength, WithNumber
  <2>4. IsCutResult(nullopt, nullopt, Len(c)) /\ IsCutResult(Invalid, nullopt, Len(c))
    BY InvalidLength DEF IsCutResult
  <2>5. /\ \A type : IsCutResult(parse_line(b, type), nullopt, Len(c))
        /\ IsCutResult(parse_integer(b, python), nullopt, Len(c))
        /\ IsCutResult(parse_bulk_string(b, python), nullopt, Len(c))
        /\ IsCutResult(parse_array(b, python, At), nullopt, Len(c))
    BY <2>3, CutParseLine, CutParseInteger, CutParseBulkString, CutParseArray
  <2> QED
    BY <2>1, <2>4, <2>5 DEF parse_value
<1>3. CASE c # <<>>
  <2>1. b # <<>> /\ Head(b) = Head(c)
    BY <1>1, <1>3 DEF IsCut
  <2>2. IsCutResult(Invalid, Invalid, Len(c))
    BY InvalidLength DEF IsCutResult
  <2> QED
    BY <1>3, <2>1, <2>2, CutParseLine, CutParseInteger, CutParseBulkString, CutParseArray
       DEF parse_value
<1> QED
  BY <1>2, <1>3

LEMMA CutFrom ==
    ASSUME NEW b, NEW c, IsCut(c, b), NEW pos \in Nat, pos <= Len(c)
    PROVE  IsCut(From(c, pos), From(b, pos)) /\ Len(From(c, pos)) = Len(c) - pos
<1>1. b \in Seq(Byte) /\ c \in Seq(Byte) /\ Len(b) \in Nat /\ Len(c) \in Nat /\ Len(c) <= Len(b)
  BY DEF IsCut, Strings
<1>2. /\ From(c, pos) \in Seq(Byte) /\ Len(From(c, pos)) = Len(c) - pos
      /\ \A i \in 1 .. Len(c) - pos : From(c, pos)[i] = c[pos + i]
  BY <1>1 DEF From
<1>3. /\ From(b, pos) \in Seq(Byte) /\ Len(From(b, pos)) = Len(b) - pos
      /\ \A i \in 1 .. Len(b) - pos : From(b, pos)[i] = b[pos + i]
  BY <1>1 DEF From
<1>4. \A i \in 1 .. Len(c) - pos : i \in 1 .. Len(b) - pos /\ pos + i \in 1 .. Len(c)
  BY <1>1
<1>5. \A i \in 1 .. Len(c) - pos : From(c, pos)[i] = From(b, pos)[i]
  BY <1>2, <1>3, <1>4 DEF IsCut
<1>6. Len(c) - pos \in Nat /\ Len(b) - pos \in Nat /\ Len(c) - pos <= Len(b) - pos
  BY <1>1
<1> QED
  BY <1>2, <1>3, <1>5, <1>6 DEF IsCut, Strings

\* At every depth, the beginning of a request is parsed as the request is,
\* where its end is there, and not at all where it is missing.
LEMMA CutParser ==
    ASSUME NEW b, NEW c, IsCut(c, b), NEW python \in BOOLEAN
    PROVE  \A n \in Nat : \A pos \in 0 .. Len(c) :
               IsCutResult(ParserOf(b, python)[n][pos], ParserOf(c, python)[n][pos], Len(c) - pos)
<1> DEFINE f == ParserOf(b, python)
           g == ParserOf(c, python)
           S == {n \in Nat : \A pos \in 0 .. Len(c) :
                                 IsCutResult(f[n][pos], g[n][pos], Len(c) - pos)}
<1>1. /\ \A pos \in Nat : f[0][pos] = nullopt
      /\ \A n, pos \in Nat : f[n + 1][pos] = parse_value(From(b, pos), python, Shifted(f[n], pos))
  BY ParserSteps
<1>2. \A n, pos \in Nat : g[n + 1][pos] = parse_value(From(c, pos), python, Shifted(g[n], pos))
  BY ParserSteps
<1>3. \A n, pos \in Nat : IsParsed(f[n][pos])
  BY ParserIsParsed DEF IsCut
<1>4. Len(c) \in Nat
  BY DEF IsCut, Strings
<1> HIDE DEF f, g
<1>5. 0 \in S
  BY <1>1, <1>4 DEF IsCutResult
<1>6. ASSUME NEW n \in Nat, n \in S PROVE n + 1 \in S
  <2> SUFFICES ASSUME NEW pos \in 0 .. Len(c)
               PROVE  IsCutResult(f[n + 1][pos], g[n + 1][pos], Len(c) - pos)
    OBVIOUS
  <2> DEFINE At == Shifted(f[n], pos)
             Bt == Shifted(g[n], pos)
             m == Len(c) - pos
  <2>1. pos \in Nat /\ m \in Nat
    BY <1>4
  <2>2. \A i \in Nat : pos + i \in Nat /\ At[i] = f[n][pos + i] /\ Bt[i] = g[n][pos + i]
    BY <2>1 DEF Shifted
  <2>3. IsCut(From(c, pos), From(b, pos)) /\ Len(From(c, pos)) = m
    BY <2>1, CutFrom
  <2>4. f[n + 1][pos] = parse_value(From(b, pos), python, At)
    BY <1>1, <2>1
  <2>5. g[n + 1][pos] = parse_value(From(c, pos), python, Bt)
    BY <1>2, <2>1
  <2> HIDE DEF At, Bt
  <2>6. \A i \in Nat : IsParsed(At[i])
    BY <1>3, <2>2
  <2>7. CutBelow(At, Bt, m)
    <3> SUFFICES ASSUME NEW i \in 0 .. m PROVE IsCutResult(At[i], Bt[i], m - i)
      BY DEF CutBelow
    <3>1. pos + i \in 0 .. Len(c) /\ Len(c) - (pos + i) = m - i
      BY <1>4, <2>1
    <3>2. IsCutResult(f[n][pos + i], g[n][pos + i], Len(c) - (pos + i))
      BY <1>6, <3>1
    <3> QED
      BY <2>2, <3>1, <3>2
  <2> HIDE DEF m
  <2>8. IsCutResult(f[n + 1][pos], g[n + 1][pos], m)
    BY <2>3, <2>4, <2>5, <2>6, <2>7, CutParseValue
  <2> QED
    BY <2>8 DEF m
<1> HIDE DEF S
<1>7. \A n \in Nat : n \in S
  BY <1>5, <1>6, ParserRecursion!EveryNatural
<1> QED
  BY <1>7 DEF S, f, g

\* Deeper below, the same is parsed, and maybe more of it.
IsDeeper(x, y) == x # nullopt => y = x

LEMMA DeeperElements ==
    ASSUME NEW At, \A i \in Nat : IsParsed(At[i]), NEW Bt, \A i \in Nat : IsDeeper(At[i], Bt[i]),
           NEW start \in Nat
    PROVE  \A n \in Nat : IsDeeper(Elements(At, start, n), Elements(Bt, start, n))
<1> DEFINE f == ElementsOf(At, start)
           g == ElementsOf(Bt, start)
           S == {n \in Nat : IsDeeper(f[n], g[n])}
<1>1. /\ \A n : Elements(At, start, n) = f[n]
      /\ f[0] = ArrayOf(<<>>, start)
      /\ \A i \in Nat : f[i + 1] = NextElement(At, f[i])
  BY ElementSteps
<1>2. /\ \A n : Elements(Bt, start, n) = g[n]
      /\ g[0] = ArrayOf(<<>>, start)
      /\ \A i \in Nat : g[i + 1] = NextElement(Bt, g[i])
  BY ElementSteps
<1>3. \A n \in Nat : IsParsed(Elements(At, start, n))
  BY ElementsAreParsed
<1>4. \A n \in Nat : IsParsed(f[n])
  BY <1>1, <1>3
<1> HIDE DEF f, g
<1>5. 0 \in S
  BY <1>1, <1>2 DEF IsDeeper
<1>6. ASSUME NEW n \in Nat, n \in S PROVE n + 1 \in S
  <2>1. f[n + 1] = NextElement(At, f[n]) /\ g[n + 1] = NextElement(Bt, g[n])
    BY <1>1, <1>2
  <2> DEFINE v == f[n]
             p == v.num_resp_bytes
  <2>2. IsDeeper(v, g[n]) /\ IsParsed(v)
    BY <1>4, <1>6
  <2>3. CASE v = nullopt
    BY <2>1, <2>3 DEF IsDeeper, NextElement, Once
  <2>4. CASE v = Invalid
    <3>1. Invalid # nullopt
      BY DEF Invalid, Text, RespValue, nullopt
    <3>2. g[n] = Invalid
      BY <2>2, <2>4, <3>1 DEF IsDeeper
    <3>3. f[n + 1] = Invalid /\ g[n + 1] = Invalid
      BY <2>1, <2>4, <3>2 DEF NextElement, Once
    <3> QED
      BY <3>3 DEF IsDeeper
  <2>5. CASE v # nullopt /\ v # Invalid
    <3>1. g[n] = v
      BY <2>2, <2>5 DEF IsDeeper
    <3>2. f[n + 1] = AddElement(v, At[p]) /\ g[n + 1] = AddElement(v, Bt[p])
      BY <2>1, <2>5, <3>1 DEF NextElement, Once
    <3>3. p \in Nat
      BY <2>2, <2>5, ValueParts DEF IsParsed, IsValue
    <3>4. At[p] # nullopt => Bt[p] = At[p]
      BY <3>3 DEF IsDeeper
    <3>5. At[p] = nullopt => f[n + 1] = nullopt
      BY <3>2 DEF AddElement
    <3>6. IsDeeper(f[n + 1], g[n + 1])
      BY <3>2, <3>4, <3>5 DEF IsDeeper
    <3> QED
      BY <3>6
  <2> QED
    BY <2>3, <2>4, <2>5
<1> HIDE DEF S
<1>7. \A n \in Nat : n \in S
  BY <1>5, <1>6, ElementsRecursion!EveryNatural
<1> QED
  BY <1>1, <1>2, <1>7 DEF S

LEMMA DeeperValue ==
    ASSUME NEW b \in Strings, NEW python \in BOOLEAN,
           NEW At, \A i \in Nat : IsParsed(At[i]), NEW Bt, \A i \in Nat : IsDeeper(At[i], Bt[i])
    PROVE  IsDeeper(parse_value(b, python, At), parse_value(b, python, Bt))
<1> DEFINE n == parse_string_as_int(Line(b), python)
<1>1. \A F : parse_array(b, python, F) =
                 IF find_crlf(b) = 0 THEN nullopt
                 ELSE IF IsNumber(Line(b))
                      THEN IF n = -1 THEN Null("Array", LineEnd(b))
                           ELSE IF n < -1 THEN Invalid ELSE Elements(F, LineEnd(b), n)
                 ELSE Invalid
  BY DEF parse_array, WithLength, WithNumber, Once
<1>2. find_crlf(b) # 0 /\ IsNumber(Line(b)) => n \in Int
  BY LineNumber
<1>3. find_crlf(b) # 0 => LineEnd(b) \in Nat
  BY LineFacts
<1> HIDE DEF n
<1>4. find_crlf(b) # 0 /\ IsNumber(Line(b)) /\ ~(n < -1) /\ n # -1 =>
          IsDeeper(Elements(At, LineEnd(b), n), Elements(Bt, LineEnd(b), n))
  <2> SUFFICES ASSUME find_crlf(b) # 0, IsNumber(Line(b)), ~(n < -1), n # -1
               PROVE  IsDeeper(Elements(At, LineEnd(b), n), Elements(Bt, LineEnd(b), n))
    OBVIOUS
  <2>1. n \in Nat
    BY <1>2
  <2> QED
    BY <1>3, <2>1, DeeperElements
<1>5. IsDeeper(parse_array(b, python, At), parse_array(b, python, Bt))
  BY <1>1, <1>4 DEF IsDeeper
<1> QED
  BY <1>5 DEF parse_value, IsDeeper

LEMMA DeeperParser ==
    ASSUME NEW b \in Strings, NEW python \in BOOLEAN
    PROVE  \A n, pos \in Nat :
               IsDeeper(ParserOf(b, python)[n][pos], ParserOf(b, python)[n + 1][pos])
<1> DEFINE f == ParserOf(b, python)
           S == {n \in Nat : \A pos \in Nat : IsDeeper(f[n][pos], f[n + 1][pos])}
<1>1. /\ \A pos \in Nat : f[0][pos] = nullopt
      /\ \A n, pos \in Nat : f[n + 1][pos] = parse_value(From(b, pos), python, Shifted(f[n], pos))
  <2>1. /\ \A pos \in Nat : ParserOf(b, python)[0][pos] = nullopt
        /\ \A n, pos \in Nat : ParserOf(b, python)[n + 1][pos] =
               parse_value(From(b, pos), python, Shifted(ParserOf(b, python)[n], pos))
    BY ParserSteps
  <2> QED
    BY ONLY <2>1
<1>2. \A n, pos \in Nat : IsParsed(f[n][pos])
  <2>1. \A n, pos \in Nat : IsParsed(ParserOf(b, python)[n][pos])
    BY ParserIsParsed
  <2> QED
    BY <2>1
<1> HIDE DEF f
<1>3. 0 \in S
  BY <1>1 DEF IsDeeper
<1>4. ASSUME NEW n \in Nat, n \in S PROVE n + 1 \in S
  <2> SUFFICES ASSUME NEW pos \in Nat PROVE IsDeeper(f[n + 1][pos], f[(n + 1) + 1][pos])
    OBVIOUS
  <2> DEFINE At == Shifted(f[n], pos)
             Bt == Shifted(f[n + 1], pos)
  <2>1. \A i \in Nat : pos + i \in Nat /\ At[i] = f[n][pos + i] /\ Bt[i] = f[n + 1][pos + i]
    BY DEF Shifted
  <2>2. f[n + 1][pos] = parse_value(From(b, pos), python, At)
    BY <1>1
  <2>3. f[(n + 1) + 1][pos] = parse_value(From(b, pos), python, Bt)
    BY <1>1
  <2> HIDE DEF At, Bt
  <2>4. \A i \in Nat : IsParsed(At[i])
    BY <1>2, <2>1
  <2>5. \A i \in Nat : IsDeeper(At[i], Bt[i])
    BY <1>4, <2>1
  <2>6. From(b, pos) \in Strings
    BY SubSeqProperties DEF From, Strings
  <2> QED
    BY <2>2, <2>3, <2>4, <2>5, <2>6, DeeperValue
<1> HIDE DEF S
<1>5. \A n \in Nat : n \in S
  BY <1>3, <1>4, ParserRecursion!EveryNatural
<1> QED
  BY <1>5 DEF S, f

\* What parse finds is found at every greater depth as well.
LEMMA DeepEnough ==
    ASSUME NEW b \in Strings, NEW python \in BOOLEAN, NEW m \in Nat
    PROVE  IsDeeper(parse(b, python), ParserOf(b, python)[Len(b) + 1 + m][0])
<1> DEFINE f == ParserOf(b, python)
           N == Len(b) + 1
           S == {n \in Nat : IsDeeper(f[N][0], f[N + n][0])}
<1>1. parse(b, python) = f[N][0]
  BY ParserSteps
<1>2. N \in Nat
  BY DEF Strings
<1>3. \A n \in Nat : IsDeeper(f[n][0], f[n + 1][0])
  BY DeeperParser
<1> HIDE DEF f, N
<1>4. 0 \in S
  BY <1>2 DEF IsDeeper
<1>5. ASSUME NEW n \in Nat, n \in S PROVE n + 1 \in S
  <2>1. N + n \in Nat /\ (N + n) + 1 = N + (n + 1)
    BY <1>2
  <2>2. IsDeeper(f[N + n][0], f[N + (n + 1)][0]) /\ IsDeeper(f[N][0], f[N + n][0])
    BY <1>3, <1>5, <2>1
  <2>3. IsDeeper(f[N][0], f[N + (n + 1)][0])
    BY <2>2 DEF IsDeeper
  <2> QED
    BY <2>3
<1> HIDE DEF S
<1>6. \A n \in Nat : n \in S
  BY <1>4, <1>5, ParserRecursion!EveryNatural
<1>7. IsDeeper(f[N][0], f[N + m][0])
  BY <1>6 DEF S
<1> QED
  BY <1>1, <1>7 DEF f, N

\* No beginning of a complete value is a value: where parse says that a value
\* has so many bytes, fewer of them are not enough (resp_parser.cpp:31).
THEOREM PrefixFree ==
    ASSUME NEW b, NEW c, IsCut(c, b), NEW python \in BOOLEAN,
           parse(b, python) # nullopt, Len(c) < parse(b, python).num_resp_bytes
    PROVE  parse(c, python) = nullopt
<1> DEFINE f == ParserOf(b, python)
           g == ParserOf(c, python)
           n == Len(b) + 1
           v == parse(b, python)
<1>1. b \in Strings /\ c \in Strings /\ Len(b) \in Nat /\ Len(c) \in Nat /\ Len(c) <= Len(b)
  BY DEF IsCut, Strings
<1>2. v = f[n][0]
  BY ParserSteps
<1>3. n \in Nat /\ 0 \in 0 .. Len(c) /\ Len(c) - 0 = Len(c)
  BY <1>1
<1> HIDE DEF f, g, n, v
<1>4. IsCutResult(f[n][0], g[n][0], Len(c))
  BY <1>3, CutParser DEF f, g
<1>5. v # nullopt /\ Len(c) < v.num_resp_bytes
  BY DEF v
<1>6. v.num_resp_bytes # NoLength
  BY <1>1, <1>5 DEF NoLength
<1>7. v.num_resp_bytes \in Nat
  <2>1. IsParsed(v)
    BY <1>1, ParserIsTotal DEF v
  <2> QED
    BY <1>5, <1>6, <2>1, ValueParts, InvalidLength DEF IsParsed, IsValue
<1>8. g[n][0] = nullopt
  <2>1. ~(v.num_resp_bytes <= Len(c))
    BY <1>1, <1>5, <1>7
  <2> QED
    BY <1>2, <1>4, <1>5, <1>6, <2>1 DEF IsCutResult
<1>9. Len(b) - Len(c) \in Nat /\ Len(c) + 1 + (Len(b) - Len(c)) = n
  BY <1>1 DEF n
<1>10. IsDeeper(parse(c, python), g[Len(c) + 1 + (Len(b) - Len(c))][0])
  BY <1>1, <1>9, DeepEnough DEF g
<1> QED
  BY <1>8, <1>9, <1>10 DEF IsDeeper

-----------------------------------------------------------------------------
(* Numerals.                                                                 *)

DigitBytes == {Digits[i] : i \in 1 .. 10}

LEMMA DigitBytesAreDigits ==
    /\ \A b \in DigitBytes : IsDigit(b) /\ b \notin {"CR", "LF", "+", "-"}
    /\ \A n \in 0 .. 9 : Digits[n + 1] \in DigitBytes
BY DEF DigitBytes, IsDigit, Digits

NumeralBody(p, f, n) ==
    IF n < 10 THEN <<Digits[n + 1]>> ELSE Append(f[n \div 10], Digits[(n % 10) + 1])
NumeralRecursion == INSTANCE Recursion WITH Step <- NumeralBody

LEMMA NumeralSteps ==
    /\ \A n \in 0 .. 9 : Numeral[n] = <<Digits[n + 1]>>
    /\ \A n \in Nat : n >= 10 => Numeral[n] = Append(Numeral[n \div 10], Digits[(n % 10) + 1])
<1>1. NumeralRecursion!LooksBelow(0)
  <2> SUFFICES ASSUME NEW g, NEW h, NEW n \in Nat, \A m \in 0 .. n - 1 : g[m] = h[m]
               PROVE  NumeralBody(0, g, n) = NumeralBody(0, h, n)
    BY DEF NumeralRecursion!LooksBelow
  <2>1. n >= 10 => n \div 10 \in 0 .. n - 1
    OBVIOUS
  <2>2. n >= 10 => g[n \div 10] = h[n \div 10]
    BY <2>1
  <2> QED
    BY <2>2 DEF NumeralBody
<1>2. Numeral = CHOOSE g : g = [n \in Nat |-> NumeralBody(0, g, n)]
  BY DEF Numeral, NumeralBody
<1>3. Numeral = [n \in Nat |-> NumeralBody(0, Numeral, n)]
  BY <1>1, <1>2, NumeralRecursion!RecursiveFunction
<1> HIDE DEF Numeral
<1>4. \A n \in Nat : Numeral[n] = NumeralBody(0, Numeral, n)
  BY <1>3
<1>5. ASSUME NEW n \in 0 .. 9 PROVE Numeral[n] = <<Digits[n + 1]>>
  <2>1. n \in Nat /\ n < 10
    OBVIOUS
  <2>2. Numeral[n] = NumeralBody(0, Numeral, n)
    BY <1>4, <2>1
  <2> QED
    BY <2>1, <2>2 DEF NumeralBody
<1>6. ASSUME NEW n \in Nat, n >= 10
      PROVE  Numeral[n] = Append(Numeral[n \div 10], Digits[(n % 10) + 1])
  <2>1. ~(n < 10)
    BY <1>6
  <2>2. Numeral[n] = NumeralBody(0, Numeral, n)
    BY <1>4
  <2> QED
    BY <2>1, <2>2 DEF NumeralBody
<1> QED
  BY <1>5, <1>6

LEMMA MagnitudeAppend ==
    ASSUME NEW T, NEW s \in Seq(T), NEW d
    PROVE  Magnitude(Append(s, d)) = Magnitude(s) * 10 + DigitValue(d)
<1> DEFINE longer == Append(s, d)
           f == MagnitudeOf(s)
           g == MagnitudeOf(longer)
           S == {i \in Nat : i <= Len(s) => f[i] = g[i]}
<1>1. Len(s) \in Nat /\ s \in Seq(T \cup {d}) /\ Len(longer) = Len(s) + 1
  OBVIOUS
<1>2. longer[Len(s) + 1] = d /\ \A i \in 1 .. Len(s) : longer[i] = s[i]
  BY <1>1
<1>3. /\ Magnitude(s) = f[Len(s)] /\ f[0] = 0
      /\ \A i \in Nat : f[i + 1] = f[i] * 10 + DigitValue(s[i + 1])
  BY MagnitudeSteps
<1>4. /\ Magnitude(longer) = g[Len(longer)] /\ g[0] = 0
      /\ \A i \in Nat : g[i + 1] = g[i] * 10 + DigitValue(longer[i + 1])
  BY MagnitudeSteps
<1> HIDE DEF f, g, longer
<1>5. 0 \in S
  BY <1>3, <1>4
<1>6. ASSUME NEW i \in Nat, i \in S PROVE i + 1 \in S
  <2> SUFFICES ASSUME i + 1 <= Len(s) PROVE f[i + 1] = g[i + 1]
    OBVIOUS
  <2>1. f[i] = g[i] /\ longer[i + 1] = s[i + 1]
    BY <1>1, <1>2, <1>6
  <2> QED
    BY <1>3, <1>4, <2>1
<1> HIDE DEF S
<1>7. \A i \in Nat : i \in S
  BY <1>5, <1>6, NumeralRecursion!EveryNatural
<1>8. f[Len(s)] = g[Len(s)]
  BY <1>1, <1>7 DEF S
<1> QED
  BY <1>1, <1>2, <1>3, <1>4, <1>8 DEF longer

\* The numeral of n: digits that stand for n, the first of several not zero.
LEMMA NumeralFacts ==
    \A n \in Nat : /\ Numeral[n] \in Seq(DigitBytes) /\ Numeral[n] # <<>>
                   /\ Magnitude(Numeral[n]) = n
<1> DEFINE Right(n) == /\ Numeral[n] \in Seq(DigitBytes) /\ Numeral[n] # <<>>
                       /\ Magnitude(Numeral[n]) = n
           S == {n \in Nat : \A m \in 0 .. n : Right(m)}
<1>1. ASSUME NEW n \in 0 .. 9 PROVE Right(n)
  <2>1. Numeral[n] = Append(<<>>, Digits[n + 1]) /\ Digits[n + 1] \in DigitBytes
    <3>1. Digits[n + 1] \in DigitBytes
      BY DigitBytesAreDigits
    <3>2. Numeral[n] = <<Digits[n + 1]>>
      BY NumeralSteps
    <3>3. \A b : <<b>> = Append(<<>>, b)
      OBVIOUS
    <3> QED
      BY ONLY <3>1, <3>2, <3>3
  <2>2. <<>> \in Seq(DigitBytes)
    OBVIOUS
  <2>3. Magnitude(<<>>) = 0
    <3>1. Len(<<>>) = 0
      OBVIOUS
    <3> QED
      BY <3>1, MagnitudeSteps
  <2>4. Magnitude(Numeral[n]) = n
    <3>1. DigitValue(Digits[n + 1]) = n
      BY DigitFacts
    <3>2. Magnitude(Append(<<>>, Digits[n + 1])) = 0 * 10 + n
      BY <2>2, <2>3, <3>1, MagnitudeAppend
    <3> QED
      BY <2>1, <3>2
  <2> QED
    BY <2>1, <2>2, <2>4
<1>2. ASSUME NEW n \in Nat, n >= 10, Right(n \div 10) PROVE Right(n)
  <2>1. /\ n % 10 \in 0 .. 9 /\ n \div 10 \in Nat
        /\ (n \div 10) * 10 + (n % 10) = n
    OBVIOUS
  <2>2. /\ Numeral[n] = Append(Numeral[n \div 10], Digits[(n % 10) + 1])
        /\ Digits[(n % 10) + 1] \in DigitBytes /\ DigitValue(Digits[(n % 10) + 1]) = n % 10
    BY <1>2, <2>1, NumeralSteps, DigitBytesAreDigits, DigitFacts
  <2>3. Magnitude(Numeral[n]) = (n \div 10) * 10 + (n % 10)
    BY <1>2, <2>2, MagnitudeAppend
  <2> QED
    BY <1>2, <2>1, <2>2, <2>3
<1> HIDE DEF Right
<1>3. ASSUME NEW n \in Nat, n \in S PROVE n + 1 \in S
  <2>1. CASE n + 1 < 10
    BY <1>1, <2>1
  <2>2. CASE n + 1 >= 10
    <3>1. (n + 1) \div 10 \in 0 .. n
      BY <2>2
    <3>2. Right(n + 1)
      BY <1>2, <1>3, <2>2, <3>1
    <3> QED
      BY <1>3, <3>2
  <2> QED
    BY <2>1, <2>2
<1>4. 0 \in S
  BY <1>1
<1>5. \A n \in Nat : n \in S
  <2> HIDE DEF S
  <2> QED
    BY <1>3, <1>4, NumeralRecursion!EveryNatural
<1>6. \A n \in Nat : Right(n)
  BY <1>5
<1> QED
  BY <1>6 DEF Right

LEMMA ToStringFacts ==
    ASSUME NEW n \in Int
    PROVE  /\ to_string(n) \in Seq(DigitBytes \cup {"-"}) /\ to_string(n) # <<>>
           /\ Number(to_string(n)) = n /\ IsNumber(to_string(n))
<1>1. CASE n >= 0
  <2>1. to_string(n) = Numeral[n] /\ n \in Nat
    BY <1>1 DEF to_string
  <2>2. /\ Numeral[n] \in Seq(DigitBytes) /\ Numeral[n] # <<>> /\ Magnitude(Numeral[n]) = n
    BY <2>1, NumeralFacts
  <2> DEFINE s == Numeral[n]
  <2> HIDE DEF s
  <2>3. ~HasSign(s)
    BY <2>2, DigitBytesAreDigits DEF HasSign, s
  <2>4. Unsigned(s) = s
    BY <2>3 DEF Unsigned
  <2> QED
    BY <2>1, <2>2, <2>3, <2>4, DigitBytesAreDigits DEF Number, IsNumber, s
<1>2. CASE n < 0
  <2> DEFINE s == Numeral[-n]
             t == <<"-">> \o s
  <2>1. to_string(n) = t /\ -n \in Nat
    BY <1>2 DEF to_string
  <2>2. s \in Seq(DigitBytes) /\ s # <<>> /\ Magnitude(s) = -n
    BY <2>1, NumeralFacts
  <2> HIDE DEF s
  <2>3. <<"-">> \in Seq(DigitBytes \cup {"-"}) /\ s \in Seq(DigitBytes \cup {"-"})
    BY <2>2
  <2>4. t # <<>> /\ Head(t) = "-" /\ Tail(t) = s /\ t \in Seq(DigitBytes \cup {"-"})
    BY <2>3
  <2> HIDE DEF t
  <2>5. HasSign(t) /\ Unsigned(t) = s
    BY <2>4 DEF HasSign, Unsigned
  <2>6. Number(t) = n
    <3>1. Number(t) = -Magnitude(s)
      BY <2>4, <2>5 DEF Number
    <3> QED
      BY <2>2, <3>1
  <2>7. IsNumber(t)
    BY <2>2, <2>5, DigitBytesAreDigits DEF IsNumber
  <2> QED
    BY <2>1, <2>4, <2>6, <2>7
<1> QED
  BY <1>1, <1>2

-----------------------------------------------------------------------------
(* A reply is one frame for the parser of the client.                        *)

IsFrame(reply) ==
    LET v == parse(reply, TRUE)
    IN  v # nullopt /\ (v.num_resp_bytes = Len(reply) \/ IsError(reply))

LEMMA ParseTop ==
    ASSUME NEW T, NEW buf \in Seq(T), NEW python
    PROVE  \E At : parse(buf, python) = parse_value(buf, python, At)
<1> DEFINE n == Len(buf)
           At == Shifted(ParserOf(buf, python)[n], 0)
<1>1. n \in Nat /\ From(buf, 0) = buf
  BY SubSeqFull DEF From
<1>2. parse(buf, python) = ParserOf(buf, python)[n + 1][0]
  BY ParserSteps
<1>3. ParserOf(buf, python)[n + 1][0] = parse_value(From(buf, 0), python, At)
  <2>1. \A i, pos \in Nat :
            ParserOf(buf, python)[i + 1][pos] =
                parse_value(From(buf, pos), python, Shifted(ParserOf(buf, python)[i], pos))
    BY ParserSteps
  <2>2. n \in Nat /\ 0 \in Nat
    BY <1>1
  <2> HIDE DEF n
  <2> QED
    BY <2>1, <2>2
<1> HIDE DEF At
<1> QED
  BY <1>1, <1>2, <1>3

\* Where the line of a frame ends: n bytes after the type byte.
LEMMA FirstLine ==
    ASSUME NEW T, NEW buf \in Seq(T), NEW n \in Nat, n + 3 <= Len(buf),
           \A i \in 1 .. n + 1 : buf[i] # "CR",
           buf[n + 2] = "CR", buf[n + 3] = "LF"
    PROVE  /\ find_crlf(buf) = n + 2 /\ LineEnd(buf) = n + 3
           /\ Line(buf) = SubSeq(buf, 2, n + 1)
<1> DEFINE k == find_crlf(buf)
<1>1. /\ k \in Nat
      /\ k # 0 => k \in 1 .. Len(buf) - 1 /\ buf[k] = "CR" /\ buf[k + 1] = "LF"
      /\ k # 0 => \A i \in 1 .. k - 1 : ~(buf[i] = "CR" /\ buf[i + 1] = "LF")
      /\ k = 0 => \A i \in 1 .. Len(buf) - 1 : ~(buf[i] = "CR" /\ buf[i + 1] = "LF")
  BY CrlfFacts
<1> HIDE DEF k
<1>2. Len(buf) \in Nat /\ n + 2 \in 1 .. Len(buf) - 1 /\ (n + 2) + 1 = n + 3
  OBVIOUS
<1>3. k # 0
  BY <1>1, <1>2
<1>4. ~(k < n + 2)
  <2> SUFFICES ASSUME k < n + 2 PROVE FALSE
    OBVIOUS
  <2>1. k \in 1 .. n + 1
    BY <1>1, <1>3
  <2> QED
    BY <1>1, <1>3, <2>1
<1>5. ~(k > n + 2)
  <2> SUFFICES ASSUME k > n + 2 PROVE FALSE
    OBVIOUS
  <2>1. n + 2 \in 1 .. k - 1
    BY <1>1
  <2> QED
    BY <1>1, <1>2, <1>3, <2>1
<1>6. k = n + 2
  BY <1>1, <1>4, <1>5
<1>7. k + 1 = n + 3 /\ k - 1 = n + 1
  BY <1>6
<1> QED
  BY <1>6, <1>7 DEF k, LineEnd, Line

LEMMA TextIsSomething ==
    ASSUME NEW type, type # "nullopt", NEW str, NEW int, NEW array, NEW null, NEW length
    PROVE  RespValue(type, str, int, array, null, length) # nullopt
<1>1. RespValue(type, str, int, array, null, length).type = type /\ nullopt.type = "nullopt"
  BY DEF RespValue, nullopt
<1> QED
  BY <1>1

\* u is s and then t, sequences over W.
IsJoin(W, s, t, u) ==
    /\ u \in Seq(W) /\ Len(u) = Len(s) + Len(t) /\ Len(s) \in Nat /\ Len(t) \in Nat
    /\ \A i \in 1 .. Len(s) : u[i] = s[i]
    /\ \A i \in 1 .. Len(t) : u[Len(s) + i] = t[i]

LEMMA Joined ==
    ASSUME NEW W, NEW s \in Seq(W), NEW t \in Seq(W)
    PROVE  IsJoin(W, s, t, s \o t)
BY DEF IsJoin

LEMMA AfterFirst ==
    ASSUME NEW W, NEW s \in Seq(W), NEW m \in Nat, m + 3 <= Len(s)
    PROVE  /\ SubSeq(s, 2, m + 1) \in Seq(W) /\ Len(SubSeq(s, 2, m + 1)) = m
           /\ \A i \in 1 .. m : SubSeq(s, 2, m + 1)[i] = s[1 + i]
OBVIOUS

\* A frame: a type byte, a line, and the rest.
IsFramed(W, type, s, rest, buf) ==
    /\ buf \in Seq(W) /\ buf # <<>> /\ Head(buf) = type
    /\ find_crlf(buf) # 0 /\ Line(buf) = s /\ LineEnd(buf) = Len(s) + 3
    /\ Len(buf) = LineEnd(buf) + Len(rest)
    /\ \A i \in 1 .. Len(rest) : buf[LineEnd(buf) + i] = rest[i]

LEMMA Framed ==
    ASSUME NEW W, NEW type \in W, NEW s \in Seq(W), NEW rest \in Seq(W),
           type # "CR", \A i \in 1 .. Len(s) : s[i] # "CR", "CR" \in W, "LF" \in W,
           NEW buf, buf = <<type>> \o s \o CRLF \o rest
    PROVE  IsFramed(W, type, s, rest, buf)
<1> DEFINE m == Len(s)
           start == <<type>>
           head == start \o s
           line == head \o CRLF
<1>1. /\ start \in Seq(W) /\ Len(start) = 1 /\ start[1] = type
      /\ CRLF \in Seq(W) /\ Len(CRLF) = 2 /\ CRLF[1] = "CR" /\ CRLF[2] = "LF"
      /\ m \in Nat
  BY DEF CRLF
<1>2. buf = line \o rest
  OBVIOUS
<1> HIDE DEF start
<1>3a. IsJoin(W, start, s, head)
  BY <1>1, Joined
<1>3. /\ head \in Seq(W) /\ Len(head) = 1 + m
      /\ \A i \in 1 .. 1 : head[i] = start[i]
      /\ \A i \in 1 .. m : head[1 + i] = s[i]
  BY <1>1, <1>3a DEF IsJoin
<1> HIDE DEF head
<1>4a. IsJoin(W, head, CRLF, line)
  BY <1>1, <1>3, Joined
<1>4. /\ line \in Seq(W) /\ Len(line) = (1 + m) + 2
      /\ \A i \in 1 .. 1 + m : line[i] = head[i]
      /\ \A i \in 1 .. 2 : line[(1 + m) + i] = CRLF[i]
  BY <1>1, <1>3, <1>4a DEF IsJoin
<1> HIDE DEF line
<1>5a. IsJoin(W, line, rest, buf)
  <2>1. IsJoin(W, line, rest, line \o rest)
    BY <1>4, Joined
  <2> QED
    BY ONLY <1>2, <2>1
<1>5. /\ buf \in Seq(W) /\ Len(buf) = ((1 + m) + 2) + Len(rest) /\ Len(rest) \in Nat
      /\ \A i \in 1 .. (1 + m) + 2 : buf[i] = line[i]
      /\ \A i \in 1 .. Len(rest) : buf[((1 + m) + 2) + i] = rest[i]
  BY <1>4, <1>5a DEF IsJoin
<1>6. m \in Nat /\ ((1 + m) + 2) = m + 3 /\ (1 + m) + 1 = m + 2
  BY <1>1
<1> HIDE DEF m
<1>7. buf[1] = type
  BY <1>1, <1>3, <1>4, <1>5, <1>6
<1>8. ASSUME NEW i \in 1 .. m PROVE buf[1 + i] = s[i]
  <2>1. 1 + i \in 1 .. 1 + m /\ 1 + i \in 1 .. (1 + m) + 2
    BY <1>6
  <2> QED
    BY <1>3, <1>4, <1>5, <2>1
<1>9. ASSUME NEW i \in 1 .. m + 1 PROVE buf[i] # "CR"
  <2>1. CASE i = 1
    BY <1>7, <2>1
  <2>2. CASE i # 1
    <3>1. i - 1 \in 1 .. m /\ 1 + (i - 1) = i
      BY <1>6, <2>2
    <3> QED
      BY <1>8, <3>1 DEF m
  <2> QED
    BY <2>1, <2>2
<1>10. buf[m + 2] = "CR" /\ buf[m + 3] = "LF"
  <2>1. /\ 1 \in 1 .. 2 /\ 2 \in 1 .. 2
        /\ (1 + m) + 1 \in 1 .. (1 + m) + 2 /\ (1 + m) + 2 \in 1 .. (1 + m) + 2
    BY <1>6
  <2>2. /\ line[(1 + m) + 1] = "CR" /\ line[(1 + m) + 2] = "LF"
    BY <1>1, <1>4, <2>1
  <2>3. /\ buf[(1 + m) + 1] = "CR" /\ buf[(1 + m) + 2] = "LF"
    BY <1>5, <2>1, <2>2
  <2> QED
    BY <1>6, <2>3
<1>11. m + 3 <= Len(buf)
  BY <1>5, <1>6
<1>12. find_crlf(buf) = m + 2 /\ LineEnd(buf) = m + 3 /\ Line(buf) = SubSeq(buf, 2, m + 1)
  BY <1>5, <1>6, <1>9, <1>10, <1>11, FirstLine
<1>13. SubSeq(buf, 2, m + 1) = s
  <2> DEFINE sub == SubSeq(buf, 2, m + 1)
  <2>1. sub \in Seq(W) /\ Len(sub) = m /\ \A i \in 1 .. m : sub[i] = buf[1 + i]
    BY ONLY <1>5, <1>6, <1>11, AfterFirst
  <2> HIDE DEF sub
  <2>5. \A i \in 1 .. m : sub[i] = s[i]
    BY <1>8, <2>1
  <2> QED
    BY <2>1, <2>5 DEF sub, m
<1>14. find_crlf(buf) # 0
  BY <1>6, <1>12
<1>15. Head(buf) = type /\ buf # <<>>
  BY <1>5, <1>6, <1>7
<1> QED
  BY <1>5, <1>6, <1>12, <1>13, <1>14, <1>15 DEF m, IsFramed

LEMMA ToStringBytes ==
    ASSUME NEW n \in Int
    PROVE  /\ to_string(n) \in Seq(DigitBytes \cup {"-"})
           /\ \A i \in 1 .. Len(to_string(n)) : to_string(n)[i] # "CR"
<1> DEFINE s == to_string(n)
<1>1. s \in Seq(DigitBytes \cup {"-"})
  BY ToStringFacts
<1>2. \A b \in DigitBytes \cup {"-"} : b # "CR"
  BY DigitBytesAreDigits
<1> HIDE DEF s
<1>3. \A i \in 1 .. Len(s) : s[i] \in DigitBytes \cup {"-"}
  BY <1>1
<1> QED
  BY <1>1, <1>2, <1>3 DEF s

\* A frame that starts with a number.
IsNumberFrame(T, type, n, rest, buf) ==
    LET W == T \cup DigitBytes \cup {":", "$", "-", "CR", "LF"}
    IN  /\ buf \in Seq(W) /\ buf # <<>> /\ Head(buf) = type
        /\ find_crlf(buf) # 0 /\ LineEnd(buf) \in Nat
        /\ Len(buf) = LineEnd(buf) + Len(rest)
        /\ \A i \in 1 .. Len(rest) : buf[LineEnd(buf) + i] = rest[i]
        /\ IsNumber(Line(buf)) /\ parse_string_as_int(Line(buf), TRUE) = n

LEMMA NumberFrame ==
    ASSUME NEW T, NEW type \in {":", "$"}, NEW n \in Int, NEW rest \in Seq(T),
           NEW buf, buf = <<type>> \o to_string(n) \o CRLF \o rest
    PROVE  IsNumberFrame(T, type, n, rest, buf)
<1> DEFINE W == T \cup DigitBytes \cup {":", "$", "-", "CR", "LF"}
           s == to_string(n)
<1>1. s \in Seq(W) /\ rest \in Seq(W) /\ type \in W /\ type # "CR" /\ "CR" \in W /\ "LF" \in W
  <2>1. DigitBytes \cup {"-"} \subseteq W /\ T \subseteq W
    OBVIOUS
  <2>2. s \in Seq(DigitBytes \cup {"-"}) /\ rest \in Seq(T)
    BY ToStringBytes
  <2>3. type \in W /\ type # "CR" /\ "CR" \in W /\ "LF" \in W
    OBVIOUS
  <2> HIDE DEF s, W
  <2>4. \A U : U \subseteq W => Seq(U) \subseteq Seq(W)
    OBVIOUS
  <2>5. s \in Seq(W) /\ rest \in Seq(W)
    BY <2>1, <2>2, <2>4
  <2> QED
    BY <2>3, <2>5
<1>2. \A i \in 1 .. Len(s) : s[i] # "CR"
  BY ToStringBytes
<1>3. IsNumber(s) /\ parse_string_as_int(s, TRUE) = n /\ Len(s) \in Nat
  BY ToStringFacts DEF parse_string_as_int
<1>4. buf = <<type>> \o s \o CRLF \o rest
  OBVIOUS
<1> HIDE DEF W, s
<1>5. IsFramed(W, type, s, rest, buf)
  BY ONLY rest \in Seq(T), <1>1, <1>2, <1>4, Framed
<1>6. LineEnd(buf) \in Nat
  BY <1>3, <1>5 DEF IsFramed
<1> QED
  BY <1>3, <1>5, <1>6 DEF W, IsFramed, IsNumberFrame

LEMMA NoRest ==
    ASSUME NEW W, NEW s \in Seq(W)
    PROVE  s = s \o <<>>
OBVIOUS

LEMMA FrameOf ==
    ASSUME NEW buf, NEW type, type # "nullopt", NEW str, NEW int, NEW array, NEW null,
           parse(buf, TRUE) = RespValue(type, str, int, array, null, Len(buf))
    PROVE  IsFrame(buf)
<1>1. parse(buf, TRUE) # nullopt
  BY TextIsSomething
<1>2. RespValue(type, str, int, array, null, Len(buf)).num_resp_bytes = Len(buf)
  BY DEF RespValue
<1> QED
  BY <1>1, <1>2 DEF IsFrame

-----------------------------------------------------------------------------
(* What is serialized is parsed again.                                       *)

FrameBytes == DigitBytes \cup {"$", "*", "-", "CR", "LF"}

\* A number that parse_string_as_int can read.
Fits(python, n) == n \in Nat /\ (python \/ n <= IntMax)

LEMMA NumberIsRead ==
    ASSUME NEW python \in BOOLEAN, NEW n, Fits(python, n)
    PROVE  parse_string_as_int(to_string(n), python) = n
<1>1. Number(to_string(n)) = n /\ n \in Nat
  BY ToStringFacts DEF Fits
<1>2. CASE python
  BY <1>1, <1>2 DEF parse_string_as_int
<1>3. CASE ~python
  <2>1. IntMax \in Nat /\ n \in 0 .. IntMax
    BY <1>1, <1>3, RequestsAssumption DEF Fits
  <2> DEFINE half == IntMax + 1
  <2>2. \A h \in Nat : \A x \in 0 .. 2 * h - 1 : x % (2 * h) = x
    OBVIOUS
  <2>3. half \in Nat /\ n + half \in 0 .. 2 * half - 1 /\ n + IntMax + 1 = n + half
    BY <2>1
  <2>4. (n + half) % (2 * half) = n + half
    BY <2>2, <2>3
  <2>5. (n + half) - half = n
    BY <2>3, <1>1
  <2>6. Wrap(n) = n
    BY <2>3, <2>4, <2>5 DEF Wrap
  <2> QED
    BY <1>1, <1>3, <2>6 DEF parse_string_as_int
<1> QED
  BY <1>2, <1>3

LEMMA SubSeqIs ==
    ASSUME NEW W, NEW buf \in Seq(W), NEW s \in Seq(W), NEW k \in Nat, k + Len(s) <= Len(buf),
           \A i \in 1 .. Len(s) : buf[k + i] = s[i]
    PROVE  SubSeq(buf, k + 1, k + Len(s)) = s
<1> DEFINE sub == SubSeq(buf, k + 1, k + Len(s))
<1>1. sub \in Seq(W) /\ Len(sub) = Len(s)
  OBVIOUS
<1>2. \A i \in 1 .. Len(s) : sub[i] = buf[k + i]
  OBVIOUS
<1> HIDE DEF sub
<1>3. \A i \in 1 .. Len(s) : sub[i] = s[i]
  BY <1>2
<1>4. sub = s
  BY <1>1, <1>3, SeqEqual
<1> QED
  BY <1>4 DEF sub

\* d is the length of s as it is written, and rest what follows its line.
AreBulkParts(W, s, more, d, rest) ==
    /\ d \in Seq(W) /\ \A i \in 1 .. Len(d) : d[i] # "CR"
    /\ rest \in Seq(W) /\ Len(rest) = Len(s) + 2 + Len(more)
    /\ \A i \in 1 .. Len(s) : rest[i] = s[i]
    /\ rest[Len(s) + 1] = "CR" /\ rest[Len(s) + 2] = "LF"
    /\ bulk_string(s) \in Seq(W) /\ Len(bulk_string(s)) = Len(d) + 3 + Len(s) + 2
    /\ bulk_string(s) \o more = <<"$">> \o d \o CRLF \o rest

LEMMA BulkStringParts ==
    ASSUME NEW W, FrameBytes \subseteq W, NEW s \in Seq(W), NEW more \in Seq(W)
    PROVE  AreBulkParts(W, s, more, to_string(Len(s)), s \o CRLF \o more)
<1> DEFINE d == to_string(Len(s))
           line == <<"$">> \o d \o CRLF
           rest == s \o CRLF \o more
<1>1. /\ Len(s) \in Nat /\ CRLF \in Seq(W) /\ Len(CRLF) = 2 /\ CRLF[1] = "CR" /\ CRLF[2] = "LF"
      /\ <<"$">> \in Seq(W) /\ Len(<<"$">>) = 1
  BY DEF CRLF, FrameBytes
<1>2. d \in Seq(W) /\ \A i \in 1 .. Len(d) : d[i] # "CR"
  <2>1. d \in Seq(DigitBytes \cup {"-"}) /\ \A i \in 1 .. Len(d) : d[i] # "CR"
    <3>1. Len(s) \in Int
      BY <1>1
    <3> QED
      BY <3>1, ToStringBytes
  <2>2. DigitBytes \cup {"-"} \subseteq W
    BY DEF FrameBytes
  <2> HIDE DEF d
  <2> QED
    BY <2>1, <2>2
<1>3. bulk_string(s) = (line \o s) \o CRLF
  BY DEF bulk_string
<1> HIDE DEF d
<1>4. line \in Seq(W) /\ Len(line) = Len(d) + 3
  <2> DEFINE start == <<"$">> \o d
  <2>1. start \in Seq(W) /\ Len(start) = Len(d) + 1
    BY <1>1, <1>2
  <2> HIDE DEF start
  <2>2. start \o CRLF \in Seq(W) /\ Len(start \o CRLF) = Len(start) + 2
    <3>1. IsJoin(W, start, CRLF, start \o CRLF)
      BY <1>1, <2>1, Joined
    <3> QED
      BY <1>1, <2>1, <3>1 DEF IsJoin
  <2>3. line = start \o CRLF /\ Len(d) \in Nat
    BY <1>2 DEF start
  <2> HIDE DEF line
  <2> QED
    BY <2>1, <2>2, <2>3
<1> HIDE DEF line, rest
<1>5. bulk_string(s) \in Seq(W) /\ Len(bulk_string(s)) = Len(d) + 3 + Len(s) + 2
  <2>1. Len(d) \in Nat
    BY <1>2
  <2> DEFINE t == line \o s
  <2>2. t \in Seq(W) /\ Len(t) = Len(line) + Len(s)
    BY <1>4
  <2> HIDE DEF t
  <2>3. t \o CRLF \in Seq(W) /\ Len(t \o CRLF) = Len(t) + 2
    <3>1. IsJoin(W, t, CRLF, t \o CRLF)
      BY <1>1, <2>2, Joined
    <3> QED
      BY <1>1, <2>2, <3>1 DEF IsJoin
  <2>4. bulk_string(s) = t \o CRLF
    BY <1>3 DEF t
  <2> QED
    BY <1>1, <1>4, <2>1, <2>2, <2>3, <2>4
<1>6. bulk_string(s) \o more = line \o rest
  <2>1. ((line \o s) \o CRLF) \o more = line \o ((s \o CRLF) \o more)
    <3>1. line \in Seq(W)
      BY <1>4
    <3>2. CRLF \in Seq(W)
      BY <1>1
    <3> QED
      BY ONLY s \in Seq(W), more \in Seq(W), <3>1, <3>2
  <2> QED
    BY <1>3, <2>1 DEF rest
<1>7. /\ rest \in Seq(W) /\ Len(rest) = Len(s) + 2 + Len(more)
      /\ \A i \in 1 .. Len(s) : rest[i] = s[i]
      /\ rest[Len(s) + 1] = "CR" /\ rest[Len(s) + 2] = "LF"
  <2> DEFINE t == s \o CRLF
  <2>1. IsJoin(W, s, CRLF, t)
    BY <1>1, Joined
  <2>2. t \in Seq(W) /\ Len(t) = Len(s) + 2
    BY <1>1, <2>1 DEF IsJoin
  <2> HIDE DEF t
  <2>3. IsJoin(W, t, more, t \o more)
    BY <2>2, Joined
  <2>4. 1 \in 1 .. Len(CRLF) /\ 2 \in 1 .. Len(CRLF)
    BY <1>1
  <2>5. t[Len(s) + 1] = "CR" /\ t[Len(s) + 2] = "LF" /\ \A i \in 1 .. Len(s) : t[i] = s[i]
    BY <1>1, <2>1, <2>4 DEF IsJoin
  <2>6. /\ \A i \in 1 .. Len(s) : i \in 1 .. Len(t)
        /\ Len(s) + 1 \in 1 .. Len(t) /\ Len(s) + 2 \in 1 .. Len(t)
    BY <1>1, <2>2
  <2>7. rest = t \o more
    BY DEF t, rest
  <2> HIDE DEF rest
  <2> QED
    BY <2>2, <2>3, <2>5, <2>6, <2>7 DEF IsJoin
<1> HIDE DEF rest
<1> QED
  BY <1>2, <1>5, <1>6, <1>7 DEF d, line, rest, AreBulkParts

\* A bulk string, whatever follows it.
LEMMA BulkStringIsRead ==
    ASSUME NEW W, FrameBytes \subseteq W, NEW s \in Seq(W), NEW more \in Seq(W),
           NEW python \in BOOLEAN, Fits(python, Len(s)), NEW At
    PROVE  parse_value(bulk_string(s) \o more, python, At)
               = Text("BulkString", s, Len(bulk_string(s)))
<1> DEFINE buf == bulk_string(s) \o more
           d == to_string(Len(s))
           rest == s \o CRLF \o more
           n == Len(s)
           end == LineEnd(buf) + n
<1>1. /\ d \in Seq(W) /\ \A i \in 1 .. Len(d) : d[i] # "CR"
      /\ rest \in Seq(W) /\ Len(rest) = n + 2 + Len(more)
      /\ \A i \in 1 .. n : rest[i] = s[i]
      /\ rest[n + 1] = "CR" /\ rest[n + 2] = "LF"
      /\ bulk_string(s) \in Seq(W) /\ Len(bulk_string(s)) = Len(d) + 3 + n + 2
      /\ buf = <<"$">> \o d \o CRLF \o rest
  <2>1. AreBulkParts(W, s, more, d, rest)
    BY BulkStringParts
  <2>2. buf = bulk_string(s) \o more /\ n = Len(s)
    OBVIOUS
  <2> HIDE DEF buf, d, rest, n
  <2> QED
    BY <2>1, <2>2 DEF AreBulkParts
<1>2. parse_string_as_int(d, python) = n /\ IsNumber(d) /\ n \in Nat
  <2>1. n \in Nat /\ n \in Int
    BY DEF Fits
  <2>2. IsNumber(d)
    BY <2>1, ToStringFacts
  <2>3. parse_string_as_int(d, python) = n
    BY NumberIsRead
  <2> QED
    BY <2>1, <2>2, <2>3
<1> HIDE DEF buf, d, rest, n
<1>3. IsFramed(W, "$", d, rest, buf)
  <2>1. "$" \in W /\ "CR" \in W /\ "LF" \in W /\ "$" # "CR"
    BY DEF FrameBytes
  <2> QED
    BY <1>1, <2>1, Framed
<1>4. /\ buf \in Seq(W) /\ buf # <<>> /\ Head(buf) = "$"
      /\ find_crlf(buf) # 0 /\ Line(buf) = d /\ LineEnd(buf) = Len(d) + 3
      /\ Len(buf) = LineEnd(buf) + Len(rest)
      /\ \A i \in 1 .. Len(rest) : buf[LineEnd(buf) + i] = rest[i]
  BY <1>3 DEF IsFramed
<1>5. LineEnd(buf) \in Nat /\ end \in Nat /\ end + 2 = Len(bulk_string(s)) /\ Len(more) \in Nat
  <2>1. Len(d) \in Nat /\ Len(more) \in Nat
    BY <1>1
  <2>2. /\ n \in Nat /\ LineEnd(buf) = Len(d) + 3
        /\ Len(bulk_string(s)) = Len(d) + 3 + n + 2
    BY <1>1, <1>2, <1>4
  <2> QED
    BY ONLY <2>1, <2>2
<1>6. parse_value(buf, python, At) = Terminated(buf, end)
  <2>1. parse_value(buf, python, At) = parse_bulk_string(buf, python)
    BY <1>4 DEF parse_value
  <2>2. parse_bulk_string(buf, python) =
            IF n = -1 THEN Null("BulkString", LineEnd(buf))
            ELSE IF n < -1 THEN Invalid ELSE Terminated(buf, LineEnd(buf) + n)
    BY <1>2, <1>4 DEF parse_bulk_string, WithLength, WithNumber, Once
  <2>3. n # -1 /\ ~(n < -1)
    BY ONLY <1>2
  <2> QED
    BY <2>1, <2>2, <2>3
<1>7. end + 2 <= Len(buf) /\ end <= Len(buf)
  <2>1. /\ n \in Nat /\ Len(more) \in Nat /\ LineEnd(buf) \in Nat
        /\ Len(buf) = LineEnd(buf) + Len(rest) /\ Len(rest) = n + 2 + Len(more)
    BY <1>1, <1>2, <1>4, <1>5
  <2> QED
    BY ONLY <2>1
<1>8. SubSeq(buf, LineEnd(buf) + 1, end) = s
  <2>1. \A i \in 1 .. n : i \in 1 .. Len(rest)
    BY <1>1, <1>2, <1>5
  <2>2. \A i \in 1 .. n : buf[LineEnd(buf) + i] = s[i]
    BY <1>1, <1>4, <2>1
  <2>3. n = Len(s)
    BY DEF n
  <2> QED
    BY <1>4, <1>5, <1>7, <2>2, <2>3, SubSeqIs
<1>9. SubSeq(buf, end + 1, end + 2) = CRLF
  <2>1. CRLF \in Seq(W) /\ Len(CRLF) = 2 /\ CRLF[1] = "CR" /\ CRLF[2] = "LF"
    BY DEF CRLF, FrameBytes
  <2>2. n + 1 \in 1 .. Len(rest) /\ n + 2 \in 1 .. Len(rest)
    BY <1>1, <1>2, <1>5
  <2>3. buf[LineEnd(buf) + (n + 1)] = "CR" /\ buf[LineEnd(buf) + (n + 2)] = "LF"
    BY <1>1, <1>4, <2>2
  <2>4. end + 1 = LineEnd(buf) + (n + 1) /\ end + 2 = LineEnd(buf) + (n + 2)
    BY ONLY <1>2, <1>5
  <2>5. \A i \in 1 .. 2 : buf[end + i] = CRLF[i]
    BY <2>1, <2>3, <2>4
  <2>6. end + Len(CRLF) <= Len(buf) /\ end + Len(CRLF) = end + 2
    BY <1>7, <2>1
  <2> HIDE DEF end
  <2> QED
    BY <1>4, <1>5, <2>1, <2>5, <2>6, SubSeqIs
<1>10. ~(Len(buf) < end + 2) /\ ~(Len(buf) < end)
  <2>1. Len(buf) \in Nat
    BY <1>4
  <2> QED
    BY <1>5, <1>7, <2>1
<1>11. Terminated(buf, end) = Text("BulkString", s, end + 2)
  BY <1>8, <1>9, <1>10 DEF Terminated, Payload
<1> QED
  BY <1>5, <1>6, <1>11 DEF buf

WrittenBody(ts, f, i) ==
    IF i = 0 THEN <<"*">> \o to_string(Len(ts)) \o CRLF
    ELSE f[i - 1] \o bulk_string(ts[i])
WrittenRecursion == INSTANCE Recursion WITH Step <- WrittenBody
WrittenOf(ts) == CHOOSE f : f = [i \in Nat |-> WrittenBody(ts, f, i)]

LEMMA WrittenSteps ==
    ASSUME NEW ts
    PROVE  /\ serialize_to_bulk_string(ts) = WrittenOf(ts)[Len(ts)]
           /\ WrittenOf(ts)[0] = <<"*">> \o to_string(Len(ts)) \o CRLF
           /\ \A i \in Nat :
                  WrittenOf(ts)[i + 1] = WrittenOf(ts)[i] \o bulk_string(ts[i + 1])
<1>1. WrittenRecursion!LooksBelow(ts)
  <2> SUFFICES ASSUME NEW g, NEW h, NEW n \in Nat, \A m \in 0 .. n - 1 : g[m] = h[m]
               PROVE  WrittenBody(ts, g, n) = WrittenBody(ts, h, n)
    BY DEF WrittenRecursion!LooksBelow
  <2>1. n # 0 => g[n - 1] = h[n - 1]
    OBVIOUS
  <2> QED
    BY <2>1 DEF WrittenBody
<1> DEFINE f == WrittenOf(ts)
<1>2. serialize_to_bulk_string(ts) = f[Len(ts)]
  BY DEF serialize_to_bulk_string, WrittenOf, WrittenBody
<1>3. f = CHOOSE g : g = [n \in Nat |-> WrittenBody(ts, g, n)]
  BY DEF WrittenOf
<1> HIDE DEF f
<1>4. f = [n \in Nat |-> WrittenBody(ts, f, n)]
  BY <1>1, <1>3, WrittenRecursion!RecursiveFunction
<1>5. \A n \in Nat : f[n] = WrittenBody(ts, f, n)
  BY <1>4
<1>6. f[0] = <<"*">> \o to_string(Len(ts)) \o CRLF
  BY <1>5 DEF WrittenBody
<1>7. \A i \in Nat : f[i + 1] = f[i] \o bulk_string(ts[i + 1])
  <2> TAKE i \in Nat
  <2>1. i + 1 # 0 /\ (i + 1) - 1 = i
    OBVIOUS
  <2>2. f[i + 1] = WrittenBody(ts, f, i + 1)
    BY <1>5
  <2> QED
    BY <2>1, <2>2 DEF WrittenBody
<1> QED
  BY <1>2, <1>6, <1>7 DEF f

LEMMA FromJoin ==
    ASSUME NEW W, NEW s \in Seq(W), NEW t \in Seq(W)
    PROVE  From(s \o t, Len(s)) = t
<1> DEFINE u == s \o t
<1>1. IsJoin(W, s, t, u)
  BY Joined
<1> HIDE DEF u
<1>2. /\ u \in Seq(W) /\ Len(u) = Len(s) + Len(t) /\ Len(s) \in Nat /\ Len(t) \in Nat
      /\ \A i \in 1 .. Len(t) : u[Len(s) + i] = t[i]
  BY <1>1 DEF IsJoin
<1>3. SubSeq(u, Len(s) + 1, Len(s) + Len(t)) = t
  BY <1>2, SubSeqIs
<1> QED
  BY <1>2, <1>3 DEF From, u

\* Every beginning of what is written is followed by the rest of it.
LEMMA WrittenParts ==
    ASSUME NEW W, FrameBytes \subseteq W, NEW ts \in Seq(Seq(W))
    PROVE  /\ \A i \in 0 .. Len(ts) : WrittenOf(ts)[i] \in Seq(W)
           /\ \A i \in 0 .. Len(ts) :
                  \E more \in Seq(W) : serialize_to_bulk_string(ts) = WrittenOf(ts)[i] \o more
<1> DEFINE w == WrittenOf(ts)
           n == Len(ts)
           d == to_string(n)
           S == {i \in Nat : i <= n => w[i] \in Seq(W)}
           R == {m \in Nat : m <= n => \E more \in Seq(W) : w[n] = w[n - m] \o more}
<1>1. /\ serialize_to_bulk_string(ts) = w[n]
      /\ w[0] = <<"*">> \o d \o CRLF
      /\ \A i \in Nat : w[i + 1] = w[i] \o bulk_string(ts[i + 1])
  BY WrittenSteps
<1>2. n \in Nat /\ \A i \in 1 .. n : ts[i] \in Seq(W)
  OBVIOUS
<1>3. \A i \in 1 .. n : bulk_string(ts[i]) \in Seq(W)
  <2> TAKE i \in 1 .. n
  <2>1. ts[i] \in Seq(W) /\ <<>> \in Seq(W)
    BY <1>2
  <2>2. AreBulkParts(W, ts[i], <<>>, to_string(Len(ts[i])), ts[i] \o CRLF \o <<>>)
    BY <2>1, BulkStringParts
  <2> QED
    BY <2>2 DEF AreBulkParts
<1>4. d \in Seq(W)
  <2>1. d \in Seq(DigitBytes \cup {"-"})
    <3>1. n \in Int
      BY <1>2
    <3> QED
      BY <3>1, ToStringBytes
  <2>2. DigitBytes \cup {"-"} \subseteq W
    BY DEF FrameBytes
  <2> HIDE DEF d
  <2> QED
    BY <2>1, <2>2
<1> HIDE DEF w, n, d
<1>5. 0 \in S
  <2>1. <<"*">> \in Seq(W) /\ CRLF \in Seq(W)
    BY DEF CRLF, FrameBytes
  <2>2. <<"*">> \o d \o CRLF \in Seq(W)
    BY ONLY <1>4, <2>1
  <2> QED
    BY <1>1, <2>2
<1>6. ASSUME NEW i \in Nat, i \in S PROVE i + 1 \in S
  <2> SUFFICES ASSUME i + 1 <= n PROVE w[i + 1] \in Seq(W)
    OBVIOUS
  <2>1. w[i] \in Seq(W) /\ i + 1 \in 1 .. n
    BY <1>2, <1>6
  <2>2. bulk_string(ts[i + 1]) \in Seq(W)
    BY <1>3, <2>1
  <2>3. w[i] \o bulk_string(ts[i + 1]) \in Seq(W)
    BY ONLY <2>1, <2>2
  <2> QED
    BY <1>1, <2>3
<1>7. \A i \in Nat : i \in S
  <2> HIDE DEF S
  <2> QED
    BY <1>5, <1>6, WrittenRecursion!EveryNatural
<1>8. \A i \in 0 .. n : w[i] \in Seq(W)
  BY <1>2, <1>7
<1>9. 0 \in R
  <2>1. w[n] \in Seq(W) /\ n - 0 = n
    BY <1>2, <1>8
  <2>2. w[n] = w[n] \o <<>> /\ <<>> \in Seq(W)
    BY <2>1
  <2> QED
    BY <2>1, <2>2
<1>10. ASSUME NEW m \in Nat, m \in R PROVE m + 1 \in R
  <2> SUFFICES ASSUME m + 1 <= n PROVE \E more \in Seq(W) : w[n] = w[n - (m + 1)] \o more
    OBVIOUS
  <2> DEFINE k == n - (m + 1)
  <2>1. k \in Nat /\ k \in 0 .. n /\ k + 1 = n - m /\ k + 1 \in 1 .. n
    <3>1. n \in Nat /\ m \in Nat /\ m + 1 <= n
      BY <1>2
    <3> HIDE DEF n
    <3> QED
      BY ONLY <3>1
  <2>2. PICK more \in Seq(W) : w[n] = w[n - m] \o more
    <3>1. m <= n
      BY <1>2
    <3> QED
      BY <1>10, <3>1
  <2>3. w[n - m] = w[k] \o bulk_string(ts[k + 1])
    BY <1>1, <2>1
  <2>4. w[k] \in Seq(W)
    BY <1>8, <2>1
  <2>5. bulk_string(ts[k + 1]) \in Seq(W)
    BY <1>3, <2>1
  <2> DEFINE b == bulk_string(ts[k + 1])
             v == w[k]
  <2>6. b \in Seq(W) /\ v \in Seq(W) /\ w[n] = (v \o b) \o more
    BY <2>2, <2>3, <2>4, <2>5
  <2>7. v = w[n - (m + 1)]
    OBVIOUS
  <2> HIDE DEF b, v
  <2>8. b \o more \in Seq(W)
    BY <2>6
  <2>9. (v \o b) \o more = v \o (b \o more)
    <3>1. \A x, y, z \in Seq(W) : (x \o y) \o z = x \o (y \o z)
      BY ONLY ConcatAssociative
    <3>2. v \in Seq(W) /\ b \in Seq(W) /\ more \in Seq(W)
      BY <2>6
    <3> QED
      BY ONLY <3>1, <3>2
  <2>10. w[n] = v \o (b \o more)
    BY <2>6, <2>9
  <2> QED
    BY <2>7, <2>8, <2>10
<1>11. \A m \in Nat : m \in R
  <2> HIDE DEF R
  <2> QED
    BY <1>9, <1>10, WrittenRecursion!EveryNatural
<1>12. ASSUME NEW i \in 0 .. n PROVE \E more \in Seq(W) : w[n] = w[i] \o more
  <2>1. n - i \in Nat /\ n - i <= n /\ n - (n - i) = i
    BY <1>2
  <2>2. n - i \in R
    BY <1>11, <2>1
  <2> QED
    BY <2>1, <2>2
<1> QED
  BY <1>1, <1>8, <1>12 DEF w, n

\* What the parser returns for a token, and for the first i of them.
Item(token) == Text("BulkString", token, Len(bulk_string(token)))
Items(ts, i) == [j \in 1 .. i |-> Item(ts[j])]

LEMMA ItemsAppend ==
    ASSUME NEW ts, NEW i \in Nat
    PROVE  Append(Items(ts, i), Item(ts[i + 1])) = Items(ts, i + 1)
<1> DEFINE s == Items(ts, i)
           t == Items(ts, i + 1)
           x == Item(ts[i + 1])
           T == {Item(ts[j]) : j \in 1 .. i + 1}
<1>1. s \in [1 .. i -> T] /\ t \in [1 .. i + 1 -> T] /\ x \in T
  BY DEF Items
<1>2. \A j \in 1 .. i : s[j] = t[j]
  BY DEF Items
<1>3. t[i + 1] = x
  BY DEF Items
<1> HIDE DEF s, t, x, T
<1>4. s \in Seq(T) /\ t \in Seq(T) /\ Len(s) = i /\ Len(t) = i + 1
  BY <1>1
<1>5. Append(s, x) \in Seq(T) /\ Len(Append(s, x)) = i + 1
  BY <1>1, <1>4
<1>6. \A j \in 1 .. i + 1 : Append(s, x)[j] = t[j]
  BY <1>2, <1>3, <1>4
<1>7. Append(s, x) = t
  BY <1>4, <1>5, <1>6, SeqEqual
<1> QED
  BY <1>7 DEF s, t, x

\* A request of any tokens, whatever is in them, is parsed into those tokens,
\* by the C++ parser as long as an int can count them and their bytes
\* (resp_serializer.py:2, resp_serializer.cpp:25, resp_parser.cpp:112).
THEOREM RoundTrip ==
    ASSUME NEW T, NEW ts \in Seq(Seq(T)), NEW python \in BOOLEAN, Fits(python, Len(ts)),
           \A i \in 1 .. Len(ts) : Fits(python, Len(ts[i]))
    PROVE  parse(serialize_to_bulk_string(ts), python)
               = ArrayOf(Items(ts, Len(ts)), Len(serialize_to_bulk_string(ts)))
<1> DEFINE W == T \cup FrameBytes
           w == WrittenOf(ts)
           n == Len(ts)
           d == to_string(n)
           bytes == serialize_to_bulk_string(ts)
           N == Len(bytes)
           P == ParserOf(bytes, python)
           At == Shifted(P[N], 0)
           f == ElementsOf(At, LineEnd(bytes))
<1>1. FrameBytes \subseteq W /\ ts \in Seq(Seq(W)) /\ n \in Nat /\ \A i \in 1 .. n : ts[i] \in Seq(W)
  <2>1. T \subseteq W
    OBVIOUS
  <2>2. Seq(T) \subseteq Seq(W)
    BY <2>1
  <2> HIDE DEF W
  <2>3. ts \in Seq(Seq(W))
    BY <2>2
  <2> QED
    BY <2>3 DEF W
<1>2. /\ bytes = w[n]
      /\ w[0] = <<"*">> \o d \o CRLF
      /\ \A i \in Nat : w[i + 1] = w[i] \o bulk_string(ts[i + 1])
  BY WrittenSteps
<1> HIDE DEF W
<1>3. /\ \A i \in 0 .. n : w[i] \in Seq(W)
      /\ \A i \in 0 .. n : \E more \in Seq(W) : bytes = w[i] \o more
  BY <1>1, WrittenParts
<1>4. /\ d \in Seq(W) /\ \A i \in 1 .. Len(d) : d[i] # "CR"
      /\ parse_string_as_int(d, python) = n /\ IsNumber(d)
  <2>1. d \in Seq(DigitBytes \cup {"-"}) /\ \A i \in 1 .. Len(d) : d[i] # "CR"
    BY <1>1, ToStringBytes
  <2>2. IsNumber(d) /\ parse_string_as_int(d, python) = n
    BY <1>1, NumberIsRead, ToStringFacts
  <2>3. DigitBytes \cup {"-"} \subseteq W
    BY <1>1 DEF FrameBytes
  <2> HIDE DEF d
  <2> QED
    BY <2>1, <2>2, <2>3
<1>5. PICK rest \in Seq(W) : bytes = w[0] \o rest
  BY <1>1, <1>3
<1>6. n \in Nat /\ 0 \in 0 .. n /\ n \in 0 .. n
  BY <1>1
<1> HIDE DEF d, n, w, bytes
<1>7. /\ bytes # <<>> /\ Head(bytes) = "*" /\ find_crlf(bytes) # 0 /\ Line(bytes) = d
      /\ LineEnd(bytes) = Len(d) + 3
  <2>1. bytes = <<"*">> \o d \o CRLF \o rest
    BY <1>2, <1>5
  <2>2. "*" \in W /\ "CR" \in W /\ "LF" \in W /\ "*" # "CR"
    BY <1>1 DEF FrameBytes
  <2>3. IsFramed(W, "*", d, rest, bytes)
    BY ONLY rest \in Seq(W), <1>4, <2>1, <2>2, Framed
  <2> QED
    BY <2>3 DEF IsFramed
<1>8. bytes \in Seq(W) /\ N \in Nat /\ N - 1 \in Nat /\ (N - 1) + 1 = N
  <2>1. bytes \in Seq(W)
    BY <1>2, <1>3, <1>6
  <2> QED
    BY <1>7, <2>1
<1>9. Len(w[0]) = LineEnd(bytes)
  <2> DEFINE start == <<"*">> \o d
  <2>1. <<"*">> \in Seq(W) /\ CRLF \in Seq(W) /\ Len(CRLF) = 2
    BY <1>1 DEF FrameBytes, CRLF
  <2>2. start \in Seq(W) /\ Len(start) = Len(d) + 1
    BY <1>4, <2>1
  <2>3. w[0] = start \o CRLF
    BY <1>2
  <2> HIDE DEF start
  <2>4. IsJoin(W, start, CRLF, start \o CRLF)
    BY <2>1, <2>2, Joined
  <2>5. Len(w[0]) = Len(start) + 2 /\ Len(d) \in Nat
    BY <1>4, <2>1, <2>3, <2>4 DEF IsJoin
  <2> QED
    BY <1>7, <2>2, <2>5
<1>10. /\ parse(bytes, python) = P[N + 1][0]
       /\ \A k, pos \in Nat : P[k + 1][pos] = parse_value(From(bytes, pos), python, Shifted(P[k], pos))
  BY ParserSteps
<1> HIDE DEF P, N
<1>11. parse(bytes, python) = Elements(At, LineEnd(bytes), n)
  <2>1. From(bytes, 0) = bytes
    BY <1>8, SubSeqFull DEF From
  <2>2. parse(bytes, python) = parse_value(bytes, python, At)
    BY <1>8, <1>10, <2>1
  <2> HIDE DEF At
  <2>3. parse(bytes, python) = parse_array(bytes, python, At)
    BY <1>7, <2>2 DEF parse_value
  <2>4. n # -1 /\ ~(n < -1)
    BY ONLY <1>6
  <2> QED
    BY <1>4, <1>7, <2>3, <2>4 DEF parse_array, WithLength, WithNumber, Once
<1>12. ASSUME NEW i \in Nat, i + 1 <= n
       PROVE  At[Len(w[i])] = Item(ts[i + 1]) /\ Len(w[i]) \in Nat
              /\ Len(w[i + 1]) = Len(w[i]) + Len(bulk_string(ts[i + 1]))
  <2> DEFINE token == ts[i + 1]
             b == bulk_string(token)
             pos == Len(w[i])
  <2>1. i \in 0 .. n /\ i + 1 \in 0 .. n /\ i + 1 \in 1 .. n
    BY <1>6, <1>12
  <2>2. PICK more \in Seq(W) : bytes = w[i + 1] \o more
    BY <1>3, <2>1
  <2>3. w[i + 1] = w[i] \o b
    BY <1>2
  <2>4. w[i] \in Seq(W) /\ token \in Seq(W)
    BY <1>1, <1>3, <2>1 DEF n
  <2>5. Fits(python, Len(token))
    BY <2>1 DEF n
  <2> HIDE DEF token
  <2>6. b \in Seq(W)
    <3>1. AreBulkParts(W, token, more, to_string(Len(token)), token \o CRLF \o more)
      BY <1>1, <2>4, BulkStringParts
    <3> QED
      BY <3>1 DEF AreBulkParts
  <2> DEFINE v == w[i]
  <2>7. v \in Seq(W) /\ bytes = (v \o b) \o more /\ pos = Len(v)
    BY <2>2, <2>3, <2>4
  <2>8. Len(w[i + 1]) = Len(v \o b)
    BY <2>3
  <2> HIDE DEF b, v, pos
  <2>9. (v \o b) \o more = v \o (b \o more) /\ b \o more \in Seq(W)
    <3>1. v \in Seq(W)
      BY <2>7
    <3>2. b \o more \in Seq(W)
      BY ONLY more \in Seq(W), <2>6
    <3>3. (v \o b) \o more = v \o (b \o more)
      BY ONLY more \in Seq(W), <2>6, <3>1
    <3> QED
      BY <3>2, <3>3
  <2>10. Len(v \o b) = pos + Len(b) /\ pos \in Nat
    BY <2>6, <2>7
  <2>11. From(bytes, pos) = b \o more
    BY <2>7, <2>9, FromJoin
  <2>12. At[pos] = P[N][pos]
    BY <2>10 DEF Shifted
  <2>13. P[N][pos] = parse_value(From(bytes, pos), python, Shifted(P[N - 1], pos))
    BY <1>8, <1>10, <2>10
  <2>14. parse_value(b \o more, python, Shifted(P[N - 1], pos)) = Item(token)
    BY <1>1, <2>4, <2>5, BulkStringIsRead DEF Item, b
  <2>15. At[pos] = Item(token)
    BY <2>11, <2>12, <2>13, <2>14
  <2> QED
    BY <2>8, <2>10, <2>15 DEF pos, b, token
<1> HIDE DEF At
<1>13. /\ \A k : Elements(At, LineEnd(bytes), k) = f[k]
       /\ f[0] = ArrayOf(<<>>, LineEnd(bytes))
       /\ \A i \in Nat : f[i + 1] = NextElement(At, f[i])
  BY ElementSteps
<1> HIDE DEF f
<1> DEFINE S == {i \in Nat : i <= n => f[i] = ArrayOf(Items(ts, i), Len(w[i]))}
<1>14. 0 \in S
  <2>1. Items(ts, 0) = <<>>
    BY DEF Items
  <2> QED
    BY <1>9, <1>13, <2>1
<1>15. ASSUME NEW i \in Nat, i \in S PROVE i + 1 \in S
  <2> SUFFICES ASSUME i + 1 <= n PROVE f[i + 1] = ArrayOf(Items(ts, i + 1), Len(w[i + 1]))
    OBVIOUS
  <2> DEFINE v == f[i]
             next == Item(ts[i + 1])
  <2>1. /\ At[Len(w[i])] = next /\ Len(w[i]) \in Nat
        /\ Len(w[i + 1]) = Len(w[i]) + Len(bulk_string(ts[i + 1]))
    BY <1>12
  <2>2. v = ArrayOf(Items(ts, i), Len(w[i]))
    BY <1>6, <1>15
  <2>3. v.num_resp_bytes = Len(w[i]) /\ v.array = Items(ts, i) /\ v.type = "Array"
    BY <2>2 DEF ArrayOf, RespValue
  <2>4. v # nullopt /\ v # Invalid
    <3>1. nullopt.type = "nullopt" /\ Invalid.type = "Error"
      BY DEF nullopt, Invalid, Text, RespValue
    <3> HIDE DEF v
    <3> QED
      BY <2>3, <3>1
  <2>5. next.num_resp_bytes = Len(bulk_string(ts[i + 1])) /\ next.type = "BulkString"
    BY DEF Item, Text, RespValue
  <2>6. next # nullopt
    BY <2>5 DEF nullopt
  <2>7. next.num_resp_bytes # NoLength
    <3>1. Len(w[i + 1]) \in Nat
      <4>1. i + 1 \in 0 .. n
        BY <1>6
      <4> QED
        BY <1>3, <4>1
    <3>2. ts[i + 1] \in Seq(W)
      BY <1>1 DEF n
    <3>3. bulk_string(ts[i + 1]) \in Seq(W)
      <4>1. AreBulkParts(W, ts[i + 1], <<>>, to_string(Len(ts[i + 1])), ts[i + 1] \o CRLF \o <<>>)
        <5>1. <<>> \in Seq(W)
          OBVIOUS
        <5> QED
          BY <1>1, <3>2, <5>1, BulkStringParts
      <4> QED
        BY <4>1 DEF AreBulkParts
    <3>4. Len(bulk_string(ts[i + 1])) \in Nat
      BY <3>3
    <3> QED
      BY <2>5, <3>4 DEF NoLength
  <2> HIDE DEF next, v
  <2>8. f[i + 1] = AddElement(v, next)
    <3>1. f[i + 1] = NextElement(At, v)
      BY <1>13 DEF v
    <3>2. At[v.num_resp_bytes] = next
      BY <2>1, <2>3
    <3> QED
      BY <2>4, <3>1, <3>2 DEF NextElement, Once
  <2>9. AddElement(v, next) = ArrayOf(Append(Items(ts, i), next), Len(w[i + 1]))
    BY <2>1, <2>3, <2>5, <2>6, <2>7 DEF AddElement
  <2>10. Append(Items(ts, i), next) = Items(ts, i + 1)
    BY ItemsAppend DEF next
  <2> QED
    BY <2>8, <2>9, <2>10
<1>16. \A i \in Nat : i \in S
  <2> HIDE DEF S
  <2> QED
    BY <1>14, <1>15, WrittenRecursion!EveryNatural
<1>17. f[n] = ArrayOf(Items(ts, n), Len(w[n]))
  BY <1>6, <1>16
<1> QED
  BY <1>2, <1>11, <1>13, <1>17 DEF bytes, n

-----------------------------------------------------------------------------
(* The frames of the replies.                                                *)

LEMMA SimpleStringIsFrame ==
    ASSUME NEW word \in {"OK", "PONG"}
    PROVE  IsFrame(simple_string(<<word>>)) /\ Head(simple_string(<<word>>)) = "+"
<1> DEFINE buf == simple_string(<<word>>)
           W == {word, "+", "CR", "LF"}
           s == <<word>>
<1>1. /\ s \in Seq(W) /\ Len(s) = 1 /\ "+" \in W /\ "CR" \in W /\ "LF" \in W /\ "+" # "CR"
      /\ \A i \in 1 .. Len(s) : s[i] # "CR"
  OBVIOUS
<1>2. buf = <<"+">> \o s \o CRLF
  BY DEF simple_string
<1> HIDE DEF W, s, buf
<1>3. <<>> \in Seq(W) /\ Len(<<>>) = 0 /\ <<"+">> \o s \o CRLF \in Seq(W)
  BY <1>1 DEF CRLF
<1>4. buf = <<"+">> \o s \o CRLF \o <<>>
  BY <1>2, <1>3, NoRest
<1>5. IsFramed(W, "+", s, <<>>, buf)
  BY ONLY <1>1, <1>3, <1>4, Framed
<1>6. LineEnd(buf) = Len(buf)
  BY <1>1, <1>3, <1>5 DEF IsFramed
<1>7. PICK At : parse(buf, TRUE) = parse_value(buf, TRUE, At)
  BY <1>5, ParseTop DEF IsFramed
<1>8. parse(buf, TRUE) = parse_line(buf, "SimpleString")
  BY <1>5, <1>7 DEF parse_value, IsFramed
<1>9. parse(buf, TRUE) = RespValue("SimpleString", Line(buf), 0, <<>>, FALSE, LineEnd(buf))
  BY <1>5, <1>8 DEF parse_line, Text, IsFramed
<1>10. IsFrame(buf)
  BY <1>6, <1>9, FrameOf
<1> QED
  BY <1>5, <1>10 DEF buf, IsFramed

LEMMA IntegerIsFrame ==
    ASSUME NEW n \in Int
    PROVE  IsFrame(integer(n)) /\ Head(integer(n)) = ":"
<1> DEFINE buf == integer(n)
           W == {} \cup DigitBytes \cup {":", "$", "-", "CR", "LF"}
<1>1. buf = <<":">> \o to_string(n) \o CRLF
  BY DEF integer
<1>2. <<":">> \o to_string(n) \o CRLF \in Seq(W)
  <2>1. to_string(n) \in Seq(W)
    BY ToStringBytes
  <2> QED
    BY <2>1 DEF CRLF
<1>3. buf = <<":">> \o to_string(n) \o CRLF \o <<>>
  BY <1>1, <1>2, NoRest
<1> HIDE DEF buf, IsNumberFrame
<1>4. <<>> \in Seq({}) /\ Len(<<>>) = 0
  OBVIOUS
<1>5. IsNumberFrame({}, ":", n, <<>>, buf)
  BY <1>3, <1>4, NumberFrame
<1>6. LineEnd(buf) = Len(buf)
  BY <1>4, <1>5 DEF IsNumberFrame
<1>7. PICK At : parse(buf, TRUE) = parse_value(buf, TRUE, At)
  BY <1>5, ParseTop DEF IsNumberFrame
<1>8. parse(buf, TRUE) = parse_integer(buf, TRUE)
  BY <1>5, <1>7 DEF parse_value, IsNumberFrame
<1>9. parse(buf, TRUE) = RespValue("Integer", <<>>, n, <<>>, FALSE, LineEnd(buf))
  BY <1>5, <1>8 DEF parse_integer, WithNumber, Once, IsNumberFrame
<1>10. IsFrame(buf)
  BY <1>6, <1>9, FrameOf
<1> QED
  BY <1>5, <1>10 DEF buf, IsNumberFrame

LEMMA BulkStringIsFrame ==
    ASSUME NEW T, NEW s \in Seq(T)
    PROVE  IsFrame(bulk_string(s)) /\ Head(bulk_string(s)) = "$"
<1> DEFINE W == T \cup FrameBytes
           buf == bulk_string(s)
           d == to_string(Len(s))
           rest == s \o CRLF \o <<>>
<1>1. FrameBytes \subseteq W /\ s \in Seq(W) /\ <<>> \in Seq(W) /\ Fits(TRUE, Len(s))
  <2>1. T \subseteq W
    OBVIOUS
  <2> HIDE DEF W
  <2> QED
    BY <2>1 DEF W, Fits
<1> HIDE DEF W
<1>2. AreBulkParts(W, s, <<>>, d, rest)
  BY <1>1, BulkStringParts
<1> HIDE DEF d, rest
<1>3. buf \in Seq(W) /\ buf \o <<>> = buf
  <2>1. buf \in Seq(W)
    BY <1>2 DEF AreBulkParts
  <2> HIDE DEF buf
  <2> QED
    BY <2>1
<1>4. Head(buf) = "$"
  <2>1. "$" \in W /\ "CR" \in W /\ "LF" \in W /\ "$" # "CR"
    BY <1>1 DEF FrameBytes
  <2>2. /\ d \in Seq(W) /\ \A i \in 1 .. Len(d) : d[i] # "CR"
        /\ rest \in Seq(W) /\ buf = <<"$">> \o d \o CRLF \o rest
    BY <1>2, <1>3 DEF AreBulkParts
  <2> HIDE DEF buf
  <2>3. IsFramed(W, "$", d, rest, buf)
    BY <2>1, <2>2, Framed
  <2> QED
    BY <2>3 DEF IsFramed
<1> HIDE DEF buf
<1>5. PICK At : parse(buf, TRUE) = parse_value(buf, TRUE, At)
  BY <1>3, ParseTop
<1>6. parse_value(buf \o <<>>, TRUE, At) = Text("BulkString", s, Len(buf))
  BY <1>1, BulkStringIsRead DEF buf
<1>7. parse(buf, TRUE) = RespValue("BulkString", s, 0, <<>>, FALSE, Len(buf))
  BY <1>3, <1>5, <1>6 DEF Text
<1>8. IsFrame(buf)
  BY <1>7, FrameOf
<1> QED
  BY <1>4, <1>8 DEF buf

LEMMA NullBulkIsFrame == IsFrame(null_bulk) /\ Head(null_bulk) = "$"
<1> DEFINE buf == null_bulk
           W == {"$", "-", "1", "CR", "LF"}
           s == <<"-", "1">>
<1>1. /\ s \in Seq(W) /\ Len(s) = 2 /\ "$" \in W /\ "CR" \in W /\ "LF" \in W /\ "$" # "CR"
      /\ \A i \in 1 .. Len(s) : s[i] # "CR"
  OBVIOUS
<1>2. buf = <<"$">> \o s \o CRLF
  BY DEF null_bulk, CRLF
<1>3. Number(s) = -1 /\ IsNumber(s)
  <2>1. HasSign(s) /\ Head(s) = "-" /\ Tail(s) = <<"1">>
    BY DEF HasSign
  <2>2. Numeral[1] = <<"1">>
    BY NumeralSteps DEF Digits
  <2>3. Magnitude(<<"1">>) = 1
    BY <2>2, NumeralFacts
  <2>4. IsNumber(s)
    BY <2>1, DigitFacts DEF IsNumber, Unsigned, IsDigit, Digits
  <2> QED
    BY <2>1, <2>3, <2>4 DEF Number
<1> HIDE DEF W, s, buf
<1>4. <<>> \in Seq(W) /\ Len(<<>>) = 0 /\ <<"$">> \o s \o CRLF \in Seq(W)
  BY <1>1 DEF CRLF
<1>5. buf = <<"$">> \o s \o CRLF \o <<>>
  BY <1>2, <1>4, NoRest
<1>6. IsFramed(W, "$", s, <<>>, buf)
  BY ONLY <1>1, <1>4, <1>5, Framed
<1>7. LineEnd(buf) = Len(buf)
  BY <1>1, <1>4, <1>6 DEF IsFramed
<1>8. PICK At : parse(buf, TRUE) = parse_value(buf, TRUE, At)
  BY <1>6, ParseTop DEF IsFramed
<1>9. parse(buf, TRUE) = parse_bulk_string(buf, TRUE)
  BY <1>6, <1>8 DEF parse_value, IsFramed
<1>10. parse_bulk_string(buf, TRUE) = Null("BulkString", LineEnd(buf))
  <2>1. parse_string_as_int(Line(buf), TRUE) = -1 /\ IsNumber(Line(buf)) /\ find_crlf(buf) # 0
    BY <1>3, <1>6 DEF parse_string_as_int, IsFramed
  <2> QED
    BY <2>1 DEF parse_bulk_string, WithLength, WithNumber, Once
<1>11. parse(buf, TRUE) = RespValue("BulkString", <<>>, 0, <<>>, TRUE, LineEnd(buf))
  BY <1>9, <1>10 DEF Null
<1>12. IsFrame(buf)
  BY <1>7, <1>11, FrameOf
<1> QED
  BY <1>6, <1>12 DEF buf, IsFramed

LEMMA ErrorIsFrame ==
    ASSUME NEW T, NEW s \in Seq(T)
    PROVE  IsFrame(error(s)) /\ Head(error(s)) = "-"
<1> DEFINE buf == error(s)
           W == T \cup {"-", "CR", "LF"}
           n == Len(s)
<1>1. /\ buf \in Seq(W) /\ Len(buf) = n + 3 /\ n \in Nat /\ buf # <<>> /\ Head(buf) = "-"
      /\ buf[n + 2] = "CR" /\ buf[n + 3] = "LF"
  BY DEF error, CRLF
<1> HIDE DEF buf, n
<1>2. find_crlf(buf) # 0
  <2>1. n + 2 \in 1 .. Len(buf) - 1 /\ (n + 2) + 1 = n + 3
    BY <1>1
  <2>2. find_crlf(buf) = 0 =>
            \A i \in 1 .. Len(buf) - 1 : ~(buf[i] = "CR" /\ buf[i + 1] = "LF")
    BY <1>1, CrlfFacts
  <2> QED
    BY <1>1, <2>1, <2>2
<1>3. PICK At : parse(buf, TRUE) = parse_value(buf, TRUE, At)
  BY <1>1, ParseTop
<1>4. parse(buf, TRUE) = parse_line(buf, "Error")
  BY <1>1, <1>3 DEF parse_value
<1>5. parse(buf, TRUE) = RespValue("Error", Line(buf), 0, <<>>, FALSE, LineEnd(buf))
  BY <1>2, <1>4 DEF parse_line, Text
<1>6. IsFrame(buf)
  BY <1>1, <1>5, TextIsSomething DEF IsFrame, IsError
<1> QED
  BY <1>1, <1>6 DEF buf

-----------------------------------------------------------------------------
(* What the commands do.                                                     *)

Reasons ==
    {"ERR Kafka broker unreachable", "ERR init() requires UNINITIALIZED state",
     "ERR invalid RESP message", "ERR invalid argument", "ERR invalid command format",
     "ERR invalid UTF-8 byte", "ERR invalid expire time", "ERR not ready to accept operations", "ERR stod", "ERR stoll",
     "ERR syntax error", "ERR wrong number of arguments"}

Refusals ==
    {error(<<reason>>) : reason \in Reasons}
    \cup {error(<<"ERR unknown command">> \o name) : name \in Strings}
Results ==
    {simple_string(<<word>>) : word \in {"OK", "PONG"}}
    \cup {integer(n) : n \in Int}
    \cup {bulk_string(s) : s \in Strings}
    \cup {bulk_string(<<FixedWord[x]>>) : x \in Int \cup {NaN}}
    \cup {null_bulk}
    \cup {bulk_string(<<FixedWord[Rounded(x)]>>) : x \in Int \cup {NaN}}

LEMMA RefusalsAreFrames ==
    ASSUME NEW reply \in Refusals
    PROVE  IsFrame(reply) /\ IsError(reply)
<1>1. CASE \E reason \in Reasons : reply = error(<<reason>>)
  <2>1. PICK reason \in Reasons : reply = error(<<reason>>)
    BY <1>1
  <2>2. <<reason>> \in Seq({reason})
    OBVIOUS
  <2> QED
    BY <2>1, <2>2, ErrorIsFrame DEF IsError
<1>2. CASE \E name \in Strings : reply = error(<<"ERR unknown command">> \o name)
  <2>1. PICK name \in Strings : reply = error(<<"ERR unknown command">> \o name)
    BY <1>2
  <2> DEFINE T == Byte \cup {"ERR unknown command"}
  <2>2. <<"ERR unknown command">> \o name \in Seq(T)
    <3>1. <<"ERR unknown command">> \in Seq(T)
      OBVIOUS
    <3>2. Byte \subseteq T /\ name \in Seq(Byte)
      BY DEF Strings
    <3> HIDE DEF T
    <3>3. name \in Seq(T)
      BY <3>2
    <3> QED
      BY <3>1, <3>3, Joined DEF IsJoin
  <2> HIDE DEF T
  <2> QED
    BY <2>1, <2>2, ErrorIsFrame DEF IsError
<1> QED
  BY <1>1, <1>2 DEF Refusals

LEMMA ResultsAreFrames ==
    ASSUME NEW reply \in Results
    PROVE  IsFrame(reply) /\ ~IsError(reply)
<1>1. CASE \E word \in {"OK", "PONG"} : reply = simple_string(<<word>>)
  BY <1>1, SimpleStringIsFrame DEF IsError
<1>2. CASE \E n \in Int : reply = integer(n)
  BY <1>2, IntegerIsFrame DEF IsError
<1>3. CASE \E s \in Strings : reply = bulk_string(s)
  BY <1>3, BulkStringIsFrame DEF IsError, Strings
<1>4. CASE \E w : reply = bulk_string(<<w>>)
  <2>1. PICK w : reply = bulk_string(<<w>>)
    BY <1>4
  <2>2. <<w>> \in Seq({w})
    OBVIOUS
  <2> QED
    BY <2>1, <2>2, BulkStringIsFrame DEF IsError
<1>5. CASE reply = null_bulk
  BY <1>5, NullBulkIsFrame DEF IsError
<1> QED
  BY <1>1, <1>2, <1>3, <1>4, <1>5 DEF Results

Entries == [value : Strings, left : Nat \cup {Forever}]

\* A cache whose sets with a key in nan have been given a NaN.
IsCache(c, nan) ==
    /\ c = [state |-> c.state, entries |-> c.entries, sets |-> c.sets]
    /\ c.state \in {"UNINITIALIZED", "READY", "REPLAY_FAILED"}
    /\ \A k \in DOMAIN c.entries : c.entries[k] \in Entries
    /\ AreSets(c.sets, nan)

\* An outcome of a command, before which the cache is c.
IsOutcome(o, c, nan) ==
    /\ IsCache(o.cache, nan \cup NaNKeys(o.cache.sets))
    /\ DOMAIN c.sets \subseteq DOMAIN o.cache.sets
    /\ o.reply \in Refusals \cup Results
    /\ o.reply \in Refusals =>
           o.cache.sets = c.sets /\ OnlyUnloggable(c.entries, o.cache.entries)

\* What a refused request may have changed.
LEMMA NothingChanged ==
    ASSUME NEW entries
    PROVE  OnlyUnloggable(entries, entries)
BY DEF OnlyUnloggable, Changes

LEMMA UnloggableStored ==
    ASSUME NEW entries, NEW key, NEW value, NEW left, ~Loggable({key, value})
    PROVE  OnlyUnloggable(entries, Put(entries, key, Entry(value, left)))
<1> DEFINE new == Put(entries, key, Entry(value, left))
<1>1. DOMAIN new = DOMAIN entries \cup {key} /\ new[key] = Entry(value, left)
      /\ \A k \in DOMAIN entries \ {key} : new[k] = entries[k]
  BY DEF Put
<1>2. EntryOf(new, key) = {Entry(value, left)} /\ Entry(value, left).value = value
  BY <1>1 DEF EntryOf, Entry
<1>3. Changes(entries, new) \subseteq {key}
  BY <1>1 DEF Changes, EntryOf
<1> HIDE DEF new
<1>4. {key} \cup {e.value : e \in EntryOf(new, key)} = {key, value}
  BY <1>2
<1>5. key \in Changes(entries, new) => OnlyUnloggable(entries, new)
  <2>1. (Changes(entries, new) \ {key}) \cap DOMAIN new = {}
    BY <1>3
  <2> QED
    BY <1>4, <2>1 DEF OnlyUnloggable
<1>6. key \notin Changes(entries, new) => OnlyUnloggable(entries, new)
  BY <1>3 DEF OnlyUnloggable
<1> QED
  BY <1>5, <1>6 DEF new

LEMMA UnloggableRemoved ==
    ASSUME NEW entries, NEW keys, NEW key \in keys, key \in DOMAIN entries, ~Loggable({key})
    PROVE  OnlyUnloggable(entries, Restrict(entries, DOMAIN entries \ keys))
<1> DEFINE new == Restrict(entries, DOMAIN entries \ keys)
<1>1. DOMAIN new = DOMAIN entries \ keys /\ \A k \in DOMAIN new : new[k] = entries[k]
  BY DEF Restrict
<1> HIDE DEF new
<1>2. EntryOf(new, key) = {} /\ EntryOf(entries, key) # {}
  BY <1>1 DEF EntryOf
<1>3. key \in Changes(entries, new)
  BY <1>2 DEF Changes
<1>4. Changes(entries, new) \cap DOMAIN new = {}
  BY <1>1 DEF Changes, EntryOf
<1>5. {key} \cup {e.value : e \in EntryOf(new, key)} = {key}
  BY <1>2
<1>6. (Changes(entries, new) \ {key}) \cap DOMAIN new = {}
  BY <1>4
<1> QED
  BY <1>3, <1>5, <1>6 DEF OnlyUnloggable, new

LEMMA OutcomeFields ==
    ASSUME NEW c, NEW reply
    PROVE  Outcome(c, reply).cache = c /\ Outcome(c, reply).reply = reply
BY DEF Outcome

LEMMA RefusalsAndResults == \A reply \in Results : reply \notin Refusals
BY RefusalsAreFrames, ResultsAreFrames

LEMMA SetsRemain ==
    ASSUME NEW sets, NEW nan, AreSets(sets, nan), NEW more
    PROVE  AreSets(sets, nan \cup more)
BY DEF AreSets, IsSet

\* A cache of given parts.
LEMMA CacheOf ==
    ASSUME NEW state \in {"UNINITIALIZED", "READY", "REPLAY_FAILED"}, NEW entries, NEW sets, NEW nan,
           \A k \in DOMAIN entries : entries[k] \in Entries, AreSets(sets, nan),
           NEW c, c = [state |-> state, entries |-> entries, sets |-> sets]
    PROVE  IsCache(c, nan) /\ c.state = state /\ c.entries = entries /\ c.sets = sets
BY DEF IsCache

LEMMA CacheWith ==
    ASSUME NEW c, NEW nan, IsCache(c, nan), NEW x
    PROVE  /\ [c EXCEPT !.state = x] = [state |-> x, entries |-> c.entries, sets |-> c.sets]
           /\ [c EXCEPT !.entries = x] = [state |-> c.state, entries |-> x, sets |-> c.sets]
           /\ [c EXCEPT !.sets = x] = [state |-> c.state, entries |-> c.entries, sets |-> x]
<1> DEFINE Record(s, e, z) == [state |-> s, entries |-> e, sets |-> z]
<1>1. \A s, e, z, y : /\ [Record(s, e, z) EXCEPT !.state = y] = Record(y, e, z)
                      /\ [Record(s, e, z) EXCEPT !.entries = y] = Record(s, y, z)
                      /\ [Record(s, e, z) EXCEPT !.sets = y] = Record(s, e, y)
  OBVIOUS
<1>2. c = Record(c.state, c.entries, c.sets)
  BY DEF IsCache
<1> HIDE DEF Record
<1>3. /\ [c EXCEPT !.state = x] = Record(x, c.entries, c.sets)
      /\ [c EXCEPT !.entries = x] = Record(c.state, x, c.sets)
      /\ [c EXCEPT !.sets = x] = Record(c.state, c.entries, x)
  BY <1>1, <1>2
<1> QED
  BY <1>3 DEF Record

\* What leaves everything but the state of the cache as it is.
LEMMA NothingDone ==
    ASSUME NEW c, NEW nan, IsCache(c, nan), NEW state \in {c.state, "READY", "REPLAY_FAILED"},
           NEW d, d = [c EXCEPT !.state = state], NEW reply \in Refusals \cup Results
    PROVE  IsOutcome(Outcome(d, reply), c, nan)
<1>1. d = [state |-> state, entries |-> c.entries, sets |-> c.sets]
  <2>1. [c EXCEPT !.state = state] = [state |-> state, entries |-> c.entries, sets |-> c.sets]
    BY CacheWith
  <2> QED
    BY ONLY <2>1, d = [c EXCEPT !.state = state]
<1>2. AreSets(c.sets, nan \cup NaNKeys(c.sets))
  BY SetsRemain DEF IsCache
<1>3. IsCache(d, nan \cup NaNKeys(d.sets)) /\ d.entries = c.entries /\ d.sets = c.sets
  BY <1>1, <1>2 DEF IsCache
<1>4. Outcome(d, reply).cache = d /\ Outcome(d, reply).reply = reply
  BY OutcomeFields
<1>5. OnlyUnloggable(c.entries, d.entries)
  BY <1>3, NothingChanged
<1> HIDE DEF AreSets, NaNKeys
<1> QED
  BY <1>3, <1>4, <1>5 DEF IsOutcome

LEMMA Unchanged ==
    ASSUME NEW c, NEW nan, IsCache(c, nan), NEW reply \in Refusals \cup Results
    PROVE  IsOutcome(Outcome(c, reply), c, nan)
<1>1. [c EXCEPT !.state = c.state] = c
  BY CacheWith DEF IsCache
<1> QED
  BY <1>1, NothingDone

LEMMA Refused ==
    ASSUME NEW c, NEW nan, IsCache(c, nan), NEW reason \in Reasons, NEW o \in Refuse(c, reason)
    PROVE  IsOutcome(o, c, nan)
<1>1. o = Outcome(c, error(<<reason>>)) /\ error(<<reason>>) \in Refusals \cup Results
  BY DEF Refuse, Reply, Refusals
<1> QED
  BY <1>1, Unchanged

LEMMA EntriesChanged ==
    ASSUME NEW c, NEW nan, IsCache(c, nan), NEW entries,
           \A k \in DOMAIN entries : entries[k] \in Entries,
           NEW d, d = [c EXCEPT !.entries = entries], NEW reply \in Refusals \cup Results,
           reply \in Refusals => OnlyUnloggable(c.entries, entries)
    PROVE  IsOutcome(Outcome(d, reply), c, nan)
<1>1. d = [state |-> c.state, entries |-> entries, sets |-> c.sets]
  BY CacheWith
<1>2. AreSets(c.sets, nan \cup NaNKeys(c.sets))
  BY SetsRemain DEF IsCache
<1>3. IsCache(d, nan \cup NaNKeys(d.sets)) /\ d.sets = c.sets /\ d.entries = entries
  BY <1>1, <1>2 DEF IsCache
<1> QED
  <2>1. Outcome(d, reply).cache = d /\ Outcome(d, reply).reply = reply
    BY OutcomeFields
  <2> QED
    BY <1>3, <2>1 DEF IsOutcome

LEMMA SetsChanged ==
    ASSUME NEW c, NEW nan, IsCache(c, nan), NEW sets, AreSets(sets, nan \cup NaNKeys(sets)),
           DOMAIN c.sets \subseteq DOMAIN sets,
           NEW d, d = [c EXCEPT !.sets = sets], NEW reply \in Results
    PROVE  IsOutcome(Outcome(d, reply), c, nan)
<1>1. d = [state |-> c.state, entries |-> c.entries, sets |-> sets]
  BY CacheWith
<1>2. IsCache(d, nan \cup NaNKeys(d.sets)) /\ d.sets = sets
  BY <1>1 DEF IsCache
<1> QED
  <2>1. Outcome(d, reply).cache = d /\ Outcome(d, reply).reply = reply
    BY OutcomeFields
  <2>2. reply \notin Refusals
    BY RefusalsAndResults
  <2> QED
    BY <1>2, <2>1, <2>2 DEF IsOutcome

LEMMA Greatest ==
    ASSUME NEW S, NEW n \in Nat, S \subseteq 1 .. n, S # {}
    PROVE  \E m \in S : \A k \in S : k <= m
<1> DEFINE Distances == {n - k : k \in S}
<1>1. Distances \in SUBSET Nat /\ Distances # {}
  <2>1. \A k \in S : n - k \in Nat
    OBVIOUS
  <2> QED
    BY <2>1
<1>2. PICK d \in Distances : \A e \in Distances : d <= e
  BY <1>1, Least
<1>3. PICK m \in S : d = n - m
  BY <1>2
<1>4. \A k \in S : n - m <= n - k
  BY <1>2, <1>3
<1> QED
  BY <1>4

LEMMA StollIsInt ==
    ASSUME NEW s \in Strings, NumberPrefixes(s) # {}
    PROVE  stoll(s) \in Int
<1> DEFINE S == NumberPrefixes(s)
           m == CHOOSE n \in S : \A k \in S : k <= n
<1>1. s \in Seq(Byte) /\ Len(s) \in Nat /\ S \subseteq 1 .. Len(s)
  BY DEF Strings, NumberPrefixes
<1>2. m \in S
  <2>1. \E n \in S : \A k \in S : k <= n
    BY <1>1, Greatest
  <2> QED
    BY <2>1
<1>3. stoll(s) = Number(SubSeq(s, 1, m))
  BY DEF stoll
<1> HIDE DEF m
<1>4. m \in 1 .. Len(s) /\ IsNumber(SubSeq(s, 1, m))
  BY <1>2 DEF NumberPrefixes
<1>5. SubSeq(s, 1, m) \in Seq(Byte)
  BY <1>1, <1>4
<1> QED
  BY <1>3, <1>4, <1>5, NumberInt

LEMMA ResultsOf ==
    /\ ok \in Results
    /\ simple_string(<<"PONG">>) \in Results
    /\ null_bulk \in Results
    /\ \A n \in Int : integer(n) \in Results
    /\ \A b \in BOOLEAN : Flag(b) \in Results
    /\ \A s \in Strings : bulk_string(s) \in Results
    /\ \A x \in Int \cup {NaN} : bulk_string(<<FixedWord[Rounded(x)]>>) \in Results
<1>1. \A n \in Int : integer(n) \in Results
  BY DEF Results
<1>2. \A b \in BOOLEAN : Flag(b) \in Results
  BY <1>1 DEF Flag
<1>3. ok \in Results /\ simple_string(<<"PONG">>) \in Results /\ null_bulk \in Results
  BY DEF Results, ok
<1>4. \A s \in Strings : bulk_string(s) \in Results
  BY DEF Results
<1>5. \A x \in Int \cup {NaN} : bulk_string(<<FixedWord[Rounded(x)]>>) \in Results
  BY DEF Results
<1> QED
  BY <1>1, <1>2, <1>3, <1>4, <1>5

\* The checks in front of a command.
LEMMA WithArgsOutcome ==
    ASSUME NEW c, NEW nan, IsCache(c, nan), NEW fits, NEW outcomes,
           NEW o \in WithArgs(c, fits, outcomes)
    PROVE  (fits /\ o \in outcomes) \/ IsOutcome(o, c, nan)
<1>1. CASE fits
  BY <1>1 DEF WithArgs
<1>2. CASE ~fits
  BY <1>2, Refused DEF WithArgs, Reasons
<1> QED
  BY <1>1, <1>2

LEMMA WhenReadyOutcome ==
    ASSUME NEW c, NEW nan, IsCache(c, nan), NEW outcomes, NEW o \in WhenReady(c, outcomes)
    PROVE  o \in outcomes \/ IsOutcome(o, c, nan)
<1>1. CASE c.state = "READY"
  BY <1>1 DEF WhenReady
<1>2. CASE c.state # "READY"
  BY <1>2, Refused DEF WhenReady, Reasons
<1> QED
  BY <1>1, <1>2

LEMMA ReplyOutcome ==
    ASSUME NEW c, NEW reply, NEW o \in Reply(c, reply)
    PROVE  o = Outcome(c, reply)
BY DEF Reply

\* A value is stored, and then its event is logged, or not.
LEMMA StoredOutcome ==
    ASSUME NEW c, NEW nan, IsCache(c, nan), NEW key, NEW value \in Strings,
           NEW left \in Nat \cup {Forever}, NEW reply \in Results,
           NEW o \in Logged(Stored(c, key, value, left), {key, value}, reply)
    PROVE  IsOutcome(o, c, nan)
<1> DEFINE entries == Put(c.entries, key, Entry(value, left))
           d == Stored(c, key, value, left)
           refusal == error(<<"ERR invalid UTF-8 byte">>)
<1>1. Entry(value, left) \in Entries
  BY DEF Entry, Entries
<1>2. \A k \in DOMAIN entries : entries[k] \in Entries
  BY <1>1 DEF Put, IsCache
<1>3. d = [c EXCEPT !.entries = entries]
  BY DEF Stored
<1>4. ~Loggable({key, value}) => OnlyUnloggable(c.entries, entries)
  BY UnloggableStored
<1>5. \/ o = Outcome(d, reply)
      \/ ~Loggable({key, value}) /\ o = Outcome(d, refusal)
  BY DEF Logged, Reply, Refuse
<1>6. refusal \in Refusals
  BY DEF Refusals, Reasons
<1> HIDE DEF entries, d, refusal
<1>7. IsOutcome(Outcome(d, reply), c, nan)
  <2>1. reply \notin Refusals
    BY RefusalsAndResults
  <2> QED
    BY <1>2, <1>3, <2>1, EntriesChanged
<1>8. ~Loggable({key, value}) => IsOutcome(Outcome(d, refusal), c, nan)
  BY <1>2, <1>3, <1>4, <1>6, EntriesChanged
<1> QED
  BY <1>5, <1>7, <1>8

LEMMA RemovedOutcome ==
    ASSUME NEW c, NEW nan, IsCache(c, nan), NEW keys, NEW reply \in Refusals \cup Results,
           reply \in Refusals => \E key \in keys : key \in DOMAIN c.entries /\ ~Loggable({key})
    PROVE  IsOutcome(Outcome(Removed(c, keys), reply), c, nan)
<1> DEFINE entries == Restrict(c.entries, DOMAIN c.entries \ keys)
<1>1. \A k \in DOMAIN entries : entries[k] \in Entries
  BY DEF Restrict, IsCache
<1>2. Removed(c, keys) = [c EXCEPT !.entries = entries]
  BY DEF Removed
<1>3. reply \in Refusals => OnlyUnloggable(c.entries, entries)
  BY UnloggableRemoved
<1> HIDE DEF entries
<1> QED
  BY <1>1, <1>2, <1>3, EntriesChanged

\* A command on a key that is not live removes it.
LEMMA NotLiveOutcome ==
    ASSUME NEW c, NEW nan, IsCache(c, nan), NEW keys, NEW reply \in Results,
           NEW o \in Reply(Removed(c, keys), reply)
    PROVE  IsOutcome(o, c, nan)
<1>1. o = Outcome(Removed(c, keys), reply)
  BY ReplyOutcome
<1>2. reply \notin Refusals
  BY RefusalsAndResults
<1> QED
  BY <1>1, <1>2, RemovedOutcome

LEMMA LiveEntry ==
    ASSUME NEW c, NEW nan, IsCache(c, nan), NEW key, Live(c, key)
    PROVE  /\ c.entries[key].value \in Strings
           /\ c.entries[key].left \in Nat \cup {Forever} /\ c.entries[key].left # 0
BY DEF IsCache, Live, Entries

LEMMA InitOutcome ==
    ASSUME NEW c, NEW nan, IsCache(c, nan), NEW a, NEW o \in cmd_init(c, a)
    PROVE  IsOutcome(o, c, nan)
<1>1. \A reason \in Reasons : o \in Refuse(c, reason) => IsOutcome(o, c, nan)
  BY Refused
<1>2. o \in Reply(c, ok) => IsOutcome(o, c, nan)
  BY ReplyOutcome, Unchanged, ResultsOf
<1>3. o \in Reply([c EXCEPT !.state = "READY"], ok) => IsOutcome(o, c, nan)
  BY ReplyOutcome, NothingDone, ResultsOf
<1>4. o \in Refuse([c EXCEPT !.state = "REPLAY_FAILED"], "ERR Kafka broker unreachable")
          => IsOutcome(o, c, nan)
  <2> DEFINE d == [c EXCEPT !.state = "REPLAY_FAILED"]
             reply == error(<<"ERR Kafka broker unreachable">>)
  <2>1. reply \in Refusals \cup Results
    BY DEF Refusals, Reasons
  <2>2. IsOutcome(Outcome(d, reply), c, nan)
    BY <2>1, NothingDone
  <2>3. o \in Refuse(d, "ERR Kafka broker unreachable") => o = Outcome(d, reply)
    BY DEF Refuse, Reply
  <2> QED
    BY <2>2, <2>3
<1>5. \/ o \in Refuse(c, "ERR wrong number of arguments")
      \/ o \in Refuse(c, "ERR invalid argument")
      \/ o \in Refuse(c, "ERR init() requires UNINITIALIZED state")
      \/ o \in Reply(c, ok)
      \/ o \in Reply([c EXCEPT !.state = "READY"], ok)
      \/ o \in Refuse([c EXCEPT !.state = "REPLAY_FAILED"], "ERR Kafka broker unreachable")
  BY DEF cmd_init
<1> QED
  BY <1>1, <1>2, <1>3, <1>4, <1>5 DEF Reasons

LEMMA PingOutcome ==
    ASSUME NEW c, NEW nan, IsCache(c, nan), NEW a \in Seq(Strings), NEW o \in cmd_ping(c, a)
    PROVE  IsOutcome(o, c, nan)
<1> DEFINE reply == IF a = <<>> THEN simple_string(<<"PONG">>) ELSE bulk_string(a[1])
<1>1. reply \in Results
  <2>1. a # <<>> => a[1] \in Strings
    OBVIOUS
  <2> QED
    BY <2>1, ResultsOf
<1>2. o = Outcome(c, reply)
  BY DEF cmd_ping, Reply
<1> HIDE DEF reply
<1> QED
  BY <1>1, <1>2, Unchanged

\* A TTL that is accepted is a positive number.
LEMMA TTLPositive ==
    ASSUME NEW s \in Strings, NumberPrefixes(s) # {}, ~(stoll(s) <= 0)
    PROVE  Ticks(stoll(s)) \in Nat
<1>1. stoll(s) \in Int
  BY StollIsInt
<1> QED
  BY <1>1 DEF Ticks

LEMMA LastItem ==
    ASSUME NEW S, NEW s \in Seq(S), NEW n \in Nat \ {0}, Len(s) = n
    PROVE  s[n] \in S
OBVIOUS

LEMMA SetOutcome ==
    ASSUME NEW c, NEW nan, IsCache(c, nan), NEW a \in Seq(Strings), NEW o \in cmd_set(c, a)
    PROVE  IsOutcome(o, c, nan)
<1>1. \A reason \in Reasons : o \in Refuse(c, reason) => IsOutcome(o, c, nan)
  BY Refused
<1>2. ASSUME Len(a) >= 2 PROVE a[1] \in Strings /\ a[2] \in Strings
  BY <1>2
<1>3. ASSUME Len(a) = 2,
             o \in WhenReady(c, Logged(Stored(c, a[1], a[2], Forever), {a[1], a[2]}, ok))
      PROVE  IsOutcome(o, c, nan)
  <2>1. \/ o \in Logged(Stored(c, a[1], a[2], Forever), {a[1], a[2]}, ok)
        \/ IsOutcome(o, c, nan)
    BY <1>3, WhenReadyOutcome
  <2>2. a[2] \in Strings /\ Forever \in Nat \cup {Forever} /\ ok \in Results
    BY <1>2, <1>3, ResultsOf
  <2> QED
    BY <2>1, <2>2, StoredOutcome
<1>4. ASSUME Len(a) = 4, NumberPrefixes(a[4]) # {}, ~(stoll(a[4]) <= 0),
             o \in WhenReady(c, Logged(Stored(c, a[1], a[2], Ticks(stoll(a[4]))), {a[1], a[2]}, ok))
      PROVE  IsOutcome(o, c, nan)
  <2> DEFINE left == Ticks(stoll(a[4]))
  <2>1. left \in Nat
    <3>1. Len(a) = 4
      BY <1>4
    <3>2. a[4] \in Strings
      <4>1. 4 \in 1 .. Len(a)
        BY ONLY <3>1
      <4> QED
        BY <4>1
    <3> QED
      BY <1>4, <3>2, TTLPositive
  <2> HIDE DEF left
  <2>2. o \in Logged(Stored(c, a[1], a[2], left), {a[1], a[2]}, ok) \/ IsOutcome(o, c, nan)
    BY <1>4, WhenReadyOutcome DEF left
  <2>3. a[2] \in Strings /\ left \in Nat \cup {Forever} /\ ok \in Results
    BY <1>2, <1>4, <2>1, ResultsOf
  <2> QED
    BY <2>2, <2>3, StoredOutcome
<1>5. \/ o \in Refuse(c, "ERR wrong number of arguments")
      \/ /\ Len(a) = 2
         /\ o \in WhenReady(c, Logged(Stored(c, a[1], a[2], Forever), {a[1], a[2]}, ok))
      \/ o \in Refuse(c, "ERR syntax error")
      \/ o \in Refuse(c, "ERR stoll")
      \/ o \in Refuse(c, "ERR invalid expire time")
      \/ /\ Len(a) = 4 /\ NumberPrefixes(a[4]) # {} /\ ~(stoll(a[4]) <= 0)
         /\ o \in WhenReady(c, Logged(Stored(c, a[1], a[2], Ticks(stoll(a[4]))), {a[1], a[2]}, ok))
  BY DEF cmd_set, WithTTL
<1> QED
  BY <1>1, <1>3, <1>4, <1>5 DEF Reasons

\* The commands on a key that is looked up first.
LEMMA GetOutcome ==
    ASSUME NEW c, NEW nan, IsCache(c, nan), NEW a, NEW o \in cmd_get(c, a)
    PROVE  IsOutcome(o, c, nan)
<1> DEFINE outcomes == OnLive(c, a[1], null_bulk, LAMBDA e : Reply(c, bulk_string(e.value)))
<1>1. o \in outcomes \/ IsOutcome(o, c, nan)
  <2>1. o \in WithArgs(c, Len(a) = 1, WhenReady(c, outcomes))
    BY DEF cmd_get
  <2> HIDE DEF outcomes
  <2> QED
    BY <2>1, WithArgsOutcome, WhenReadyOutcome
<1>2. \/ o \notin outcomes
      \/ o \in Reply(Removed(c, {a[1]}), null_bulk)
      \/ Live(c, a[1]) /\ o \in Reply(c, bulk_string(c.entries[a[1]].value))
  BY DEF OnLive
<1>3. o \in Reply(Removed(c, {a[1]}), null_bulk) => IsOutcome(o, c, nan)
  <2>1. null_bulk \in Results
    BY ResultsOf
  <2> QED
    BY <2>1, NotLiveOutcome
<1>4. ASSUME Live(c, a[1]), o \in Reply(c, bulk_string(c.entries[a[1]].value))
      PROVE  IsOutcome(o, c, nan)
  BY <1>4, ReplyOutcome, LiveEntry, Unchanged, ResultsOf
<1> QED
  BY <1>1, <1>2, <1>3, <1>4

LEMMA PersistOutcome ==
    ASSUME NEW c, NEW nan, IsCache(c, nan), NEW a, NEW o \in cmd_persist(c, a)
    PROVE  IsOutcome(o, c, nan)
<1> DEFINE Persisted(value) == Logged(Stored(c, a[1], value, Forever), {a[1], value}, Flag(TRUE))
           outcomes == OnLive(c, a[1], Flag(FALSE), LAMBDA e :
                           IF e.left = Forever THEN Reply(c, Flag(FALSE))
                           ELSE Logged(Stored(c, a[1], e.value, Forever), {a[1], e.value}, Flag(TRUE)))
           value == c.entries[a[1]].value
<1>1. o \in outcomes \/ IsOutcome(o, c, nan)
  <2>1. o \in WithArgs(c, Len(a) = 1, WhenReady(c, outcomes))
    BY DEF cmd_persist
  <2> HIDE DEF outcomes
  <2> QED
    BY <2>1, WithArgsOutcome, WhenReadyOutcome
<1>2. \/ o \notin outcomes
      \/ o \in Reply(Removed(c, {a[1]}), Flag(FALSE))
      \/ Live(c, a[1]) /\ o \in Reply(c, Flag(FALSE))
      \/ Live(c, a[1]) /\ o \in Persisted(value)
  BY DEF OnLive
<1> HIDE DEF outcomes, value
<1>3. Flag(TRUE) \in Results /\ Flag(FALSE) \in Results
  BY ResultsOf
<1>4. o \in Reply(Removed(c, {a[1]}), Flag(FALSE)) => IsOutcome(o, c, nan)
  BY <1>3, NotLiveOutcome
<1>5. o \in Reply(c, Flag(FALSE)) => IsOutcome(o, c, nan)
  BY <1>3, ReplyOutcome, Unchanged
<1>6. ASSUME Live(c, a[1]), o \in Persisted(value)
      PROVE  IsOutcome(o, c, nan)
  <2>1. value \in Strings /\ Forever \in Nat \cup {Forever}
    BY <1>6, LiveEntry DEF value
  <2> QED
    BY <1>3, <1>6, <2>1, StoredOutcome
<1> QED
  BY <1>1, <1>2, <1>4, <1>5, <1>6

LEMMA PttlOutcome ==
    ASSUME NEW c, NEW nan, IsCache(c, nan), NEW a, NEW o \in cmd_pttl(c, a)
    PROVE  IsOutcome(o, c, nan)
<1> DEFINE outcomes == OnLive(c, a[1], integer(-2), LAMBDA e :
                           Reply(c, integer(IF e.left = Forever THEN -1 ELSE e.left - 1)))
           e == c.entries[a[1]]
           n == IF e.left = Forever THEN -1 ELSE e.left - 1
<1>1. o \in outcomes \/ IsOutcome(o, c, nan)
  <2>1. o \in WithArgs(c, Len(a) = 1, WhenReady(c, outcomes))
    BY DEF cmd_pttl
  <2> HIDE DEF outcomes
  <2> QED
    BY <2>1, WithArgsOutcome, WhenReadyOutcome
<1>2. \/ o \notin outcomes
      \/ o \in Reply(Removed(c, {a[1]}), integer(-2))
      \/ Live(c, a[1]) /\ o \in Reply(c, integer(n))
  BY DEF OnLive
<1>3. o \in Reply(Removed(c, {a[1]}), integer(-2)) => IsOutcome(o, c, nan)
  <2>1. integer(-2) \in Results
    BY ResultsOf
  <2> QED
    BY <2>1, NotLiveOutcome
<1>4. ASSUME Live(c, a[1]), o \in Reply(c, integer(n))
      PROVE  IsOutcome(o, c, nan)
  <2>1. n \in Int
    BY <1>4, LiveEntry DEF Forever
  <2> HIDE DEF n
  <2>2. integer(n) \in Results
    BY <2>1, ResultsOf
  <2> QED
    BY <1>4, <2>2, ReplyOutcome, Unchanged
<1> QED
  BY <1>1, <1>2, <1>3, <1>4

LEMMA ExpireOutcome ==
    ASSUME NEW c, NEW nan, IsCache(c, nan), NEW a \in Seq(Strings), NEW o \in cmd_expire(c, a)
    PROVE  IsOutcome(o, c, nan)
<1> DEFINE left == Ticks(stoll(a[2]))
           outcomes == OnLive(c, a[1], Flag(FALSE), LAMBDA e :
                           Logged(Stored(c, a[1], e.value, Ticks(stoll(a[2]))), {a[1], e.value},
                                  Flag(TRUE)))
           e == c.entries[a[1]]
<1>1. \A reason \in Reasons : o \in Refuse(c, reason) => IsOutcome(o, c, nan)
  BY Refused
<1>2. \/ IsOutcome(o, c, nan)
      \/ Len(a) = 2 /\ NumberPrefixes(a[2]) # {} /\ ~(stoll(a[2]) <= 0) /\ o \in outcomes
  <2>1. \/ o \in Refuse(c, "ERR wrong number of arguments")
        \/ o \in Refuse(c, "ERR stoll")
        \/ o \in Refuse(c, "ERR invalid expire time")
        \/ /\ Len(a) = 2 /\ NumberPrefixes(a[2]) # {} /\ ~(stoll(a[2]) <= 0)
           /\ o \in WhenReady(c, outcomes)
    BY DEF cmd_expire, WithArgs, WithTTL
  <2> HIDE DEF outcomes
  <2> QED
    BY <1>1, <2>1, WhenReadyOutcome DEF Reasons
<1>3. \/ o \notin outcomes
      \/ o \in Reply(Removed(c, {a[1]}), Flag(FALSE))
      \/ Live(c, a[1]) /\ o \in Logged(Stored(c, a[1], e.value, left), {a[1], e.value}, Flag(TRUE))
  BY DEF OnLive
<1>4. o \in Reply(Removed(c, {a[1]}), Flag(FALSE)) => IsOutcome(o, c, nan)
  <2>1. Flag(FALSE) \in Results
    BY ResultsOf
  <2> HIDE DEF outcomes, left, e
  <2> QED
    BY <2>1, NotLiveOutcome
<1>5. ASSUME Len(a) = 2, NumberPrefixes(a[2]) # {}, ~(stoll(a[2]) <= 0), Live(c, a[1]),
             o \in Logged(Stored(c, a[1], e.value, left), {a[1], e.value}, Flag(TRUE))
      PROVE  IsOutcome(o, c, nan)
  <2>1. e.value \in Strings
    BY <1>5, LiveEntry
  <2>2. left \in Nat \cup {Forever}
    <3>1. Len(a) = 2
      BY <1>5
    <3>2. a[2] \in Strings
      BY <3>1
    <3> QED
      BY <1>5, <3>2, TTLPositive
  <2>3. Flag(TRUE) \in Results
    BY ResultsOf
  <2> HIDE DEF left, e
  <2> QED
    BY <1>5, <2>1, <2>2, <2>3, StoredOutcome
<1> HIDE DEF outcomes
<1> QED
  BY <1>2, <1>3, <1>4, <1>5

LEMMA LeastMin ==
    ASSUME NEW S, NEW n \in Nat, S \subseteq 1 .. n, S # {}
    PROVE  Min(S) \in S
<1>1. S \in SUBSET Nat
  OBVIOUS
<1>2. \E m \in S : \A k \in S : m <= k
  BY <1>1, Least
<1> QED
  BY <1>2 DEF Min

LEMMA DelOutcome ==
    ASSUME NEW c, NEW nan, IsCache(c, nan), NEW a \in Seq(Strings), NEW o \in cmd_del(c, a)
    PROVE  IsOutcome(o, c, nan)
<1> DEFINE unloggable == {i \in DOMAIN a : a[i] \in DOMAIN c.entries /\ ~Loggable({a[i]})}
           found == Range(a) \cap DOMAIN c.entries
           n == Cardinality(found)
           m == Min(unloggable)
           refusal == error(<<"ERR invalid UTF-8 byte">>)
           gone == Range(SubSeq(a, 1, m))
           all == Reply(Removed(c, Range(a)), integer(n))
           some == Refuse(Removed(c, gone), "ERR invalid UTF-8 byte")
<1>1. n \in Nat
  <2>1. IsFiniteSet(1 .. Len(a))
    BY FS_Interval
  <2>2. IsFiniteSet(Range(a))
    <3>1. a \in Surjection(1 .. Len(a), Range(a))
      BY DEF Range, Surjection
    <3> QED
      BY <2>1, <3>1, FS_Surjection
  <2>3. IsFiniteSet(found)
    BY <2>2, FS_Intersection
  <2> QED
    BY <2>3, FS_CardinalityType
<1>2. o \in WithArgs(c, a # <<>>, WhenReady(c, IF unloggable = {} THEN all ELSE some))
  BY DEF cmd_del
<1>3. o \in all => IsOutcome(o, c, nan)
  <2> HIDE DEF n
  <2>1. integer(n) \in Results
    BY <1>1, ResultsOf
  <2> QED
    BY <2>1, NotLiveOutcome
<1>4. ASSUME unloggable # {}, o \in some PROVE IsOutcome(o, c, nan)
  <2>1. /\ m \in 1 .. Len(a) /\ a[m] \in DOMAIN c.entries /\ ~Loggable({a[m]})
    <3>1. unloggable \subseteq 1 .. Len(a) /\ Len(a) \in Nat
      OBVIOUS
    <3>2. m \in unloggable
      <4> HIDE DEF unloggable
      <4> QED
        BY <1>4, <3>1, LeastMin
    <3> QED
      BY <3>1, <3>2
  <2> HIDE DEF m
  <2>2. a[m] \in gone
    <3>1. m \in 1 .. m /\ m \in Nat /\ a \in Seq(Strings)
      BY <2>1
    <3>2. DOMAIN SubSeq(a, 1, m) = 1 .. m /\ SubSeq(a, 1, m)[m] = a[m]
      BY <2>1, <3>1
    <3> QED
      BY <3>1, <3>2 DEF Range
  <2>3. o = Outcome(Removed(c, gone), refusal)
    BY <1>4 DEF Refuse, Reply
  <2>4. refusal \in Refusals
    BY DEF Refusals, Reasons
  <2> HIDE DEF gone, refusal
  <2> QED
    BY <2>1, <2>2, <2>3, <2>4, RemovedOutcome
<1> HIDE DEF all, some, unloggable
<1> QED
  BY <1>2, <1>3, <1>4, WithArgsOutcome, WhenReadyOutcome

\* The operations on sorted sets: only a result gets that far.
LEMMA SetsOutcome ==
    ASSUME NEW c, NEW nan, IsCache(c, nan), NEW sets, AreSets(sets, nan \cup NaNKeys(sets)),
           DOMAIN c.sets \subseteq DOMAIN sets, NEW reply \in Results,
           NEW o \in Reply([c EXCEPT !.sets = sets], reply)
    PROVE  IsOutcome(o, c, nan)
BY ReplyOutcome, SetsChanged

LEMMA ZaddOutcome ==
    ASSUME NEW c, NEW nan, IsCache(c, nan), NEW a \in Seq(Strings), NEW o \in cmd_zadd(c, a)
    PROVE  IsOutcome(o, c, nan)
<1> DEFINE r == zadd(c.sets, a[1], stod(a[2]), a[3])
           outcomes == Reply([c EXCEPT !.sets = r.sets], Flag(r.value))
<1>1. \A reason \in Reasons : o \in Refuse(c, reason) => IsOutcome(o, c, nan)
  BY Refused
<1>2. \/ o \in Refuse(c, "ERR wrong number of arguments")
      \/ o \in Refuse(c, "ERR stod")
      \/ o \in Refuse(c, "ERR not ready to accept operations")
      \/ Len(a) = 3 /\ IsScore(a[2]) /\ o \in outcomes
  BY DEF cmd_zadd, WithArgs, OnSets, WhenReady, Once
<1>3. ASSUME Len(a) = 3, IsScore(a[2]) PROVE a[3] \in Strings /\ stod(a[2]) \in Int \cup {NaN}
  <2>1. stod(a[2]) \in Scores
    BY <1>3 DEF IsScore, stod
  <2>2. Scores \subseteq Int \cup {NaN}
    BY DEF Scores, ScoreWord
  <2>3. Len(a) = 3
    BY <1>3
  <2>4. a[3] \in Strings
    BY ONLY <2>3, a \in Seq(Strings), LastItem
  <2> QED
    BY <2>1, <2>2, <2>4
<1>4. ASSUME Len(a) = 3, IsScore(a[2]), o \in outcomes PROVE IsOutcome(o, c, nan)
  <2>1. /\ AreSets(r.sets, nan \cup NaNKeys(r.sets)) /\ r.value \in BOOLEAN
        /\ DOMAIN c.sets \subseteq DOMAIN r.sets
    BY <1>3, <1>4, ZaddKeepsSets DEF IsCache
  <2> HIDE DEF r
  <2>2. Flag(r.value) \in Results
    BY <2>1, ResultsOf
  <2> QED
    BY <1>4, <2>1, <2>2, SetsOutcome
<1> HIDE DEF outcomes
<1> QED
  BY <1>1, <1>2, <1>4 DEF Reasons

LEMMA ZremOutcome ==
    ASSUME NEW c, NEW nan, IsCache(c, nan), NEW a, NEW o \in cmd_zrem(c, a)
    PROVE  IsOutcome(o, c, nan)
<1> DEFINE r == zrem(c.sets, a[1], a[2])
           outcomes == Reply([c EXCEPT !.sets = r.sets], Flag(r.value))
<1>1. o \in outcomes \/ IsOutcome(o, c, nan)
  <2>1. o \in WithArgs(c, Len(a) = 2, WhenReady(c, outcomes))
    BY DEF cmd_zrem, OnSets, Once
  <2> HIDE DEF outcomes
  <2> QED
    BY <2>1, WithArgsOutcome, WhenReadyOutcome
<1>2. AreSets(r.sets, nan) /\ r.value \in BOOLEAN /\ DOMAIN c.sets = DOMAIN r.sets
  BY ZremKeepsSets DEF IsCache
<1> HIDE DEF r
<1>3. Flag(r.value) \in Results /\ AreSets(r.sets, nan \cup NaNKeys(r.sets))
  BY <1>2, ResultsOf, SetsRemain
<1> QED
  BY <1>1, <1>2, <1>3, SetsOutcome

LEMMA ZscoreOutcome ==
    ASSUME NEW c, NEW nan, IsCache(c, nan), NEW a, NEW o \in cmd_zscore(c, a)
    PROVE  IsOutcome(o, c, nan)
<1> DEFINE r == zscore(c.sets, a[1], a[2])
           reply == OrNull(r.value, LAMBDA x : bulk_string(<<FixedWord[Rounded(x)]>>))
           outcomes == Reply([c EXCEPT !.sets = r.sets], reply)
<1>1. o \in outcomes \/ IsOutcome(o, c, nan)
  <2>1. o \in WithArgs(c, Len(a) = 2, WhenReady(c, outcomes))
    BY DEF cmd_zscore, OnSets, Once
  <2> HIDE DEF outcomes
  <2> QED
    BY <2>1, WithArgsOutcome, WhenReadyOutcome
<1>2. r.sets = c.sets /\ r.value \in Int \cup {NaN, NoResult} /\ AreSets(c.sets, nan)
  BY ZscoreResult DEF IsCache
<1> HIDE DEF r
<1>3. reply \in Results
  BY <1>2, ResultsOf DEF OrNull
<1> HIDE DEF reply
<1>4. AreSets(r.sets, nan \cup NaNKeys(r.sets))
  BY <1>2, SetsRemain
<1> QED
  BY <1>1, <1>2, <1>3, <1>4, SetsOutcome

LEMMA ZrankOutcome ==
    ASSUME NEW c, NEW nan, IsCache(c, nan), NEW a, NEW o \in cmd_zrank(c, a)
    PROVE  IsOutcome(o, c, nan)
<1> DEFINE r == zrank(c.sets, a[1], a[2])
           reply == OrNull(r.value, integer)
           outcomes == Reply([c EXCEPT !.sets = r.sets], reply)
<1>1. o \in outcomes \/ IsOutcome(o, c, nan)
  <2>1. o \in WithArgs(c, Len(a) = 2, WhenReady(c, outcomes))
    BY DEF cmd_zrank, OnSets, Once
  <2> HIDE DEF outcomes
  <2> QED
    BY <2>1, WithArgsOutcome, WhenReadyOutcome
<1>2. r.sets = c.sets /\ r.value \in Nat \cup {NoResult} /\ AreSets(c.sets, nan)
  BY ZrankResult DEF IsCache
<1> HIDE DEF r
<1>3. reply \in Results
  BY <1>2, ResultsOf DEF OrNull
<1> HIDE DEF reply
<1>4. AreSets(r.sets, nan \cup NaNKeys(r.sets))
  BY <1>2, SetsRemain
<1> QED
  BY <1>1, <1>2, <1>3, <1>4, SetsOutcome

LEMMA DispatchOutcome ==
    ASSUME NEW c, NEW nan, IsCache(c, nan), NEW name \in Strings, NEW a \in Seq(Strings),
           NEW o \in Dispatch(c, name, a)
    PROVE  IsOutcome(o, c, nan)
<1>1. \/ o \in cmd_init(c, a) \/ o \in cmd_ping(c, a) \/ o \in cmd_set(c, a)
      \/ o \in cmd_get(c, a) \/ o \in cmd_del(c, a) \/ o \in cmd_expire(c, a)
      \/ o \in cmd_persist(c, a) \/ o \in cmd_pttl(c, a) \/ o \in cmd_zadd(c, a)
      \/ o \in cmd_zscore(c, a) \/ o \in cmd_zrem(c, a) \/ o \in cmd_zrank(c, a)
      \/ o \in Reply(c, error(<<"ERR unknown command">> \o name))
  BY DEF Dispatch
<1>2. ASSUME o \in Reply(c, error(<<"ERR unknown command">> \o name)) PROVE IsOutcome(o, c, nan)
  <2>1. error(<<"ERR unknown command">> \o name) \in Refusals
    BY DEF Refusals
  <2> QED
    BY <1>2, <2>1, ReplyOutcome, Unchanged
<1> QED
  BY <1>1, <1>2, InitOutcome, PingOutcome, SetOutcome, GetOutcome, DelOutcome, ExpireOutcome,
     PersistOutcome, PttlOutcome, ZaddOutcome, ZscoreOutcome, ZremOutcome, ZrankOutcome

\* Whatever bytes come as a request, an outcome is a reply that is one frame
\* and a cache whose sets are sound, and a refusal has changed nothing but what
\* cannot be logged (command_handler.cpp; event_loop.cpp:232).
LEMMA HandleOutcome ==
    ASSUME NEW c, NEW nan, IsCache(c, nan), NEW body \in Strings, NEW o \in Handle(c, body)
    PROVE  IsOutcome(o, c, nan)
<1> DEFINE command == parse(body, FALSE)
           strings == [i \in DOMAIN command.array |-> command.array[i].str_value]
<1>1. \A reason \in Reasons : o \in Refuse(c, reason) => IsOutcome(o, c, nan)
  BY Refused
<1>2. \/ o \in Refuse(c, "ERR invalid RESP message")
      \/ command # nullopt /\ o \in execute(c, command)
  BY DEF Handle, Once
<1>3. IsParsed(command)
  BY ParserIsTotal
<1> HIDE DEF command
<1>4. \/ o \notin execute(c, command)
      \/ o \in Refuse(c, "ERR invalid command format")
      \/ /\ command.type = "Array" /\ command.array # <<>>
         /\ o \in Dispatch(c, Head(strings), Tail(strings))
  BY DEF execute, Once
<1>5. ASSUME command # nullopt, command.type = "Array", command.array # <<>>,
             o \in Dispatch(c, Head(strings), Tail(strings))
      PROVE  IsOutcome(o, c, nan)
  <2>1. AreElements(command.array)
    <3>1. Invalid.type = "Error"
      BY DEF Invalid, Text, RespValue
    <3>2. IsValue(command)
      BY <1>3, <1>5, <3>1 DEF IsParsed
    <3> QED
      BY <3>2, ValueParts DEF IsValue
  <2>2. PICK V : command.array \in Seq(V) /\ \A v \in V : v.str_value \in Strings
    BY <2>1 DEF AreElements
  <2>3. strings \in Seq(Strings) /\ strings # <<>>
    BY <1>5, <2>2
  <2> HIDE DEF strings
  <2>4. Head(strings) \in Strings /\ Tail(strings) \in Seq(Strings)
    BY <2>3
  <2> QED
    BY <1>5, <2>4, DispatchOutcome
<1> QED
  BY <1>1, <1>2, <1>4, <1>5 DEF Reasons

\* Whatever the words of a command are, what the worker executes is the command
\* that the client has written (client.py:101, event_loop.cpp:232).
THEOREM CommandsArrive ==
    ASSUME NEW c, NEW T, NEW ts \in Seq(Seq(T)), ts # <<>>,
           Len(ts) <= IntMax, \A i \in 1 .. Len(ts) : Len(ts[i]) <= IntMax
    PROVE  Handle(c, serialize_to_bulk_string(ts)) = Dispatch(c, Head(ts), Tail(ts))
<1> DEFINE n == Len(ts)
           v == parse(serialize_to_bulk_string(ts), FALSE)
           strings == [i \in DOMAIN v.array |-> v.array[i].str_value]
<1>1. n \in Nat \ {0} /\ \A i \in 1 .. n : Fits(FALSE, Len(ts[i]))
  BY DEF Fits
<1>2. Fits(FALSE, n)
  BY <1>1 DEF Fits
<1>3. v = ArrayOf(Items(ts, n), Len(serialize_to_bulk_string(ts)))
  BY <1>1, <1>2, RoundTrip
<1> HIDE DEF v
<1>4. v.type = "Array" /\ v.array = Items(ts, n)
  BY <1>3 DEF ArrayOf, RespValue
<1>5. v # nullopt
  BY <1>4 DEF nullopt
<1>6. DOMAIN Items(ts, n) = 1 .. n /\ \A i \in 1 .. n : Items(ts, n)[i].str_value = ts[i]
  BY DEF Items, Item, Text, RespValue
<1>7. Items(ts, n) # <<>>
  BY <1>1, <1>6
<1>8. strings = ts
  <2>1. strings = [i \in 1 .. n |-> ts[i]]
    BY <1>4, <1>6
  <2> QED
    BY <2>1
<1> HIDE DEF strings, n
<1>9. execute(c, v) = Dispatch(c, Head(strings), Tail(strings))
  BY <1>4, <1>7 DEF execute, Once, strings
<1>10. Handle(c, serialize_to_bulk_string(ts)) = execute(c, v)
  BY <1>5 DEF Handle, Once, v
<1> QED
  BY <1>8, <1>9, <1>10

-----------------------------------------------------------------------------
(* The connection.                                                           *)

Calls == {NoCall} \cup UNION {Workload[w].calls : w \in DOMAIN Workload}
Request == [age : Nat, call : Calls, body : Strings]
Response == [age : Nat, left : {"frame", "body", "piece"}, bytes : Refusals \cup Results]
AnswerKinds == {"nothing", "raised", "str", "int", "float", "None"}

\* What the state consists of.
StateOK ==
    /\ workload \in DOMAIN Workload
    /\ IsCache(cache, nan_keys) /\ nan_keys \subseteq DOMAIN cache.sets
    /\ to_server \in Seq(Request) /\ to_client \in Seq(Response)
    /\ phase \in Phases
    /\ answer.kind \in AnswerKinds
    /\ timeouts \in Nat /\ torn \in BOOLEAN

\* As long as no reply has been torn, the requests and replies on their way are
\* those of the last calls, one for each timeout and one for the call that
\* waits, in their order, and all but the one that is being read are whole.
Reading == phase \in {"rest_of_header", "body", "rest_of_body"}
Missing == IF phase = "idle" THEN timeouts ELSE timeouts + 1

InStepOK ==
    /\ phase \notin {"garbage", "endless"}
    /\ Len(to_server) + Len(to_client) = Missing
    /\ Reading => to_client # <<>>
    /\ \A j \in DOMAIN to_server : to_server[j].age = Len(to_server) - j
    /\ \A i \in DOMAIN to_client :
           /\ to_client[i].age = Len(to_server) + Len(to_client) - i
           /\ i # 1 \/ ~Reading => to_client[i].left = "frame"

Inv == StateOK /\ (~torn => InStepOK)

\* What Older does to a queue.
IsOlder(p, q) ==
    /\ Len(p) = Len(q) /\ DOMAIN p = DOMAIN q
    /\ \A i \in DOMAIN q : p[i].age = q[i].age + 1

LEMMA OlderRequests ==
    ASSUME NEW q \in Seq(Request)
    PROVE  Older(q) \in Seq(Request) /\ IsOlder(Older(q), q)
<1> DEFINE Aged(r) == [r EXCEPT !.age = @ + 1]
<1>1. \A r \in Request : Aged(r) \in Request /\ Aged(r).age = r.age + 1
  BY DEF Request
<1>2. \A i \in 1 .. Len(q) : q[i] \in Request
  OBVIOUS
<1>3. Older(q) = [i \in 1 .. Len(q) |-> Aged(q[i])]
  BY DEF Older
<1> HIDE DEF Request, Aged
<1>4. \A i \in 1 .. Len(q) : Older(q)[i] \in Request /\ Older(q)[i].age = q[i].age + 1
  BY <1>1, <1>2, <1>3
<1>5. Older(q) \in Seq(Request) /\ Len(Older(q)) = Len(q)
  BY <1>3, <1>4
<1> QED
  BY <1>4, <1>5 DEF IsOlder

LEMMA OlderResponses ==
    ASSUME NEW q \in Seq(Response)
    PROVE  /\ Older(q) \in Seq(Response) /\ IsOlder(Older(q), q)
           /\ \A i \in DOMAIN q : Older(q)[i].left = q[i].left
<1> DEFINE Aged(r) == [r EXCEPT !.age = @ + 1]
<1>1. \A r \in Response : /\ Aged(r) \in Response /\ Aged(r).age = r.age + 1
                          /\ Aged(r).left = r.left
  BY DEF Response
<1>2. \A i \in 1 .. Len(q) : q[i] \in Response
  OBVIOUS
<1>3. Older(q) = [i \in 1 .. Len(q) |-> Aged(q[i])]
  BY DEF Older
<1> HIDE DEF Response, Aged
<1>4. \A i \in 1 .. Len(q) : /\ Older(q)[i] \in Response /\ Older(q)[i].age = q[i].age + 1
                             /\ Older(q)[i].left = q[i].left
  BY <1>1, <1>2, <1>3
<1>5. Older(q) \in Seq(Response) /\ Len(Older(q)) = Len(q)
  BY <1>3, <1>4
<1> QED
  BY <1>4, <1>5 DEF IsOlder

\* What Begun leaves as it is.
IsBegun(p, q) ==
    /\ Len(p) = Len(q) /\ DOMAIN p = DOMAIN q
    /\ \A i \in DOMAIN q : p[i].age = q[i].age /\ (i # 1 => p[i] = q[i])

\* A part of the first reply has been read.
LEMMA BegunResponses ==
    ASSUME NEW q \in Seq(Response), NEW left \in {"body", "piece"}
    PROVE  Begun(q, left) \in Seq(Response) /\ IsBegun(Begun(q, left), q)
<1> DEFINE Cut(r) == [r EXCEPT !.left = left]
           p == Begun(q, left)
<1>1. \A r \in Response : Cut(r) \in Response /\ Cut(r).age = r.age
  BY DEF Response
<1>2. DOMAIN q = 1 .. Len(q) /\ \A i \in 1 .. Len(q) : q[i] \in Response
  OBVIOUS
<1>3. p = [i \in 1 .. Len(q) |-> IF i = 1 THEN Cut(q[i]) ELSE q[i]]
  BY <1>2 DEF Begun
<1> HIDE DEF Response, Cut, p
<1>4. \A i \in 1 .. Len(q) : /\ p[i] \in Response /\ p[i].age = q[i].age
                             /\ i # 1 => p[i] = q[i]
  BY <1>1, <1>2, <1>3
<1>5. p \in Seq(Response) /\ Len(p) = Len(q) /\ DOMAIN p = 1 .. Len(q)
  BY <1>3, <1>4
<1> QED
  BY <1>2, <1>4, <1>5 DEF p, IsBegun

\* Whatever has been read, an answer is of one of the kinds.
LEMMA ReturnedKind ==
    ASSUME NEW c, NEW bytes
    PROVE  Returned(c, bytes).kind \in AnswerKinds
<1>1. Raised.kind = "raised" /\ \A kind, str, int : Answer(kind, str, int).kind = kind
  BY DEF Raised, Answer
<1>2. \A v : Value_of(v).kind \in AnswerKinds
  BY <1>1 DEF Value_of, AnswerKinds
<1>3. \A r : r.kind \in AnswerKinds => ToFloat(r).kind \in AnswerKinds
  BY <1>1 DEF ToFloat, AnswerKinds
<1> DEFINE r == Value_of(py_parse(bytes))
<1>4. Returned(c, bytes) \in {Raised, ToFloat(r), r}
  BY DEF Returned, Once
<1>5. Raised.kind \in AnswerKinds
  BY <1>1 DEF AnswerKinds
<1> HIDE DEF r
<1>6. r.kind \in AnswerKinds
  BY <1>2 DEF r
<1> QED
  BY <1>3, <1>4, <1>5, <1>6

LEMMA FirstOfRest ==
    ASSUME NEW S, NEW q \in Seq(S), q # <<>>
    PROVE  /\ Tail(q) \in Seq(S) /\ Len(Tail(q)) = Len(q) - 1 /\ Len(q) \in Nat \ {0}
           /\ Head(q) = q[1] /\ q[1] \in S
           /\ DOMAIN q = 1 .. Len(q) /\ DOMAIN Tail(q) = 1 .. Len(q) - 1
           /\ \A i \in 1 .. Len(q) - 1 : Tail(q)[i] = q[i + 1]
OBVIOUS

LEMMA AppendedTo ==
    ASSUME NEW S, NEW q \in Seq(S), NEW e \in S, NEW n \in Nat, Len(q) = n
    PROVE  /\ Append(q, e) \in Seq(S) /\ Len(Append(q, e)) = n + 1
           /\ DOMAIN Append(q, e) = 1 .. n + 1 /\ Append(q, e)[n + 1] = e
           /\ \A i \in 1 .. n : Append(q, e)[i] = q[i]
OBVIOUS

LEMMA InitialCache ==
    ASSUME NEW c \in [state : {"UNINITIALIZED", "READY"}, entries : {<<>>}, sets : {<<>>}]
    PROVE  IsCache(c, {}) /\ c.sets = <<>> /\ c.entries = <<>>
<1>1. AreSets(<<>>, {})
  BY DEF AreSets
<1>2. /\ c = [state |-> c.state, entries |-> c.entries, sets |-> c.sets]
      /\ c.state \in {"UNINITIALIZED", "READY"} /\ c.entries = <<>> /\ c.sets = <<>>
  OBVIOUS
<1>3. \A k \in DOMAIN c.entries : c.entries[k] \in Entries
  BY <1>2
<1> QED
  BY <1>1, <1>2, <1>3 DEF IsCache

LEMMA InitInv == Init => Inv
<1> SUFFICES ASSUME Init PROVE Inv
  OBVIOUS
<1>1. IsCache(cache, nan_keys)
  BY InitialCache DEF Init
<1>2. answer.kind \in AnswerKinds
  BY DEF Init, NoAnswer, Answer, AnswerKinds
<1>3. StateOK
  <2>1. to_server = <<>> /\ to_client = <<>> /\ <<>> \in Seq(Request) /\ <<>> \in Seq(Response)
    BY DEF Init
  <2> QED
    BY <1>1, <1>2, <2>1 DEF Init, StateOK, Phases
<1>4. InStepOK
  BY DEF Init, InStepOK, Missing, Reading
<1> QED
  BY <1>3, <1>4 DEF Inv

LEMMA SendInv ==
    ASSUME Inv, NEW c \in Calls, NEW body \in Strings, Send(c, body)
    PROVE  Inv'
<1> DEFINE r == [age |-> 0, call |-> c, body |-> body]
           n == Len(to_server)
           m == Len(to_client)
<1> USE DEF Inv
<1>1. /\ to_server \in Seq(Request) /\ to_client \in Seq(Response) /\ n \in Nat /\ m \in Nat
      /\ DOMAIN to_server = 1 .. n /\ DOMAIN to_client = 1 .. m /\ timeouts \in Nat
      /\ to_server' = Append(Older(to_server), r) /\ to_client' = Older(to_client)
      /\ phase = "idle" /\ phase' = "header" /\ UNCHANGED <<timeouts, torn>>
  BY DEF StateOK, Send
<1>2. r \in Request /\ r.age = 0
  BY DEF Request
<1>3. Older(to_server) \in Seq(Request) /\ Len(Older(to_server)) = n
      /\ \A j \in 1 .. n : Older(to_server)[j].age = to_server[j].age + 1
  BY <1>1, OlderRequests DEF IsOlder
<1>4. /\ to_client' \in Seq(Response) /\ Len(to_client') = m /\ DOMAIN to_client' = 1 .. m
      /\ \A i \in 1 .. m : /\ to_client'[i].age = to_client[i].age + 1
                           /\ to_client'[i].left = to_client[i].left
  BY <1>1, OlderResponses DEF IsOlder
<1> HIDE DEF r, n, m
<1>5. /\ to_server' \in Seq(Request) /\ Len(to_server') = n + 1 /\ DOMAIN to_server' = 1 .. n + 1
      /\ to_server'[n + 1].age = 0
      /\ \A j \in 1 .. n : to_server'[j].age = to_server[j].age + 1
  <2> DEFINE p == Older(to_server)
  <2>1. p \in Seq(Request) /\ Len(p) = n /\ to_server' = Append(p, r)
    BY <1>1, <1>3
  <2>2. \A j \in 1 .. n : p[j].age = to_server[j].age + 1
    BY <1>3
  <2> HIDE DEF p
  <2>3. /\ to_server' \in Seq(Request) /\ Len(to_server') = n + 1
        /\ DOMAIN to_server' = 1 .. n + 1 /\ to_server'[n + 1] = r
        /\ \A j \in 1 .. n : to_server'[j] = p[j]
    BY ONLY <1>1, <1>2, <2>1, AppendedTo
  <2> QED
    BY <1>2, <2>2, <2>3
<1>6. StateOK'
  <2>1. NoAnswer.kind \in AnswerKinds
    BY DEF NoAnswer, Answer, AnswerKinds
  <2> QED
    BY <1>1, <1>4, <1>5, <2>1 DEF StateOK, Send, Phases
<1>7. ASSUME ~torn PROVE InStepOK'
  <2>1. /\ n + m = timeouts
        /\ \A j \in 1 .. n : to_server[j].age = n - j
        /\ \A i \in 1 .. m : to_client[i].age = n + m - i /\ to_client[i].left = "frame"
    BY <1>1, <1>7 DEF InStepOK, Missing, Reading, n, m
  <2>2. \A j \in 1 .. n + 1 : to_server'[j].age = (n + 1) - j
    <3> TAKE j \in 1 .. n + 1
    <3>1. CASE j \in 1 .. n
      <4>1. to_server'[j].age = to_server[j].age + 1 /\ to_server[j].age = n - j
        BY <1>5, <2>1, <3>1
      <4> QED
        BY <1>1, <4>1
    <3>2. CASE j \notin 1 .. n
      <4>1. j = n + 1
        BY <1>1, <3>2
      <4> QED
        BY <1>1, <1>5, <4>1
    <3> QED
      BY <3>1, <3>2
  <2>3. \A i \in 1 .. m : to_client'[i].age = (n + 1) + m - i /\ to_client'[i].left = "frame"
    <3> TAKE i \in 1 .. m
    <3>1. to_client'[i].age = (n + m - i) + 1 /\ to_client'[i].left = "frame"
      BY <1>4, <2>1
    <3> QED
      BY <1>1, <3>1
  <2>4. ~Reading' /\ Missing' = timeouts + 1 /\ phase' \notin {"garbage", "endless"}
    BY <1>1 DEF Reading, Missing
  <2>5. (n + 1) + m = timeouts + 1
    BY <1>1, <2>1
  <2> QED
    BY <1>4, <1>5, <2>2, <2>3, <2>4, <2>5 DEF InStepOK
<1> QED
  BY <1>1, <1>6, <1>7

LEMMA ExecuteInv ==
    ASSUME Inv, Execute
    PROVE  Inv'
<1> DEFINE q == Head(to_server)
           n == Len(to_server) - 1
           m == Len(to_client)
<1> USE DEF Inv
<1>1. PICK o \in Handle(cache, q.body) : Run(q, o) /\ enqueue_response(q, o)
  BY DEF Execute
<1>2. /\ to_server \in Seq(Request) /\ to_server # <<>> /\ to_server' = Tail(to_server)
      /\ to_client \in Seq(Response) /\ m \in Nat /\ DOMAIN to_client = 1 .. m
      /\ IsCache(cache, nan_keys)
  BY DEF StateOK, Execute
<1>3. q \in Request /\ q = to_server[1] /\ q.age \in Nat /\ q.body \in Strings
  <2>1. q \in Request /\ q = to_server[1]
    BY <1>2, FirstOfRest
  <2> QED
    BY <2>1 DEF Request
<1>4. IsOutcome(o, cache, nan_keys)
  BY <1>1, <1>2, <1>3, HandleOutcome
<1> DEFINE r == [age |-> q.age, left |-> "frame", bytes |-> o.reply]
<1>5. r \in Response /\ r.age = q.age /\ r.left = "frame"
  BY <1>3, <1>4 DEF Response, IsOutcome
<1>6. to_client' = Append(to_client, r)
  BY <1>1 DEF enqueue_response
<1>7. /\ to_server' \in Seq(Request) /\ n \in Nat /\ DOMAIN to_server' = 1 .. n
      /\ Len(to_server') = n /\ DOMAIN to_server = 1 .. n + 1 /\ Len(to_server) = n + 1
      /\ \A j \in 1 .. n : to_server'[j] = to_server[j + 1]
  BY <1>2, FirstOfRest
<1> HIDE DEF q, r, n
<1>8. /\ to_client' \in Seq(Response) /\ DOMAIN to_client' = 1 .. m + 1 /\ Len(to_client') = m + 1
      /\ to_client'[m + 1] = r
      /\ \A i \in 1 .. m : to_client'[i] = to_client[i]
  BY <1>2, <1>5, <1>6
<1>9. UNCHANGED <<workload, phase, answer, timeouts, torn>>
  BY <1>1 DEF Run
<1>10. StateOK'
  <2>1. IsCache(cache, nan_keys)' /\ (nan_keys \subseteq DOMAIN cache.sets)'
    <3>1. /\ cache' = o.cache /\ nan_keys' = nan_keys \cup NaNKeys(o.cache.sets)
          /\ NaNKeys(o.cache.sets) \subseteq DOMAIN o.cache.sets
      BY <1>1 DEF Run, NaNKeys
    <3> QED
      BY <1>4, <3>1 DEF StateOK, IsOutcome
  <2> QED
    BY <1>7, <1>8, <1>9, <2>1 DEF StateOK
<1>11. ASSUME ~torn PROVE InStepOK'
  <2>1. /\ (n + 1) + m = Missing
        /\ Reading => m # 0
        /\ phase \notin {"garbage", "endless"}
        /\ \A j \in 1 .. n + 1 : to_server[j].age = (n + 1) - j
        /\ \A i \in 1 .. m : /\ to_client[i].age = (n + 1) + m - i
                             /\ i # 1 \/ ~Reading => to_client[i].left = "frame"
    <3>1. InStepOK /\ Len(to_server) + m = Missing
      BY <1>11 DEF InStepOK
    <3>2. Reading => m # 0
      BY <1>2, <3>1 DEF InStepOK
    <3>3. \A j \in 1 .. n + 1 : to_server[j].age = (n + 1) - j
      BY <1>7, <3>1 DEF InStepOK
    <3>4. \A i \in 1 .. m :
              /\ to_client[i].age = (n + 1) + m - i
              /\ i # 1 \/ ~Reading => to_client[i].left = "frame"
      BY <1>2, <1>7, <3>1 DEF InStepOK
    <3> QED
      BY <1>7, <3>1, <3>2, <3>3, <3>4 DEF InStepOK
  <2> HIDE DEF m
  <2>2. Reading' = Reading /\ Missing' = Missing /\ phase' = phase
    BY <1>9 DEF Reading, Missing
  <2>3. \A j \in 1 .. n : to_server'[j].age = n - j
    <3> TAKE j \in 1 .. n
    <3>1. j + 1 \in 1 .. n + 1 /\ (n + 1) - (j + 1) = n - j
      BY <1>7
    <3> QED
      BY <1>7, <2>1, <3>1
  <2>4. \A i \in 1 .. m + 1 : /\ to_client'[i].age = n + (m + 1) - i
                              /\ i # 1 \/ ~Reading => to_client'[i].left = "frame"
    <3> TAKE i \in 1 .. m + 1
    <3>1. CASE i \in 1 .. m
      <4>1. (n + 1) + m - i = n + (m + 1) - i
        BY <1>2, <1>7, <3>1
      <4> QED
        BY <1>8, <2>1, <3>1, <4>1
    <3>2. CASE i \notin 1 .. m
      <4>1. i = m + 1
        BY <1>2, <3>2
      <4>2. q.age = (n + 1) - 1
        BY <1>3, <1>7, <2>1
      <4>3. n + (m + 1) - i = (n + 1) - 1
        BY <1>2, <1>7, <4>1
      <4> QED
        BY <1>5, <1>8, <4>1, <4>2, <4>3
    <3> QED
      BY <3>1, <3>2
  <2>5. n + (m + 1) = Missing /\ to_client' # <<>>
    BY <1>2, <1>7, <1>8, <2>1
  <2> QED
    BY <1>7, <1>8, <2>1, <2>2, <2>3, <2>4, <2>5 DEF InStepOK
<1> QED
  BY <1>9, <1>10, <1>11

\* Reading leaves the replies what they are.
LEMMA TookInv ==
    ASSUME Inv, NEW rest, Took(rest), NEW left \in {"body", "piece"},
           rest \in {Tail(to_client), Begun(to_client, left)},
           phase' \in Phases, answer'.kind \in AnswerKinds
    PROVE  StateOK'
<1>1. to_client \in Seq(Response) /\ to_client # <<>>
  BY DEF Took, Inv, StateOK
<1>2. Tail(to_client) \in Seq(Response) /\ Begun(to_client, left) \in Seq(Response)
  BY <1>1, FirstOfRest, BegunResponses
<1>3. to_client' \in Seq(Response) /\ UNCHANGED <<workload, cache, to_server, timeouts, torn, nan_keys>>
  BY <1>2 DEF Took
<1> QED
  BY <1>3 DEF Inv, StateOK

\* In step, a part of the first reply is read.
LEMMA BegunInv ==
    ASSUME Inv, ~torn, NEW left \in {"body", "piece"}, Took(Begun(to_client, left)),
           phase # "idle", phase' \in {"rest_of_header", "body", "rest_of_body"}
    PROVE  InStepOK'
<1> DEFINE n == Len(to_server)
           m == Len(to_client)
           begun == Begun(to_client, left)
<1>1. /\ to_client \in Seq(Response) /\ to_client # <<>> /\ m \in Nat /\ DOMAIN to_client = 1 .. m
      /\ to_client' = begun /\ UNCHANGED <<to_server, timeouts>>
      /\ InStepOK
  <2>1. to_client # <<>> /\ to_client' = begun /\ UNCHANGED <<to_server, timeouts>>
    BY DEF Took
  <2>2. to_client \in Seq(Response) /\ InStepOK
    BY DEF Inv, StateOK
  <2> QED
    BY <2>1, <2>2
<1>2. /\ Len(to_client') = m /\ DOMAIN to_client' = 1 .. m
      /\ \A i \in 1 .. m : /\ to_client'[i].age = to_client[i].age
                           /\ i # 1 => to_client'[i] = to_client[i]
  <2>1. /\ Len(begun) = m /\ DOMAIN begun = 1 .. m
        /\ \A i \in 1 .. m : /\ begun[i].age = to_client[i].age
                             /\ i # 1 => begun[i] = to_client[i]
    <3>1. IsBegun(begun, to_client)
      BY <1>1, BegunResponses
    <3> HIDE DEF begun
    <3> QED
      BY <1>1, <3>1 DEF IsBegun
  <2> HIDE DEF begun, m
  <2> QED
    BY <1>1, <2>1
<1>3. /\ n + m = Missing
      /\ \A j \in DOMAIN to_server : to_server[j].age = n - j
      /\ \A i \in 1 .. m : /\ to_client[i].age = n + m - i
                           /\ i # 1 => to_client[i].left = "frame"
  BY <1>1 DEF InStepOK
<1>4. Reading' /\ Missing' = Missing /\ phase' \notin {"garbage", "endless"}
  BY <1>1 DEF Reading, Missing
<1>5. to_client' # <<>>
  <2>1. m # 0
    BY <1>1
  <2> HIDE DEF m
  <2> QED
    BY <1>2, <2>1
<1> HIDE DEF begun
<1> QED
  BY <1>1, <1>2, <1>3, <1>4, <1>5 DEF InStepOK

\* In step, the rest of the first reply is read.
LEMMA ReadInv ==
    ASSUME Inv, ~torn, Took(Tail(to_client)), Reading, phase' = "idle"
    PROVE  InStepOK'
<1> DEFINE n == Len(to_server)
           m == Len(to_client) - 1
<1>1. /\ to_client \in Seq(Response) /\ to_client # <<>> /\ to_server \in Seq(Request) /\ n \in Nat
      /\ to_client' = Tail(to_client) /\ UNCHANGED <<to_server, timeouts>>
      /\ timeouts \in Nat /\ InStepOK
  BY DEF Took, Inv, StateOK
<1>2. /\ m \in Nat /\ Len(to_client) = m + 1 /\ DOMAIN to_client = 1 .. m + 1
      /\ Len(to_client') = m /\ DOMAIN to_client' = 1 .. m
      /\ \A i \in 1 .. m : to_client'[i] = to_client[i + 1]
  BY <1>1, FirstOfRest
<1> HIDE DEF m
<1>3. /\ n + (m + 1) = timeouts + 1
      /\ \A j \in DOMAIN to_server : to_server[j].age = n - j
      /\ \A i \in 1 .. m + 1 : /\ to_client[i].age = n + (m + 1) - i
                               /\ i # 1 => to_client[i].left = "frame"
  BY <1>1, <1>2 DEF InStepOK, Reading, Missing
<1> HIDE DEF n
<1>4. ~Reading' /\ Missing' = timeouts /\ phase' \notin {"garbage", "endless"}
  BY <1>1 DEF Reading, Missing
<1>5. \A i \in 1 .. m : to_client'[i].age = n + m - i /\ to_client'[i].left = "frame"
  <2> TAKE i \in 1 .. m
  <2>1. i + 1 \in 1 .. m + 1 /\ i + 1 # 1 /\ n + (m + 1) - (i + 1) = n + m - i
    BY <1>1, <1>2
  <2>2. /\ to_client[i + 1].age = n + (m + 1) - (i + 1)
        /\ to_client[i + 1].left = "frame"
    BY <1>3, <2>1
  <2> QED
    BY <1>2, <2>1, <2>2
<1>6. n + m = timeouts
  BY <1>1, <1>2, <1>3
<1> QED
  BY <1>1, <1>2, <1>3, <1>4, <1>5, <1>6 DEF InStepOK, n

\* Without a torn reply every call reads in step.
LEMMA OutOfStep ==
    ASSUME Inv, ReadLength \/ ReadOn \/ ReadGarbage
    PROVE  torn
<1> SUFFICES ASSUME ~torn PROVE FALSE
  BY DEF Inv, StateOK
<1>1. phase \notin {"garbage", "endless"}
  BY DEF Inv, InStepOK
<1>2. phase = "header" /\ to_client # <<>> /\ Head(to_client).left # "frame"
  BY <1>1 DEF ReadLength, ReadOn, ReadGarbage
<1>3. to_client[1].left # "frame" /\ 1 \in DOMAIN to_client
  <2>1. to_client \in Seq(Response)
    BY DEF Inv, StateOK
  <2> QED
    BY <1>2, <2>1, FirstOfRest
<1> QED
  BY <1>2, <1>3 DEF Inv, InStepOK, Reading

LEMMA ReceiveInv ==
    ASSUME Inv, Receive
    PROVE  Inv'
<1>1. CASE ReadSome
  <2>1. /\ Took(Begun(to_client, "piece")) /\ phase # "idle"
        /\ phase' \in {"rest_of_header", "rest_of_body"} /\ answer' = answer
    BY <1>1 DEF ReadSome, InStep
  <2>2. StateOK'
    BY <2>1, TookInv DEF Phases, Inv, StateOK
  <2>3. torn' = torn /\ (~torn => InStepOK')
    BY <2>1, BegunInv DEF Took
  <2> QED
    BY <2>2, <2>3 DEF Inv
<1>2. CASE ReadHeader
  <2>1. /\ Took(Begun(to_client, "body")) /\ phase # "idle"
        /\ phase' = "body" /\ answer' = answer
    BY <1>2 DEF ReadHeader, InStep
  <2>2. StateOK'
    BY <2>1, TookInv DEF Phases, Inv, StateOK
  <2>3. torn' = torn /\ (~torn => InStepOK')
    BY <2>1, BegunInv DEF Took
  <2> QED
    BY <2>2, <2>3 DEF Inv
<1>3. CASE ReadBody
  <2>1. /\ Took(Tail(to_client)) /\ Reading /\ phase' = "idle" /\ phase' \in Phases
        /\ answer'.kind \in AnswerKinds
    BY <1>3, ReturnedKind DEF ReadBody, Reading, Phases
  <2>2. StateOK'
    BY <2>1, TookInv
  <2>3. torn' = torn /\ (~torn => InStepOK')
    BY <2>1, ReadInv DEF Took
  <2> QED
    BY <2>2, <2>3 DEF Inv
<1>4. CASE ReadLength \/ ReadOn
  <2>1. /\ \E rest \in {Tail(to_client), Begun(to_client, "piece")} : Took(rest)
        /\ answer' = answer
    BY <1>4 DEF ReadLength, ReadOn, TookOutOfStep
  <2>2. phase' \in Phases
    BY <1>4 DEF ReadLength, ReadOn, Phases
  <2>3. StateOK'
    BY <2>1, <2>2, TookInv DEF Inv, StateOK
  <2>4. torn' = torn /\ torn
    BY <1>4, <2>1, OutOfStep DEF Took
  <2> QED
    BY <2>3, <2>4 DEF Inv
<1>5. CASE ReadGarbage
  <2>1. answer'.kind \in AnswerKinds
    BY <1>5, ReturnedKind DEF ReadGarbage
  <2>2. phase' = "idle" /\ UNCHANGED <<workload, cache, to_server, to_client, timeouts, torn, nan_keys>>
    BY <1>5 DEF ReadGarbage
  <2>3. StateOK'
    BY <2>1, <2>2 DEF Inv, StateOK, Phases
  <2>4. torn'
    BY <1>5, <2>2, OutOfStep
  <2> QED
    BY <2>3, <2>4 DEF Inv
<1> QED
  BY <1>1, <1>2, <1>3, <1>4, <1>5 DEF Receive

LEMMA TimeoutInv ==
    ASSUME Inv, Timeout
    PROVE  Inv'
<1>1. /\ UNCHANGED <<workload, cache, to_server, to_client, nan_keys>> /\ phase' = "idle"
      /\ phase # "idle" /\ torn' = (torn \/ phase # "header")
  BY DEF Timeout
<1>2. answer'.kind \in AnswerKinds
  BY DEF Timeout, Raised, Answer, AnswerKinds
<1>3. timeouts \in Nat /\ timeouts' \in Nat
  BY DEF Timeout, Inv, StateOK
<1>4. StateOK'
  BY <1>1, <1>2, <1>3 DEF Inv, StateOK, Phases
<1>5. ASSUME ~torn' PROVE InStepOK'
  <2>1. ~torn /\ phase = "header" /\ InStepOK
    BY <1>1, <1>5 DEF Inv
  <2>2. Len(to_server) + Len(to_client) = timeouts + 1 /\ ~Reading /\ ~Reading'
    BY <1>1, <2>1 DEF InStepOK, Missing, Reading
  <2>3. ~(to_server = <<>> /\ to_client = <<>>)
    BY <1>3, <2>2
  <2>4. timeouts' = timeouts + 1
    BY <2>3 DEF Timeout
  <2>5. Missing' = timeouts + 1
    BY <1>1, <2>4 DEF Missing
  <2> QED
    BY <1>1, <2>1, <2>2, <2>5 DEF InStepOK
<1> QED
  BY <1>4, <1>5 DEF Inv

LEMMA TickInv ==
    ASSUME Inv, Tick
    PROVE  Inv'
<1> DEFINE Left(e) == IF e.left > 0 THEN e.left - 1 ELSE e.left
           entries == [k \in DOMAIN cache.entries |-> ticked(cache.entries[k])]
<1>1. IsCache(cache, nan_keys)
  BY DEF Inv, StateOK
<1>2. cache' = [cache EXCEPT !.entries = entries]
  BY DEF Tick
<1>3. \A e \in Entries : ticked(e) \in Entries
  <2>1. \A e \in Entries : Left(e) \in Nat \cup {Forever}
    BY DEF Entries, Forever
  <2>2. \A e : ticked(e) = [e EXCEPT !.left = Left(e)]
    BY DEF ticked
  <2> HIDE DEF Left
  <2> QED
    BY <2>1, <2>2 DEF Entries
<1>4. \A k \in DOMAIN entries : entries[k] \in Entries
  BY <1>1, <1>3 DEF IsCache
<1> HIDE DEF entries
<1>5. cache' = [state |-> cache.state, entries |-> entries, sets |-> cache.sets]
  BY <1>1, <1>2, CacheWith
<1>6. IsCache(cache', nan_keys) /\ cache'.sets = cache.sets
  BY <1>1, <1>4, <1>5 DEF IsCache
<1>7. UNCHANGED <<workload, to_server, to_client, phase, answer, timeouts, torn, nan_keys>>
  BY DEF Tick
<1>8. StateOK'
  BY <1>6, <1>7 DEF Inv, StateOK
<1>9. ~torn' => InStepOK'
  BY <1>7 DEF Inv, InStepOK, Reading, Missing
<1> QED
  BY <1>8, <1>9 DEF Inv

LEMMA NextInv ==
    ASSUME Inv, [Next]_vars
    PROVE  Inv'
<1>1. CASE Invoke
  <2>1. workload \in DOMAIN Workload
    BY DEF Inv, StateOK
  <2>2. PICK c \in Workload[workload].calls : Send(c, Encoded(tokens(c)))
    BY <1>1 DEF Invoke
  <2>3. c \in Calls
    BY <2>1, <2>2 DEF Calls
  <2>4. Encoded(tokens(c)) \in Strings
    BY <2>1, <2>2, RequestsAssumption
  <2> QED
    BY <2>2, <2>3, <2>4, SendInv
<1>2. CASE SendFrame
  <2>1. workload \in DOMAIN Workload
    BY DEF Inv, StateOK
  <2>2. PICK body \in Workload[workload].frames : Send(NoCall, body)
    BY <1>2 DEF SendFrame
  <2>3. NoCall \in Calls
    BY DEF Calls
  <2>4. body \in Strings
    BY <2>1, <2>2, RequestsAssumption
  <2> QED
    BY <2>2, <2>3, <2>4, SendInv
<1>3. CASE Execute
  BY <1>3, ExecuteInv
<1>4. CASE Receive
  BY <1>4, ReceiveInv
<1>5. CASE Timeout
  BY <1>5, TimeoutInv
<1>6. CASE Tick
  BY <1>6, TickInv
<1>7. CASE UNCHANGED vars
  BY <1>7 DEF vars, Inv, StateOK, InStepOK, Reading, Missing
<1> QED
  BY <1>1, <1>2, <1>3, <1>4, <1>5, <1>6, <1>7 DEF Next

\* The invariant holds: whatever the workload and the bytes that are sent,
\* wherever calls time out.
THEOREM InvHolds == Spec => []Inv
<1>1. Inv /\ [Next]_vars => Inv'
  BY NextInv
<1> QED
  BY InitInv, <1>1, PTL DEF Spec

\* The state of the connection, the cache and the client is well formed.
THEOREM TypeCorrect == Spec => []TypeOK
<1>1. Inv => TypeOK
  <2> SUFFICES ASSUME Inv PROVE TypeOK
    OBVIOUS
  <2>1. /\ \A i \in DOMAIN to_server : to_server[i] \in Request
        /\ \A i \in DOMAIN to_client : to_client[i] \in Response
    BY DEF Inv, StateOK
  <2>2. /\ \A i \in DOMAIN to_server : to_server[i].age \in Nat
        /\ \A i \in DOMAIN to_client :
               to_client[i].age \in Nat /\ to_client[i].left \in {"frame", "body", "piece"}
    BY <2>1 DEF Request, Response
  <2>3. \A k \in DOMAIN cache.entries : cache.entries[k].left \in Nat \cup {Forever}
    BY DEF Inv, StateOK, IsCache, Entries
  <2> QED
    BY <2>2, <2>3 DEF Inv, StateOK, IsCache, AnswerKinds, TypeOK
<1> QED
  BY InvHolds, <1>1, PTL

\* The stored heights and sizes of every tree are true, it is balanced, and
\* without NaNs it agrees with the member map: after every sequence of requests
\* on every set (sorted_set.cpp:24, :60; tree.cpp:41, :87).
THEOREM SetsAgree == Spec => []TreesAgree
<1>1. Inv => TreesAgree
  <2> SUFFICES ASSUME Inv, NEW k \in DOMAIN cache.sets
               PROVE  Sound(cache.sets[k].tree) /\ (k \notin nan_keys => Agrees(cache.sets[k]))
    BY DEF TreesAgree
  <2>1. IsSet(cache.sets[k], k \notin nan_keys)
    BY DEF Inv, StateOK, IsCache, AreSets
  <2> QED
    BY <2>1 DEF IsSet
<1> QED
  BY InvHolds, <1>1, PTL

\* Every reply on its way is one frame, whatever bytes the request and the
\* values of the cache consist of (resp_serializer.cpp).
THEOREM RepliesFramed == Spec => []RepliesAreFrames
<1>1. Inv => RepliesAreFrames
  <2> SUFFICES ASSUME Inv, NEW i \in DOMAIN to_client
               PROVE  IsFrame(to_client[i].bytes)
    BY DEF RepliesAreFrames, IsFrame
  <2>1. to_client[i] \in Response
    BY DEF Inv, StateOK
  <2>2. to_client[i].bytes \in Refusals \cup Results
    BY <2>1 DEF Response
  <2> QED
    BY <2>2, RefusalsAreFrames, ResultsAreFrames
<1> QED
  BY InvHolds, <1>1, PTL

\* Only the execution of a request makes the queue of replies longer.
LEMMA OnlyExecuteReplies ==
    ASSUME Inv, [Next]_vars, Len(to_client') > Len(to_client)
    PROVE  Execute
<1>1. to_client \in Seq(Response) /\ Len(to_client) \in Nat
  BY DEF Inv, StateOK
<1>2. ASSUME NEW c, NEW body, Send(c, body) PROVE Len(to_client') = Len(to_client)
  BY <1>1, <1>2, OlderResponses DEF Send, IsOlder
<1>3. ASSUME NEW rest, Took(rest), NEW left \in {"body", "piece"},
             rest \in {Tail(to_client), Begun(to_client, left)}
      PROVE  Len(to_client') \in {Len(to_client), Len(to_client) - 1}
  <2>1. to_client # <<>> /\ to_client' = rest
    BY <1>3 DEF Took
  <2>2. Len(Tail(to_client)) = Len(to_client) - 1 /\ Len(Begun(to_client, left)) = Len(to_client)
    BY <1>1, <2>1, FirstOfRest, BegunResponses DEF IsBegun
  <2> QED
    BY <1>3, <2>1, <2>2
<1>4. Receive => Len(to_client') \in {Len(to_client), Len(to_client) - 1}
  <2> SUFFICES ASSUME Receive PROVE Len(to_client') \in {Len(to_client), Len(to_client) - 1}
    OBVIOUS
  <2>1. \/ \E left \in {"body", "piece"} :
               \E rest \in {Tail(to_client), Begun(to_client, left)} : Took(rest)
        \/ to_client' = to_client
    BY DEF Receive, ReadSome, ReadHeader, ReadBody, ReadLength, ReadOn, ReadGarbage, TookOutOfStep
  <2> QED
    BY <1>3, <2>1
<1>5. Timeout \/ Tick \/ UNCHANGED vars => Len(to_client') = Len(to_client)
  BY DEF Timeout, Tick, vars
<1>6. Invoke \/ SendFrame => Len(to_client') = Len(to_client)
  BY <1>2 DEF Invoke, SendFrame
<1>7. Len(to_client') \notin {Len(to_client), Len(to_client) - 1}
  <2>1. Len(to_client') \in Nat
    BY NextInv DEF Inv, StateOK
  <2> QED
    BY <1>1, <2>1
<1> QED
  BY <1>4, <1>5, <1>6, <1>7 DEF Next

\* What the worker appends to the replies.
LEMMA RepliedWith ==
    ASSUME Inv, [Next]_vars, Len(to_client') > Len(to_client)
    PROVE  LET q == Head(to_server)
           IN  /\ to_server # <<>> /\ q \in Request
               /\ \E o \in Handle(cache, q.body) :
                      /\ cache' = o.cache /\ Last(to_client').bytes = o.reply
                      /\ IsOutcome(o, cache, nan_keys)
<1> DEFINE q == Head(to_server)
<1>1. Execute
  BY OnlyExecuteReplies
<1>2. PICK o \in Handle(cache, q.body) : Run(q, o) /\ enqueue_response(q, o)
  BY <1>1 DEF Execute
<1>3. to_server \in Seq(Request) /\ to_server # <<>> /\ IsCache(cache, nan_keys)
  BY <1>1 DEF Execute, Inv, StateOK
<1>4. q \in Request
  BY <1>3, FirstOfRest
<1>5. cache' = o.cache
  BY <1>2 DEF Run
<1>6. Last(to_client').bytes = o.reply
  <2> DEFINE r == [age |-> q.age, left |-> "frame", bytes |-> o.reply]
  <2>1. to_client' = Append(to_client, r)
    BY <1>2 DEF enqueue_response
  <2>2. r.bytes = o.reply
    OBVIOUS
  <2>3. to_client \in Seq(Response)
    BY DEF Inv, StateOK
  <2> HIDE DEF r
  <2>4. Last(to_client') = r
    BY <2>1, <2>3 DEF Last
  <2> QED
    BY <2>2, <2>4
<1> HIDE DEF q
<1>7. IsOutcome(o, cache, nan_keys)
  <2>1. q.body \in Strings
    BY <1>4 DEF Request
  <2> QED
    BY <1>2, <1>3, <2>1, HandleOutcome
<1> QED
  BY <1>2, <1>3, <1>4, <1>5, <1>6, <1>7 DEF q

\* A request that is answered by an error has changed no set, and no entry but
\* one whose event cannot be written and keys that were deleted before it, for
\* any bytes of any request (command_handler.cpp; chrono_cache.cpp:44).
THEOREM ErrorsConfined == Spec => ErrorsChangeNothingLoggable
<1> DEFINE A == Len(to_client') > Len(to_client) /\ IsError(Last(to_client').bytes) =>
                    /\ cache'.sets = cache.sets
                    /\ OnlyUnloggable(cache.entries, cache'.entries)
<1>1. Inv /\ [Next]_vars => [A]_vars
  <2> SUFFICES ASSUME Inv, [Next]_vars, Len(to_client') > Len(to_client),
                      IsError(Last(to_client').bytes)
               PROVE  cache'.sets = cache.sets /\ OnlyUnloggable(cache.entries, cache'.entries)
    OBVIOUS
  <2>1. PICK o : /\ cache' = o.cache /\ Last(to_client').bytes = o.reply
                 /\ IsOutcome(o, cache, nan_keys)
    BY RepliedWith
  <2>2. o.reply \in Refusals
    BY <2>1, ResultsAreFrames DEF IsOutcome
  <2> QED
    BY <2>1, <2>2 DEF IsOutcome
<1> QED
  BY InvHolds, <1>1, PTL DEF Spec, ErrorsChangeNothingLoggable

\* A frame that another client sends is refused when its end is missing, be it
\* but a byte of the last terminator (resp_parser.cpp:112).
THEOREM CutRequestsRefused == Spec => CutRequestsAreRefused
<1> DEFINE A == /\ Len(to_client') > Len(to_client)
                /\ \E f \in Workload[workload].frames :
                       IsStrictPrefix(Head(to_server).body, f) /\ IsComplete(f)
                => IsError(Last(to_client').bytes)
<1>1. Inv /\ [Next]_vars => [A]_vars
  <2> SUFFICES ASSUME Inv, [Next]_vars, Len(to_client') > Len(to_client),
                      NEW f \in Workload[workload].frames,
                      IsStrictPrefix(Head(to_server).body, f), IsComplete(f)
               PROVE  IsError(Last(to_client').bytes)
    OBVIOUS
  <2> DEFINE body == Head(to_server).body
  <2>1. /\ Head(to_server) \in Request
        /\ \E o \in Handle(cache, body) : Last(to_client').bytes = o.reply
    BY RepliedWith
  <2>2. body \in Strings
    BY <2>1 DEF Request
  <2>3. f \in Strings
    BY RequestsAssumption DEF Inv, StateOK
  <2> HIDE DEF body
  <2>4. IsCut(body, f) /\ Len(body) < Len(f)
    <3>1. body \in Seq(Byte) /\ f \in Seq(Byte)
      BY <2>2, <2>3 DEF Strings
    <3>2. Len(body) <= Len(f) /\ SubSeq(body, 1, Len(body)) = SubSeq(f, 1, Len(body)) /\ body # f
      BY DEF IsStrictPrefix, IsPrefix, body
    <3>3. \A i \in 1 .. Len(body) : body[i] = f[i]
      <4> TAKE i \in 1 .. Len(body)
      <4>1. /\ SubSeq(body, 1, Len(body))[i] = body[i]
            /\ SubSeq(f, 1, Len(body))[i] = f[i]
        BY <3>1, <3>2
      <4> QED
        BY <3>2, <4>1
    <3>4. Len(body) # Len(f)
      BY <3>1, <3>2, <3>3
    <3> QED
      BY <2>2, <2>3, <3>1, <3>2, <3>3, <3>4 DEF IsCut
  <2>5. parse(f, FALSE) # nullopt /\ parse(f, FALSE).num_resp_bytes = Len(f)
    BY DEF IsComplete, Once
  <2>6. parse(body, FALSE) = nullopt
    BY <2>4, <2>5, PrefixFree
  <2>7. Handle(cache, body) = Refuse(cache, "ERR invalid RESP message")
    BY <2>6 DEF Handle, Once
  <2>8. Last(to_client').bytes = error(<<"ERR invalid RESP message">>)
    <3>1. PICK o \in Handle(cache, body) : Last(to_client').bytes = o.reply
      BY <2>1
    <3>2. o = Outcome(cache, error(<<"ERR invalid RESP message">>))
      BY <2>7 DEF Refuse, Reply
    <3> QED
      BY <3>1, <3>2, OutcomeFields
  <2>9. error(<<"ERR invalid RESP message">>) \in Refusals
    BY DEF Refusals, Reasons
  <2> QED
    BY <2>8, <2>9, RefusalsAreFrames
<1> QED
  BY InvHolds, <1>1, PTL DEF Spec, CutRequestsAreRefused

\* As long as no call is given up with a reply partly read, however often calls
\* time out before, a call returns the whole answer to the request sent as many
\* calls earlier as there were timeouts (client.py:113).
THEOREM AnswersInStep == Spec => AnswersLag
<1> DEFINE A == ~torn /\ Len(to_client') < Len(to_client) =>
                    /\ phase \in {"body", "rest_of_body"}
                    /\ Head(to_client).age = timeouts
<1>1. Inv /\ [Next]_vars => [A]_vars
  <2> SUFFICES ASSUME Inv, [Next]_vars, ~torn, Len(to_client') < Len(to_client)
               PROVE  phase \in {"body", "rest_of_body"} /\ Head(to_client).age = timeouts
    OBVIOUS
  <2>1. /\ to_client \in Seq(Response) /\ Len(to_client) \in Nat /\ Len(to_server) \in Nat
        /\ timeouts \in Nat /\ InStepOK
    BY DEF Inv, StateOK
  <2>2. ReadBody
    <3>1. Len(to_client') # Len(to_client)
      BY <2>1
    <3>2. ASSUME NEW c, NEW body, Send(c, body) PROVE FALSE
      BY <2>1, <3>1, <3>2, OlderResponses DEF Send, IsOlder
    <3>3. ~Execute
      <4> SUFFICES ASSUME Execute PROVE FALSE
        OBVIOUS
      <4>1. PICK r : to_client' = Append(to_client, r)
        BY DEF Execute, enqueue_response
      <4> QED
        BY <2>1, <4>1
    <3>4. ~ReadSome /\ ~ReadHeader
      BY <2>1, <3>1, BegunResponses DEF ReadSome, ReadHeader, Took, IsBegun
    <3>5. ~ReadLength /\ ~ReadOn /\ ~ReadGarbage
      BY OutOfStep
    <3>6. ~Timeout /\ ~Tick /\ ~UNCHANGED vars
      BY <3>1 DEF Timeout, Tick, vars
    <3>7. ~Invoke /\ ~SendFrame
      BY <3>2 DEF Invoke, SendFrame
    <3> QED
      BY <3>3, <3>4, <3>5, <3>6, <3>7 DEF Next, Receive
  <2>3. phase \in {"body", "rest_of_body"} /\ to_client # <<>>
    BY <2>2 DEF ReadBody, Took
  <2>4. Head(to_client) = to_client[1] /\ 1 \in DOMAIN to_client
    BY ONLY <2>1, <2>3, FirstOfRest
  <2>5. Len(to_server) + Len(to_client) = timeouts + 1
    BY <2>1, <2>3 DEF InStepOK, Missing
  <2>6. Head(to_client).age = Len(to_server) + Len(to_client) - 1
    BY <2>1, <2>4 DEF InStepOK
  <2>7. Len(to_server) + Len(to_client) - 1 = timeouts
    BY ONLY <2>1, <2>5
  <2> QED
    BY <2>3, <2>6, <2>7
<1> QED
  BY InvHolds, <1>1, PTL DEF Spec, AnswersLag

=============================================================================
