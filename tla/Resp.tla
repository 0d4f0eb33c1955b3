--------------------------------- MODULE Resp ---------------------------------
(***************************************************************************)
(* The wire format: the C++ parser and serializer (server/request_handler/ *)
(* resp_parser.cpp, resp_value.cpp, resp_serializer.cpp, utils.cpp) and    *)
(* the Python ones of the client, as operators on sequences of bytes.      *)
(*                                                                         *)
(* A byte is a symbol: the type bytes, CR, LF and the digits stand for     *)
(* themselves, and a whole word of text (a command name, a key, a score)   *)
(* counts as one byte.  What a word is made of matters only for characters *)
(* that UTF-8 encodes in two bytes: e1 e2 is one character when decoded.   *)
(***************************************************************************)
EXTENDS Integers, Sequences, SequencesExt

CONSTANT IntMax  \* INT_MAX: one less than a power of two; small, so that lengths overflow

\* F(x), for an x that TLC had better compute only once.
Once(x, F(_)) == CHOOSE y \in {F(v) : v \in {x}} : TRUE

CRLF == <<"CR", "LF">>
Digits == <<"0", "1", "2", "3", "4", "5", "6", "7", "8", "9">>
IsDigit(b) == \E i \in DOMAIN Digits : Digits[i] = b
DigitValue(b) == (CHOOSE i \in DOMAIN Digits : Digits[i] = b) - 1

\* std::to_string of an integer.
Numeral[n \in Nat] ==
    IF n < 10 THEN <<Digits[n + 1]>> ELSE Append(Numeral[n \div 10], Digits[(n % 10) + 1])
to_string(n) == IF n < 0 THEN <<"-">> \o Numeral[-n] ELSE Numeral[n]

-----------------------------------------------------------------------------
(* Serializers.  RespSerializer::ok is simple_string of OK; its array and   *)
(* Python's serialize_to_bulk_string are the same function of the tokens.   *)

simple_string(s) == <<"+">> \o s \o CRLF
error(msg) == <<"-">> \o msg \o CRLF
integer(n) == <<":">> \o to_string(n) \o CRLF
bulk_string(s) == <<"$">> \o to_string(Len(s)) \o CRLF \o s \o CRLF
null_bulk == <<"$", "-", "1">> \o CRLF

serialize_to_bulk_string(tokens) ==
    LET first[i \in Nat] ==  \* what is written after i tokens
            IF i = 0 THEN <<"*">> \o to_string(Len(tokens)) \o CRLF
            ELSE first[i - 1] \o bulk_string(tokens[i])
    IN  first[Len(tokens)]

-----------------------------------------------------------------------------
(* Parsers. *)

nullopt == [type |-> "nullopt"]
NoLength == -1  \* kUnsetRespBytes, None

RespValue(type, str, int, array, is_null, length) ==
    [type |-> type, str_value |-> str, int_value |-> int, array |-> array,
     is_null |-> is_null, num_resp_bytes |-> length]
Text(type, str, length) == RespValue(type, str, 0, <<>>, FALSE, length)
ArrayOf(array, length) == RespValue("Array", <<>>, 0, array, FALSE, length)
Null(type, length) == RespValue(type, <<>>, 0, <<>>, TRUE, length)
Invalid == Text("Error", <<"ERR invalid format">>, NoLength)

\* The position of the first CR LF, 0 for none.
find_crlf(buf) ==
    Once({i \in 1 .. Len(buf) - 1 : buf[i] = "CR" /\ buf[i + 1] = "LF"},
         LAMBDA found : IF found = {} THEN 0 ELSE Min(found))

\* Two's complement, as signed arithmetic wraps on the targets of the build.
Wrap(n) == ((n + IntMax + 1) % (2 * (IntMax + 1))) - (IntMax + 1)

HasSign(s) == s # <<>> /\ Head(s) \in {"-", "+"}
Unsigned(s) == IF HasSign(s) THEN Tail(s) ELSE s
IsNumber(s) == Unsigned(s) # <<>> /\ \A i \in DOMAIN Unsigned(s) : IsDigit(Unsigned(s)[i])

\* The number a text stands for: Python's int() of it.
Magnitude(s) ==
    LET first[i \in Nat] == IF i = 0 THEN 0 ELSE first[i - 1] * 10 + DigitValue(s[i])
    IN  first[Len(s)]
Number(s) ==
    IF HasSign(s) /\ Head(s) = "-" THEN -Magnitude(Tail(s)) ELSE Magnitude(Unsigned(s))

\* parse_string_as_int accumulates in an int; Python's integers do not overflow.
parse_string_as_int(s, python) == IF python THEN Number(s) ELSE Wrap(Number(s))

\* The text between the type byte and the first CR LF, and where that ends.
Line(buf) == SubSeq(buf, 2, find_crlf(buf) - 1)
LineEnd(buf) == find_crlf(buf) + 1

parse_line(buf, type) ==
    IF find_crlf(buf) = 0 THEN nullopt ELSE Text(type, Line(buf), LineEnd(buf))

\* What follows from the number on the line, if it is one.
WithNumber(buf, python, Rest(_)) ==
    IF find_crlf(buf) = 0 THEN nullopt
    ELSE Once(Line(buf), LAMBDA line :
             IF IsNumber(line) THEN Once(parse_string_as_int(line, python), Rest) ELSE Invalid)

parse_integer(buf, python) ==
    WithNumber(buf, python,
        LAMBDA n : RespValue("Integer", <<>>, n, <<>>, FALSE, LineEnd(buf)))

\* A length: -1 stands for null.
WithLength(buf, python, type, Rest(_)) ==
    WithNumber(buf, python,
        LAMBDA n : IF n = -1 THEN Null(type, LineEnd(buf)) ELSE IF n < -1 THEN Invalid ELSE Rest(n))

\* A payload taken as it comes, without its terminator.
Payload(buf, end) ==
    IF Len(buf) < end THEN nullopt
    ELSE Text("BulkString", SubSeq(buf, LineEnd(buf) + 1, end), end + 2)

parse_bulk_unterminated(buf, python) ==
    WithLength(buf, python, "BulkString", LAMBDA length : Payload(buf, LineEnd(buf) + length))

Terminated(buf, end) ==
    IF Len(buf) < end + 2 THEN nullopt
    ELSE IF SubSeq(buf, end + 1, end + 2) # CRLF THEN Invalid
    ELSE Payload(buf, end)

parse_bulk_string(buf, python) ==
    WithLength(buf, python, "BulkString", LAMBDA length : Terminated(buf, LineEnd(buf) + length))

\* The elements of an array, one after the other from start, each parsed by At:
\* what is known after the first i of them.
AddElement(v, next) ==
    IF next = nullopt THEN nullopt
    ELSE IF next.num_resp_bytes = NoLength THEN Invalid
    ELSE ArrayOf(Append(v.array, next), v.num_resp_bytes + next.num_resp_bytes)

Elements(At, start, n) ==
    LET first[i \in Nat] ==
            IF i = 0 THEN ArrayOf(<<>>, start)
            ELSE Once(first[i - 1],
                      LAMBDA v : IF v = nullopt \/ v = Invalid THEN v
                                 ELSE Once(At[v.num_resp_bytes], LAMBDA next : AddElement(v, next)))
    IN  first[n]

parse_array(buf, python, At) ==
    WithLength(buf, python, "Array", LAMBDA n : Elements(At, LineEnd(buf), n))

\* By its type byte; what is inside is parsed by At.
parse_value(buf, python, At) ==
    IF buf = <<>> THEN nullopt
    ELSE IF Head(buf) = "+" THEN parse_line(buf, "SimpleString")
    ELSE IF Head(buf) = "-" THEN parse_line(buf, "Error")
    ELSE IF Head(buf) = ":" THEN parse_integer(buf, python)
    ELSE IF Head(buf) = "$" THEN parse_bulk_string(buf, python)
    ELSE IF Head(buf) = "*" THEN parse_array(buf, python, At)
    ELSE Invalid

\* What follows the first pos bytes.
From(buf, pos) == SubSeq(buf, pos + 1, Len(buf))

\* RespParser::parse and, where python is TRUE, parse of resp_parser.py after
\* decoding.  parser[n][pos] parses buf from pos, down to n levels of arrays;
\* every level takes a byte of its own.
parse(buf, python) ==
    LET parser[n \in Nat] ==
            [pos \in Nat |->
                IF n = 0 THEN nullopt
                ELSE Once(From(buf, pos), LAMBDA rest :
                         parse_value(rest, python, [i \in Nat |-> parser[n - 1][pos + i]]))]
    IN  parser[Len(buf) + 1][0]

-----------------------------------------------------------------------------
(* Text.  A character outside ASCII is "e", and two bytes when encoded. *)

encode(text) ==
    FoldLeft(LAMBDA bytes, c : bytes \o (IF c = "e" THEN <<"e1", "e2">> ELSE <<c>>), <<>>, text)

\* bytes.decode() raises on a character that is cut.
Decodes(bytes) ==
    /\ \A i \in DOMAIN bytes : bytes[i] = "e1" => i < Len(bytes) /\ bytes[i + 1] = "e2"
    /\ \A i \in DOMAIN bytes : bytes[i] = "e2" => i > 1 /\ bytes[i - 1] = "e1"

decode(bytes) ==
    FoldLeft(LAMBDA text, b : CASE b = "e1" -> text
                                [] b = "e2" -> Append(text, "e")
                                [] OTHER -> Append(text, b), <<>>, bytes)
=============================================================================
