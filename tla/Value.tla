--------------------------------- MODULE Value ---------------------------------
(***************************************************************************)
(* FixEncode and FixDecode of src/value.rs for the types of the generated  *)
(* fields: the tokens a value is written as, and the value, or Invalid,    *)
(* that tokens are read as.  A char is its code point, up to two bytes of  *)
(* UTF-8; an Amount is a rust_decimal::Decimal, with its scale; a time     *)
(* carries three groups of three digits after the second.                  *)
(***************************************************************************)
EXTENDS FieldMap

CONSTANT Half       \* 2^63 in the code: an i64 is at least -Half, below Half

Invalid == [ok |-> FALSE]
Valued(v) == [ok |-> TRUE, v |-> v]

MINUS == 45
DOT == 46

--------------------------------------------------------------------------------
encode_char(c) == IF c < 128 THEN <<c>> ELSE <<192 + (c \div 64), 128 + (c % 64)>>

encode_str(s) == FlattenSeq([i \in DOMAIN s |-> encode_char(s[i])])

encode_bool(b) == IF b THEN <<89>> ELSE <<78>>

\* An integer of any type is written as the i64 it is cast to.
as_i64(v) == IF v < Half THEN v ELSE v - 2 * Half
encode_int(v) == IF as_i64(v) < 0 THEN <<MINUS, NumToken(-as_i64(v))>> ELSE <<NumToken(as_i64(v))>>

\* The digits before and after the point.
encode_Decimal(a) == (IF a.negative THEN <<MINUS>> ELSE <<>>) \o a.whole
                     \o (IF a.scale = <<>> THEN <<>> ELSE <<DOT>> \o a.scale)

encode_FixDate(d) == <<NumToken(10000 * d[1] + 100 * d[2] + d[3])>>

\* The precision is the number of groups after the point that are written.
encode_UtcTimestamp(t) ==
    encode_FixDate(t.date) \o <<MINUS, NumToken(t.second)>>
    \o (IF t.precision = 0 THEN <<>>
        ELSE <<DOT>> \o [i \in 1 .. t.precision |-> NumToken(t.fraction[i])])

Encode(type, v) ==
    CASE type = "String" -> encode_str(v)
      [] type = "i64" -> encode_int(v)
      [] type = "char" -> encode_char(v)
      [] type = "bool" -> encode_bool(v)
      [] type = "Amount" -> encode_Decimal(v)
      [] type = "FixDate" -> encode_FixDate(v)
      [] type = "UtcTimestamp" -> encode_UtcTimestamp(v)
      [] type = "Vec" -> v

--------------------------------------------------------------------------------
Leads(b) == b \in 194 .. 223
Continues(b) == b \in 128 .. 191

from_utf8_ok(bytes) ==
    \A i \in DOMAIN bytes :
        /\ bytes[i] \notin {192, 193} \cup 224 .. 255
        /\ Leads(bytes[i]) => i < Len(bytes) /\ Continues(bytes[i + 1])
        /\ Continues(bytes[i]) => i > 1 /\ Leads(bytes[i - 1])

\* The characters: one at every byte that does not continue another.
chars(bytes) ==
    LET starts == Sorted({i \in DOMAIN bytes : ~Continues(bytes[i])}, <)
        char(i) == IF Leads(bytes[i]) THEN 64 * (bytes[i] - 192) + bytes[i + 1] - 128 ELSE bytes[i]
    IN  [k \in DOMAIN starts |-> char(starts[k])]

decode_String(bytes) == IF from_utf8_ok(bytes) THEN Valued(chars(bytes)) ELSE Invalid

decode_char(bytes) ==
    IF from_utf8_ok(bytes) /\ Len(chars(bytes)) = 1 THEN Valued(chars(bytes)[1]) ELSE Invalid

decode_bool(bytes) ==
    IF bytes = <<89>> THEN Valued(TRUE) ELSE IF bytes = <<78>> THEN Valued(FALSE) ELSE Invalid

\* str::parse::<i64>, which checks the range.
decode_i64(bytes) ==
    LET n == IF bytes # <<>> /\ bytes[1] = MINUS
             THEN [known |-> Number(Tail(bytes)) # None, v |-> -Number(Tail(bytes))]
             ELSE [known |-> Number(bytes) # None, v |-> Number(bytes)]
    IN  IF n.known /\ n.v \in -Half .. Half - 1 THEN Valued(n.v) ELSE Invalid

decode_Decimal(bytes) ==
    LET negative == bytes # <<>> /\ bytes[1] = MINUS
        digits == IF negative THEN Tail(bytes) ELSE bytes
        points == {i \in DOMAIN digits : digits[i] = DOT}
        point == IF points = {} THEN Len(digits) + 1 ELSE CHOOSE i \in points : TRUE
    IN  IF /\ Len(digits) > 0
           /\ \A i \in DOMAIN digits : digits[i] \in 48 .. 57 \/ points = {i}
        THEN Valued([negative |-> negative, whole |-> SubSeq(digits, 1, point - 1),
                     scale |-> SubSeq(digits, point + 1, Len(digits))])
        ELSE Invalid

DaysIn(year, month) ==
    CASE month = 2 -> IF year % 4 = 0 /\ (year % 100 # 0 \/ year % 400 = 0) THEN 29 ELSE 28
      [] month \in {4, 6, 9, 11} -> 30
      [] OTHER -> 31

decode_FixDate(bytes) ==
    LET n == Number(bytes)
        date == <<n \div 10000, (n \div 100) % 100, n % 100>>
    IN  IF n # None /\ date[2] \in 1 .. 12 /\ date[3] \in 1 .. DaysIn(date[1], date[2])
        THEN Valued(date) ELSE Invalid

\* The lengths 17, 21, 24 and 27 are those of 3, 5, 6 and 7 tokens; what was
\* not written is zero.
decode_UtcTimestamp(bytes) ==
    LET precision == CASE Len(bytes) = 3 -> 0 [] Len(bytes) \in 5 .. 7 -> Len(bytes) - 4
        date == decode_FixDate(<<bytes[1]>>)
    IN  IF /\ Len(bytes) \in {3} \cup 5 .. 7
           /\ date.ok
           /\ bytes[2] = MINUS
           /\ Number(<<bytes[3]>>) \in 0 .. 86399
           /\ Len(bytes) > 3 => bytes[4] = DOT
        THEN Valued([date |-> date.v, second |-> Number(<<bytes[3]>>), precision |-> precision,
                     fraction |-> [i \in 1 .. 3 |->
                                     IF i <= precision THEN Number(<<bytes[4 + i]>>) ELSE 0]])
        ELSE Invalid

Decode(type, bytes) ==
    CASE type = "String" -> decode_String(bytes)
      [] type = "i64" -> decode_i64(bytes)
      [] type = "char" -> decode_char(bytes)
      [] type = "bool" -> decode_bool(bytes)
      [] type = "Amount" -> decode_Decimal(bytes)
      [] type = "FixDate" -> decode_FixDate(bytes)
      [] type = "UtcTimestamp" -> decode_UtcTimestamp(bytes)
      [] type = "Vec" -> Valued(bytes)
================================================================================
