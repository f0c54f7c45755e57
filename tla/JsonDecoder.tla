----------------------------- MODULE JsonDecoder -----------------------------
(***************************************************************************)
(* JsonDecoder.h and JsonEncoder.cpp: the values of JSON as texts. A text is *)
(* a string, taken as the sequence of its characters.                       *)
(*                                                                         *)
(* A decoder result has the number of characters read and a value, NoValue   *)
(* on failure. The input may be cut anywhere: a result that has read all of   *)
(* it may still change when there is more.                                   *)
(***************************************************************************)
EXTENDS Integers, Sequences

CONSTANT
    MaxInteger  \* the greatest unsigned integer; the least signed one is its negation

\* The character at i, no character beyond the text.
CharAt(text, i) == IF i \in 1..Len(text) THEN SubSeq(text, i, i) ELSE ""

From(text, i) == SubSeq(text, i, Len(text))

NoValue == [type |-> "none"]

NullValue == [type |-> "null"]

BoolValue(b) == [type |-> "bool", bool |-> b]

IntValue(n) == [type |-> "int64", num |-> n]

UIntValue(n) == [type |-> "uint64", num |-> n]

DoubleValue(text) == [type |-> "double", text |-> text]

CharValue(c) == [type |-> "char", char |-> c]

StringValue(s) == [type |-> "string", str |-> s]

Result(read, value) == [read |-> read, value |-> value]

Failure(read) == Result(read, NoValue)
-----------------------------------------------------------------------------
(* Characters. The control characters that TLA+ has no escape for have a     *)
(* stand-in.                                                               *)

Backspace == "~"

FormFeed == "\f"

Unit == "^"    \* a control character without an escape of its own, 31

Code == [c \in {Backspace, FormFeed, Unit, "A", " "} |->
            CASE c = Backspace -> 8 [] c = FormFeed -> 12 [] c = Unit -> 31 [] c = "A" -> 65 [] OTHER -> 32]

CharOf(code) == IF \E c \in DOMAIN Code : Code[c] = code THEN CHOOSE c \in DOMAIN Code : Code[c] = code ELSE "?"

HexDigits == "0123456789abcdef"

Digits10 == {"0", "1", "2", "3", "4", "5", "6", "7", "8", "9"}

PositionIn(text, c) == CHOOSE i \in 1..Len(text) : CharAt(text, i) = c

IsIn(text, c) == \E i \in 1..Len(text) : CharAt(text, i) = c

\* -1 for what is no hexadecimal digit.
decodeHex(c) ==
    CASE IsIn(HexDigits, c) -> PositionIn(HexDigits, c) - 1
      [] IsIn("ABCDEF", c) -> PositionIn("ABCDEF", c) + 9
      [] OTHER -> -1
-----------------------------------------------------------------------------
(* Decoding.                                                               *)

\* A literal that is cut has read all of the input; one that differs is read up to the difference.
decodeLiteral(input, literal, value) ==
    LET shorter == IF Len(input) < Len(literal) THEN Len(input) ELSE Len(literal)
        differs == {i \in 1..shorter : CharAt(input, i) # CharAt(literal, i)}
    IN  CASE differs # {} -> Failure(CHOOSE i \in differs : \A j \in differs : i <= j)
          [] differs = {} /\ Len(input) < Len(literal) -> Failure(Len(input))
          [] OTHER -> Result(Len(literal), value)

Escapes == [c \in {"\\", "\"", "b", "f", "n", "r", "t"} |->
               CASE c = "b" -> Backspace [] c = "f" -> FormFeed [] c = "n" -> "\n" [] c = "r" -> "\r"
                 [] c = "t" -> "\t" [] OTHER -> c]

\* \u00XY from the first of the four digits at i on: how many are read, the character and whether
\* it is one.
decodeUnicodeEscape(input, i) ==
    LET good(k) == /\ i + k <= Len(input)
                   /\ IF k < 2 THEN CharAt(input, i + k) = "0" ELSE decodeHex(CharAt(input, i + k)) >= 0
        bad == {k \in 0..3 : ~good(k)}
        first == CHOOSE k \in bad : \A j \in bad : k <= j
    IN  IF bad = {}
        THEN [read |-> 4, ok |-> TRUE,
              char |-> CharOf(16 * decodeHex(CharAt(input, i + 2)) + decodeHex(CharAt(input, i + 3)))]
        ELSE [read |-> IF i + first <= Len(input) THEN first + 1 ELSE first, ok |-> FALSE, char |-> ""]

\* The characters up to the closing quote. A bad escape ends it, and so does the end of the input.
decodeString(input) ==
    LET n == Len(input)
        scan[i \in 2..(n + 1)] ==
            LET c == CharAt(input, i)
                escape == CharAt(input, i + 1)
                unicode == decodeUnicodeEscape(input, i + 2)
                rest(k, s) == IF scan[k].value = NoValue THEN scan[k]
                              ELSE Result(scan[k].read, StringValue(s \o scan[k].value.str))
            IN  CASE i = n + 1 -> Failure(n)
                  [] i <= n /\ c = "\"" -> Result(i, StringValue(""))
                  [] i <= n /\ c \notin {"\"", "\\"} -> rest(i + 1, c)
                  [] i <= n /\ c = "\\" ->
                        CASE i = n -> Failure(n)
                          [] i < n /\ escape \in DOMAIN Escapes -> rest(i + 2, Escapes[escape])
                          [] i < n /\ escape = "u" ->
                                IF unicode.ok THEN rest(i + 6, unicode.char) ELSE Failure(i + 1 + unicode.read)
                          [] OTHER -> Failure(i + 1)
    IN  scan[2]

\* The longest text that looks like a number: its length, and what kind of number it is. A sign
\* is accepted in front and behind the first e, one point is accepted, but not behind an e.
checkNumber(input) ==
    LET signed == CharAt(input, 1) = "-"
        scan[i \in 1..(Len(input) + 1), double \in BOOLEAN, exponent \in BOOLEAN, sign \in BOOLEAN] ==
            LET c == CharAt(input, i)
            IN  CASE i > Len(input) -> [len |-> i - 1, double |-> double]
                  [] i <= Len(input) /\ sign /\ c \in {"+", "-"} -> scan[i + 1, double, exponent, FALSE]
                  [] i <= Len(input) /\ c \in Digits10 -> scan[i + 1, double, exponent, FALSE]
                  [] i <= Len(input) /\ c \in {"e", "E"} /\ ~exponent -> scan[i + 1, TRUE, TRUE, TRUE]
                  [] i <= Len(input) /\ c = "." /\ ~double -> scan[i + 1, TRUE, exponent, FALSE]
                  [] OTHER -> [len |-> i - 1, double |-> double]
        found == scan[IF signed THEN 2 ELSE 1, FALSE, FALSE, FALSE]
    IN  [len |-> IF signed /\ found.len = 1 THEN 0 ELSE found.len,
         double |-> found.double, signed |-> signed]

\* The number the digits of a text stand for; what is greater than the greatest one is cut there.
Number(digits) ==
    LET upTo[i \in 0..Len(digits)] ==
            IF i = 0 THEN 0
            ELSE LET n == 10 * upTo[i - 1] + PositionIn(HexDigits, CharAt(digits, i)) - 1
                 IN  IF n > MaxInteger THEN MaxInteger + 1 ELSE n
    IN  upTo[Len(digits)]

\* strtoll and strtoull; on overflow there is no value.
decodeSigned(text) ==
    LET n == Number(From(text, 2))
    IN  Result(Len(text), IF n > MaxInteger THEN NoValue ELSE IntValue(-n))

decodeUnsigned(text) ==
    LET n == Number(text)
    IN  Result(Len(text), IF n > MaxInteger THEN NoValue ELSE UIntValue(n))

\* How much strtod reads: a mantissa with a digit, and an exponent only when it has a digit.
StrtodLength(text) ==
    LET digit(i) == CharAt(text, i) \in Digits10
        start == IF CharAt(text, 1) = "-" THEN 2 ELSE 1
        marks == {i \in 1..Len(text) : CharAt(text, i) \in {"e", "E"}}
        mark == IF marks = {} THEN Len(text) + 1 ELSE CHOOSE i \in marks : TRUE
    IN  CASE ~\E i \in start..(mark - 1) : digit(i) -> 0
          [] (\E i \in start..(mark - 1) : digit(i)) /\ \E i \in (mark + 1)..Len(text) : digit(i) -> Len(text)
          [] OTHER -> mark - 1

\* strtod has to read all of it.
decodeDouble(text) ==
    IF StrtodLength(text) # Len(text) THEN Failure(Len(text)) ELSE Result(Len(text), DoubleValue(text))

decodeNumber(input) ==
    LET number == checkNumber(input)
        text == SubSeq(input, 1, number.len)
    IN  CASE number.len = 0 -> Failure(1)
          [] number.len > 0 /\ number.double -> decodeDouble(text)
          [] number.len > 0 /\ ~number.double /\ number.signed -> decodeSigned(text)
          [] OTHER -> decodeUnsigned(text)

decodeValue(input) ==
    CASE input = "" -> Failure(0)
      [] CharAt(input, 1) = "n" -> decodeLiteral(input, "null", NullValue)
      [] CharAt(input, 1) = "t" -> decodeLiteral(input, "true", BoolValue(TRUE))
      [] CharAt(input, 1) = "f" -> decodeLiteral(input, "false", BoolValue(FALSE))
      [] CharAt(input, 1) = "N" -> decodeLiteral(input, "NaN", DoubleValue("NaN"))
      [] CharAt(input, 1) = "I" -> decodeLiteral(input, "Infinity", DoubleValue("Infinity"))
      [] CharAt(input, 1) = "\"" -> decodeString(input)
      [] CharAt(input, 1) = "-" /\ CharAt(input, 2) = "I" -> decodeLiteral(input, "-Infinity", DoubleValue("-Infinity"))
      [] OTHER -> decodeNumber(input)
-----------------------------------------------------------------------------
(* Encoding.                                                               *)

encodeNull == "null"

encodeBool(b) == IF b THEN "true" ELSE "false"

\* A double by its class: printf leaves digits with a point, or with an exponent.
encodeFloatingPoint(class) ==
    CASE class \in {"NaN", "Infinity", "-Infinity"} -> class
      [] class = "integral" -> "1.0"
      [] class = "great" -> "1e+16"
      [] class = "fraction" -> "-0.5"

encodeChar(c) ==
    CASE c \in {"\\", "\""} -> "\\" \o c
      [] c = Backspace -> "\\b"
      [] c = FormFeed -> "\\f"
      [] c = "\n" -> "\\n"
      [] c = "\r" -> "\\r"
      [] c = "\t" -> "\\t"
      [] c \in DOMAIN Code /\ Code[c] <= 31 /\ c \notin {Backspace, FormFeed} ->
            "\\u00" \o CharAt(HexDigits, (Code[c] \div 16) + 1) \o CharAt(HexDigits, (Code[c] % 16) + 1)
      [] OTHER -> c

encodeString(s) ==
    LET upTo[i \in 0..Len(s)] == IF i = 0 THEN "" ELSE upTo[i - 1] \o encodeChar(CharAt(s, i))
    IN  "\"" \o upTo[Len(s)] \o "\""
=============================================================================
