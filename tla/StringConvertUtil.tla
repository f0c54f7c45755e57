--------------------------- MODULE StringConvertUtil ---------------------------
(* StringConvertUtil.h: numbers as text. A text is a sequence of characters.  *)
(* A float is given in ten-thousandths; that it is rounded to its mantissa is  *)
(* left out. Its integer part is taken in the type Int64, of any width here.   *)
EXTENDS Integers, Sequences

CONSTANTS
    IntegerTypes,   \* records [bits, signed]
    Arguments(_),   \* the integers of a type
    Int64,
    Floats,
    BufferSize      \* the array that a number is written to, with its terminator

VARIABLES
    argument,   \* of the last conversion
    converted   \* its result

textVars == <<argument, converted>>

\* The scale of the floats.
One == 10000

Float(n) == [isNaN |-> FALSE, value |-> n]

NaN == [isNaN |-> TRUE, value |-> 0]

Least(t) == IF t.signed THEN -(2 ^ (t.bits - 1)) ELSE 0

Greatest(t) == IF t.signed THEN 2 ^ (t.bits - 1) - 1 ELSE 2 ^ t.bits - 1

\* The conversion to a signed type, which keeps the low bits.
Wrapped(t, n) == ((n - Least(t)) % (2 ^ t.bits)) + Least(t)

\* Division that rounds to zero, and the remainder that goes with it.
Quotient(n, d) == IF n < 0 THEN -((0 - n) \div d) ELSE n \div d

Remainder(n, d) == n - d * Quotient(n, d)

-----------------------------------------------------------------------------
DIGITS_1 == <<"0", "1", "2", "3", "4", "5", "6", "7", "8", "9">>

Digit(n) == <<DIGITS_1[n + 1]>>

DIGITS_100_10(n) == Digit(n \div 10) \o Digit(n % 10)

\* What is written to the end of the buffer, two digits at a time.
Digits(value) ==
    LET digits[v \in 0..value] ==
            CASE v >= 100 -> digits[v \div 100] \o DIGITS_100_10(v % 100)
              [] v < 10 -> Digit(v)
              [] OTHER -> DIGITS_100_10(v)
    IN  digits[value]

\* Mutant of AbsValue: only converted to the unsigned type.
AbsValueNotNegated(t, value) == value % (2 ^ t.bits)

\* The absolute value in the unsigned type of the same width, in which there is one of the least
\* number, too.
AbsValue(t, value) == IF value < 0 THEN (0 - (value % (2 ^ t.bits))) % (2 ^ t.bits) ELSE value

convertIntToString(t, value) == (IF value < 0 THEN <<"-">> ELSE <<>>) \o Digits(AbsValue(t, value))

\* Without a floating part the pointer to it is null.
NullText == <<"null">>

FloatText(integerPart, floatingPart) == [integer |-> integerPart, floating |-> floatingPart]

Parts(integerPart, floatingPart) ==
    LET floatingPartAbs == IF floatingPart < 0 THEN Wrapped(Int64, -floatingPart) ELSE floatingPart
    IN  FloatText(convertIntToString(Int64, integerPart), convertIntToString(Int64, floatingPartAbs))

\* What the processors make of a number that is none: the least integer, the greatest, or zero.
Undefined == {Least(Int64), 0, Greatest(Int64)}

\* The results there may be.
convertFloatToString(x) ==
    CASE x.isNaN -> {Parts(i, f) : i \in Undefined, f \in Undefined}
      [] x.value >= (Greatest(Int64) + 1) * One -> {FloatText(<<"+Inf">>, NullText)}
      [] x.value <= Least(Int64) * One -> {FloatText(<<"-Inf">>, NullText)}
      [] OTHER -> {Parts(Quotient(x.value, One), Quotient(Remainder(x.value, One), One \div 1000))}

-----------------------------------------------------------------------------
Nothing == [kind |-> "none"]

InitText == argument = Nothing /\ converted = Nothing

ConvertInt ==
    \E t \in IntegerTypes : \E n \in Arguments(t) :
        /\ argument' = [kind |-> "integer", type |-> t, value |-> n]
        /\ converted' = [kind |-> "integer", text |-> convertIntToString(t, n)]

ConvertFloat ==
    \E x \in Floats : \E text \in convertFloatToString(x) :
        /\ argument' = [kind |-> "float", value |-> x]
        /\ converted' = [kind |-> "float", text |-> text]

NextText == ConvertInt \/ ConvertFloat

-----------------------------------------------------------------------------
(* The number that a text stands for.                                      *)

IsDigits(text) == text # <<>> /\ \A i \in DOMAIN text : \E n \in 0..9 : text[i] = DIGITS_1[n + 1]

NaturalOf(text) ==
    LET upTo[i \in 0..Len(text)] ==
            IF i = 0 THEN 0 ELSE 10 * upTo[i - 1] + CHOOSE n \in 0..9 : text[i] = DIGITS_1[n + 1]
    IN  upTo[Len(text)]

HasSign(text) == Head(text) = "-"

Unsigned(text) == IF HasSign(text) THEN Tail(text) ELSE text

SignOf(text) == IF HasSign(text) THEN -1 ELSE 1

\* A decimal number: no zero in front of another digit, and no sign in front of a zero.
IsDecimal(text) ==
    /\ IsDigits(Unsigned(text))
    /\ Head(Unsigned(text)) = "0" => text = <<"0">>

IntegerOf(text) == SignOf(text) * NaturalOf(Unsigned(text))

\* In thousandths, when the digits behind the point are up to three.
ThousandthsOf(text) ==
    1000 * IntegerOf(text.integer)
        + SignOf(text.integer) * NaturalOf(text.floating) * 10 ^ (3 - Len(text.floating))

\* An integer is written as the decimal number that it is, the least one of its type too, and fits into
\* the buffer. A float is one with three digits behind the point, cut off, but for two kinds: the
\* sign is lost of what is above -1, and so are the zeros right behind the point.
TextsAgree ==
    /\ argument.kind = "integer" =>
        /\ IsDecimal(converted.text) /\ IntegerOf(converted.text) = argument.value
        /\ Len(converted.text) < BufferSize
    /\ argument.kind = "float" /\ ~argument.value.isNaN /\ converted.text.floating # NullText =>
        LET thousandths == Quotient(argument.value.value, 10)
            losesSign == thousandths \in -999..-1
            losesZeros == Remainder(thousandths, 1000) \in (-99..99) \ {0}
        IN  ThousandthsOf(converted.text) = thousandths <=> ~losesSign /\ ~losesZeros
=============================================================================
