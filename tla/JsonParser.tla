------------------------------ MODULE JsonParser ------------------------------
(***************************************************************************)
(* JsonParser.h: the recursive descent over the tokens, as a stack of what   *)
(* is left to do. A move takes at most one token, calls the observer at most *)
(* once, and replaces the top of the stack.                                *)
(*                                                                         *)
(* Where the token is taken first, next() may throw before the observer is   *)
(* called; where it is taken behind the call, it throws after it.           *)
(***************************************************************************)
EXTENDS Sequences

\* A token, and the value it has.
Token(kind) == [token |-> kind, value |-> <<>>]

ValueToken(value) == [token |-> "VALUE", value |-> value]

EndOfFile == Token("END_OF_FILE")

\* No token at all: next() throws in front of it.
Unreadable == Token("UNREADABLE")

Frames == {"element", "object", "member", "colon", "members", "array", "elements"}

ELEMENT_TOKENS == {"BEGIN_OBJECT", "BEGIN_ARRAY", "VALUE"}

Move(takes, call, frames) == [takes |-> takes, call |-> call, frames |-> frames]

\* createUnexpectedTokenException
Unexpected == Move("none", "throw", <<>>)

\* parseElement, and parseValue with it
parseElement(token) ==
    CASE token.token = "BEGIN_OBJECT" -> Move("first", "beginObject", <<"object">>)
      [] token.token = "BEGIN_ARRAY" -> Move("first", "beginArray", <<"array">>)
      [] token.token = "VALUE" -> Move("then", "visitValue", <<>>)
      [] OTHER -> Unexpected

closeObject(token) == IF token.token = "END_OBJECT" THEN Move("first", "endObject", <<>>) ELSE Unexpected

closeArray(token) == IF token.token = "END_ARRAY" THEN Move("first", "endArray", <<>>) ELSE Unexpected

\* parseObject, behind beginObject
parseObject(token) ==
    IF token.token = "VALUE" THEN Move("none", "none", <<"members", "member">>) ELSE closeObject(token)

\* parseMembers, behind a member, and the end of parseObject
parseMembers(token) ==
    IF token.token = "ITEM_SEPARATOR" THEN Move("first", "none", <<"members", "member">>) ELSE closeObject(token)

\* parseMember up to the key; "Key must be a string value!"
parseMember(token, isString) ==
    IF token.token = "VALUE" /\ isString THEN Move("then", "visitKey", <<"colon">>) ELSE Unexpected

parseKeySeparator(token) ==
    IF token.token = "KEY_SEPARATOR" THEN Move("first", "none", <<"element">>) ELSE Unexpected

\* parseArray, behind beginArray
parseArray(token) ==
    IF token.token \in ELEMENT_TOKENS THEN Move("none", "none", <<"elements", "element">>) ELSE closeArray(token)

\* parseElements, behind an element, and the end of parseArray
parseElements(token) ==
    IF token.token = "ITEM_SEPARATOR" THEN Move("first", "none", <<"elements", "element">>) ELSE closeArray(token)

\* What is on top decides what is done with the token.
MoveOn(frame, token, isString) ==
    CASE frame = "element" -> parseElement(token)
      [] frame = "object" -> parseObject(token)
      [] frame = "member" -> parseMember(token, isString)
      [] frame = "colon" -> parseKeySeparator(token)
      [] frame = "members" -> parseMembers(token)
      [] frame = "array" -> parseArray(token)
      [] frame = "elements" -> parseElements(token)
=============================================================================
