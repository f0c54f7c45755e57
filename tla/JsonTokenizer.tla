---------------------------- MODULE JsonTokenizer ----------------------------
(***************************************************************************)
(* JsonTokenizer.h: the text of a stream is read in chunks and cut into      *)
(* tokens. A chunk may end anywhere: within a value, between '\r' and '\n',    *)
(* in front of the first token.                                            *)
(*                                                                         *)
(* A text is given as a sequence of lexemes, what the tokens should be. The  *)
(* tokenizer sees its characters only. next() is called until it returns the *)
(* end of the file or throws; a step is one round of its loop.              *)
(***************************************************************************)
EXTENDS JsonDecoder, FiniteSets

CONSTANTS
    Texts,          \* sequences of lexemes [text, token, value]
    BufferSizes     \* BUFFER_SIZE

ASSUME BufferAssumption == BufferSizes \subseteq Nat \ {0}

VARIABLES
    lexemes,        \* the text
    bufferSize,
    rest,           \* what m_in has not delivered
    tokenizer,      \* the members of the tokenizer
    tokens,         \* what next() has returned, with the position and the value of each
    failed          \* the position next() has named in its exception, NoPosition without one

tokenizerVars == <<lexemes, bufferSize, rest, tokenizer, tokens, failed>>

Punctuation ==
    [c \in {"{", "}", "[", "]", ":", ","} |->
        CASE c = "{" -> "BEGIN_OBJECT" [] c = "}" -> "END_OBJECT" [] c = "[" -> "BEGIN_ARRAY"
          [] c = "]" -> "END_ARRAY" [] c = ":" -> "KEY_SEPARATOR" [] c = "," -> "ITEM_SEPARATOR"]

JsonToken == {"BEGIN_OF_FILE", "END_OF_FILE", "VALUE"} \union {Punctuation[c] : c \in DOMAIN Punctuation}

NoPosition == <<0, 0>>

TextOf(sequence) ==
    LET upTo[i \in 0..Len(sequence)] == IF i = 0 THEN "" ELSE upTo[i - 1] \o sequence[i].text
    IN  upTo[Len(sequence)]

\* readContent(): the next chunk, and what is left of the stream.
Chunk(stream) == IF Len(stream) <= bufferSize THEN stream ELSE SubSeq(stream, 1, bufferSize)

Behind(stream) == From(stream, Len(Chunk(stream)) + 1)

setPosition(t, newPos, newColumn) == [t EXCEPT !.pos = newPos, !.column = newColumn]

setToken(t, token, value) == [t EXCEPT !.token = token, !.value = value]

\* A '\r' at the end of the chunk is left for the next one: a '\n' may follow.
skipWhitespaces(t) ==
    LET c == CharAt(t.content, t.pos + 1)
        crlf == c = "\r" /\ CharAt(t.content, t.pos + 2) = "\n"
        skip[i \in 0..Len(t.content), line \in Nat, column \in Nat] ==
            LET d == CharAt(t.content, i + 1)
                both == CharAt(t.content, i + 2) = "\n"
                at == [t EXCEPT !.pos = i, !.line = line, !.column = column]
            IN  CASE d = "" \/ (d = "\r" /\ i + 1 >= Len(t.content)) ->
                        [found |-> FALSE, t |-> setToken(at, "END_OF_FILE", NoValue)]
                  [] d \in {" ", "\t"} -> skip[i + 1, line, column + 1]
                  [] d = "\n" -> skip[i + 1, line + 1, 1]
                  [] d = "\r" /\ i + 1 < Len(t.content) -> skip[i + (IF both THEN 2 ELSE 1), line + 1, 1]
                  [] OTHER -> [found |-> TRUE, t |-> at]
    IN  skip[t.pos, t.line, t.column]

\* Whether setTokenValue throws.
HasNoValue(t) == t.decoded.value = NoValue

setTokenValue(t) ==
    setPosition(setToken(t, "VALUE", t.decoded.value), t.pos + t.decoded.read, t.column + t.decoded.read)

\* Mutant of MayGoOn: only what was cut inside goes on.
MayGoOnBehind(t) == t.pos + t.decoded.read > Len(t.content)

\* A value that reads all of the chunk may go on in the next one.
MayGoOn(t) == t.pos + t.decoded.read >= Len(t.content)

\* What decodeNext makes of the tokenizer: done when it has a token, or would throw.
Outcome(done, throws, t) == [done |-> done, throws |-> throws, t |-> t]

\* The value at the position of the tokenizer is decoded.
OutcomeOfValue(t) ==
    CASE MayGoOn(t) -> Outcome(FALSE, FALSE, t)
      [] ~MayGoOn(t) /\ HasNoValue(t) -> Outcome(TRUE, TRUE, t)
      [] OTHER -> Outcome(TRUE, FALSE, setTokenValue(t))

\* Behind the white space.
OutcomeAt(t, c) ==
    IF c \in DOMAIN Punctuation
    THEN Outcome(TRUE, FALSE, setPosition(setToken(t, Punctuation[c], CharValue(c)), t.pos + 1, t.column + 1))
    ELSE OutcomeOfValue([t EXCEPT !.decoded = decodeValue(From(t.content, t.pos + 1))])

OutcomeBehind(skipped) ==
    IF skipped.found
    THEN OutcomeAt([skipped.t EXCEPT !.tokenColumn = skipped.t.column], CharAt(skipped.t.content, skipped.t.pos + 1))
    ELSE Outcome(FALSE, FALSE, skipped.t)

decodeNext(t) == OutcomeBehind(skipWhitespaces(t))
-----------------------------------------------------------------------------
InitTokenizer ==
    /\ lexemes \in Texts
    /\ bufferSize \in BufferSizes
    /\ rest = Behind(TextOf(lexemes))
    /\ tokenizer = [content |-> Chunk(TextOf(lexemes)), pos |-> 0, line |-> 1, column |-> 1, tokenColumn |-> 1,
                    token |-> IF lexemes = <<>> THEN "END_OF_FILE" ELSE "BEGIN_OF_FILE",
                    value |-> NoValue, decoded |-> Failure(0)]
    /\ tokens = <<>>
    /\ failed = NoPosition

Delivered(t) == [token |-> t.token, value |-> t.value, line |-> t.line, column |-> t.tokenColumn]

Deliver(t) ==
    /\ tokenizer' = t
    /\ tokens' = Append(tokens, Delivered(t))
    /\ UNCHANGED <<lexemes, bufferSize, rest, failed>>

Throw(t) ==
    /\ tokenizer' = t
    /\ failed' = <<t.line, t.tokenColumn>>
    /\ UNCHANGED <<lexemes, bufferSize, rest, tokens>>

\* Whether next() is called again.
Reads == failed = NoPosition /\ (tokens # <<>> => tokens[Len(tokens)].token # "END_OF_FILE")

\* A token that is complete in the chunk.
NextInChunk ==
    /\ Reads
    /\ \E decoded \in {decodeNext(tokenizer)} :
           /\ decoded.done
           /\ IF decoded.throws THEN Throw(decoded.t) ELSE Deliver(decoded.t)

\* Another chunk is appended to what is not consumed.
ReadMore ==
    /\ Reads
    /\ rest # ""
    /\ \E decoded \in {decodeNext(tokenizer)} :
           /\ ~decoded.done
           /\ tokenizer' = [decoded.t EXCEPT !.content = From(decoded.t.content, decoded.t.pos + 1) \o Chunk(rest),
                                             !.pos = 0]
           /\ rest' = Behind(rest)
    /\ UNCHANGED <<lexemes, bufferSize, tokens, failed>>

\* There is no other chunk: the end of the file, or the value that has read all of it.
AtEnd ==
    /\ Reads
    /\ rest = ""
    /\ \E decoded \in {decodeNext(tokenizer)} :
           /\ ~decoded.done
           /\ CASE decoded.t.token = "END_OF_FILE" ->
                        Deliver([decoded.t EXCEPT !.tokenColumn = decoded.t.column])
                [] decoded.t.token # "END_OF_FILE" /\ HasNoValue(decoded.t) -> Throw(decoded.t)
                [] OTHER -> Deliver(setTokenValue(decoded.t))

NextTokenizer == NextInChunk \/ ReadMore \/ AtEnd
-----------------------------------------------------------------------------
(* What the tokens of a text are, from its lexemes alone.                   *)

\* Where the i-th lexeme is; a '\r' that ends the text ends no line.
PositionOf(i) ==
    LET at[k \in 1..i] ==
            IF k = 1 THEN <<1, 1>>
            ELSE LET before == at[k - 1]
                     text == lexemes[k - 1].text
                 IN  CASE text \in {"\n", "\r\n"} \/ (text = "\r" /\ k - 1 < Len(lexemes)) -> <<before[1] + 1, 1>>
                       [] text = "\r" /\ k - 1 = Len(lexemes) -> before
                       [] OTHER -> <<before[1], before[2] + Len(text)>>
    IN  at[i]

Visible == {i \in DOMAIN lexemes : lexemes[i].token # "none"}

Expected ==
    LET of(i) == [token |-> lexemes[i].token, value |-> lexemes[i].value,
                  line |-> PositionOf(i)[1], column |-> PositionOf(i)[2]]
        upTo[i \in 0..Len(lexemes)] ==
            CASE i = 0 -> <<>>
              [] i > 0 /\ i \in Visible -> Append(upTo[i - 1], of(i))
              [] OTHER -> upTo[i - 1]
        end == PositionOf(Len(lexemes) + 1)
    IN  Append(upTo[Len(lexemes)],
               [token |-> "END_OF_FILE", value |-> NoValue, line |-> end[1], column |-> end[2]])

Bad == {i \in Visible : lexemes[i].token = "BAD"}

FirstBad == CHOOSE i \in Bad : \A j \in Bad : i <= j

\* The number of tokens in front of the i-th lexeme.
TokensBefore(i) == Cardinality({j \in Visible : j < i})

OffsetOf(i) == Len(TextOf(SubSeq(lexemes, 1, i - 1)))

\* A value is decoded up to the end of the text, and a chunk ends in front of it, in what separates
\* it from the token before.
LateValue ==
    \E last \in Visible :
        LET before == {j \in Visible : j < last}
            from == IF before = {} THEN 0 ELSE OffsetOf((CHOOSE j \in before : \A k \in before : k <= j) + 1)
        IN  /\ lexemes[last].token \in {"VALUE", "BAD"}
            /\ decodeValue(From(TextOf(lexemes), OffsetOf(last) + 1)).read + OffsetOf(last) = Len(TextOf(lexemes))
            /\ \E k \in from..OffsetOf(last) : k > 0 /\ k % bufferSize = 0

Finished == tokens # <<>> /\ tokens[Len(tokens)].token = "END_OF_FILE"

TokensAreRight ==
    /\ \A i \in DOMAIN tokens : tokens[i] = Expected[i]
    /\ Finished => Bad = {} /\ tokens = Expected
    /\ failed # NoPosition => Bad # {} /\ Len(tokens) = TokensBefore(FirstBad) /\ failed = PositionOf(FirstBad)

\* Wherever the chunks end, next() returns the tokens of the text in turn, each with its value, line
\* and column, and throws at the first one that is none, nowhere else.
TokensAgree == LateValue \/ TokensAreRight

\* "stream is finished but last token is not EOF => value must be at the end": the value at the end
\* of the stream is returned like any other one.
ValueAtEndIsRead == TokensAreRight
=============================================================================
