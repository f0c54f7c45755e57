------------------------------ MODULE JsonReader ------------------------------
(***************************************************************************)
(* JsonReader.h: an observer of the parser that drives a creator. The values *)
(* of bit buffers and of bytes are JSON objects, so while one is read the    *)
(* calls of the parser go to an adapter of its own.                         *)
(*                                                                         *)
(* A stream may hold several objects, and read() is called for each. What a   *)
(* read that threw leaves behind is there in the next one: the keys, the     *)
(* adapter, the token it stopped at, and the object of an earlier read.       *)
(***************************************************************************)
EXTENDS ZserioTreeCreator, JsonParser

CONSTANTS
    Wide,       \* the width of an integer of JSON, 64
    MaxReads    \* the bound on the calls of read()

VARIABLES
    stream,     \* the tokens
    position,   \* of the current token, 0 at BEGIN_OF_FILE
    frames,     \* what the parser has left to do, the top last; <<>> outside of read()
    hasCreator, \* whether m_creator is set
    keyStack,   \* m_keyStack, an empty key stands for an array
    adapter,    \* m_objectValueAdapter
    object,     \* m_object
    results     \* what the calls of read() have returned

adapterVars == <<hasCreator, keyStack, adapter, object>>

readerVars == <<vars, stream, position, frames, adapterVars, results>>

JsonUInt(n) == Num(<<"UINT", Wide>>, n)

JsonInt(n) == Num(<<"INT", Wide>>, n)

JsonString(w) == Str(<<Word(w)>>)

Element == ""

NoAdapter == [for |-> "nothing"]

NoSize == -1

Adapter(for) == [for |-> for, state |-> "VISIT_KEY", buffer |-> <<>>, hasBuffer |-> FALSE, bitSize |-> NoSize]

IsIntegerOfJson(value) == value.kind = <<"UINT", Wide>>

CurrentToken ==
    CASE position = 0 -> Token("BEGIN_OF_FILE")
      [] position \in DOMAIN stream -> stream[position]
      [] OTHER -> EndOfFile

\* Whether next() throws.
NextThrows == position + 1 \in DOMAIN stream /\ stream[position + 1] = Unreadable

\* Which token next() leaves when it throws: the one before, or the end of the file that is set when
\* a chunk ends in the white space in front of what is no token.
TokenStays == position' \in {position, Len(stream) + 1}

Following == IF position > Len(stream) THEN position ELSE position + 1

Key == keyStack[Len(keyStack)]
-----------------------------------------------------------------------------
(* BitBufferAdapter and BytesAdapter. Each call is accepted in one state.    *)

\* Mutant of AdapterBeginArray: the bytes of an earlier array are kept.
AdapterBeginArrayAgain(a) ==
    IF a.state = "BEGIN_ARRAY_BUFFER" THEN [a EXCEPT !.state = "VISIT_VALUE_BUFFER", !.hasBuffer = TRUE] ELSE NoAdapter

AdapterBeginArray(a) ==
    IF a.state = "BEGIN_ARRAY_BUFFER"
    THEN [a EXCEPT !.state = "VISIT_VALUE_BUFFER", !.buffer = <<>>, !.hasBuffer = TRUE]
    ELSE NoAdapter

AdapterEndArray(a) == IF a.state = "VISIT_VALUE_BUFFER" THEN [a EXCEPT !.state = "VISIT_KEY"] ELSE NoAdapter

AdapterVisitKey(a, key) ==
    CASE a.state = "VISIT_KEY" /\ key = "buffer" -> [a EXCEPT !.state = "BEGIN_ARRAY_BUFFER"]
      [] a.state = "VISIT_KEY" /\ key = "bitSize" /\ a.for = <<"BIT_BUFFER", 0>> ->
            [a EXCEPT !.state = "VISIT_VALUE_BITSIZE"]
      [] OTHER -> NoAdapter

\* Unsigned integers only; a byte has to be one.
AdapterVisitValue(a, value) ==
    CASE IsIntegerOfJson(value) /\ a.state = "VISIT_VALUE_BUFFER" /\ value.num <= 255 ->
            [a EXCEPT !.buffer = Append(@, value.num)]
      [] IsIntegerOfJson(value) /\ a.state = "VISIT_VALUE_BITSIZE" ->
            [a EXCEPT !.bitSize = value.num, !.state = "VISIT_KEY"]
      [] OTHER -> NoAdapter

BitBuffer(bytes, size) == Bits([buffer |-> bytes, bitSize |-> size])

\* get(): a value only when all of it has been read. The constructor of a bit buffer asks for as many
\* bytes as the bits need.
AdapterGet(a) ==
    CASE a.state = "VISIT_KEY" /\ a.hasBuffer /\ a.for = <<"BYTES", 0>> -> Octets(a.buffer)
      [] a.state = "VISIT_KEY" /\ a.hasBuffer /\ a.for = <<"BIT_BUFFER", 0>> /\ a.bitSize # NoSize ->
            IF (a.bitSize + 7) \div 8 <= Len(a.buffer) THEN BitBuffer(a.buffer, a.bitSize) ELSE Thrown
      [] OTHER -> Thrown
-----------------------------------------------------------------------------
(* CreatorAdapter: the calls of the parser.                                *)

\* An exception that does not come from the creator.
Refuse == Throws /\ UNCHANGED adapterVars

\* A call that the adapter of a value answers.
ToAdapter(answer) ==
    IF answer = NoAdapter
    THEN Refuse
    ELSE /\ adapter' = answer
         /\ outcome' = Ok
         /\ UNCHANGED <<state, fieldInfoStack, valueStack, tree, torn, hasCreator, keyStack, object>>

InAdapter == adapter # NoAdapter

HasAdapter(type) == Cpp(type) \in {<<"BIT_BUFFER", 0>>, <<"BYTES", 0>>}

\* setType(): a new creator.
setType ==
    /\ hasCreator' = TRUE
    /\ state' = "BEFORE_ROOT"
    /\ fieldInfoStack' = <<>>
    /\ valueStack' = <<>>
    /\ tree' = Null
    /\ outcome' = Ok
    /\ torn' = FALSE
    /\ UNCHANGED <<keyStack, adapter, object>>

BeginObjectOf(type, begin) ==
    IF HasAdapter(type)
    THEN ToAdapter(Adapter(Cpp(type)))
    ELSE begin /\ UNCHANGED adapterVars

beginObject ==
    CASE InAdapter \/ ~hasCreator -> Refuse
      [] ~InAdapter /\ hasCreator /\ keyStack = <<>> -> beginRoot /\ UNCHANGED adapterVars
      [] ~InAdapter /\ hasCreator /\ keyStack # <<>> /\ Key # Element ->
            IF getFieldType(Key) = "throws" THEN Refuse ELSE BeginObjectOf(getFieldType(Key), beginCompound(Key))
      [] OTHER ->
            IF getElementType = "throws" THEN Refuse ELSE BeginObjectOf(getElementType, beginCompoundElement)

\* Behind an accepted call a key is done with; an array has none.
KeyIsDone == keyStack' = IF outcome' # ThrownOut /\ Key # Element THEN Pop(keyStack) ELSE keyStack

SetOrAdd(value) ==
    CASE Key # Element /\ value = Null -> setNullValue(Key)
      [] Key # Element /\ value # Null -> setValue(Key, value)
      [] OTHER -> addValueElement(value)

\* setValue() of the adapter. What is not an object cannot be the root.
SetValue(value) ==
    IF keyStack = <<>>
    THEN Throws /\ UNCHANGED keyStack
    ELSE SetOrAdd(value) /\ KeyIsDone

EndAdapter ==
    IF AdapterGet(adapter) = Thrown
    THEN Refuse
    ELSE /\ SetValue(AdapterGet(adapter))
         /\ adapter' = IF outcome' = ThrownOut THEN adapter ELSE NoAdapter
         /\ UNCHANGED <<hasCreator, object>>

EndRoot ==
    /\ endRoot
    /\ IF outcome' = ThrownOut
       THEN UNCHANGED <<object, hasCreator>>
       ELSE object' = outcome'.object /\ hasCreator' = FALSE
    /\ UNCHANGED <<keyStack, adapter>>

EndCompound ==
    /\ IF Key # Element THEN endCompound ELSE endCompoundElement
    /\ KeyIsDone
    /\ UNCHANGED <<hasCreator, adapter, object>>

endObjectCall ==
    CASE InAdapter -> EndAdapter
      [] ~InAdapter /\ ~hasCreator -> Refuse
      [] OTHER -> IF keyStack = <<>> THEN EndRoot ELSE EndCompound

beginArrayCall ==
    CASE InAdapter -> ToAdapter(AdapterBeginArray(adapter))
      [] ~InAdapter /\ (~hasCreator \/ keyStack = <<>>) -> Refuse
      [] OTHER ->
            /\ beginArray(Key)
            /\ keyStack' = IF outcome' = ThrownOut THEN keyStack ELSE Append(keyStack, Element)
            /\ UNCHANGED <<hasCreator, adapter, object>>

\* The array and its field are done with.
endArrayCall ==
    CASE InAdapter -> ToAdapter(AdapterEndArray(adapter))
      [] ~InAdapter /\ ~hasCreator -> Refuse
      [] OTHER ->
            /\ endArray
            /\ keyStack' = IF outcome' = ThrownOut THEN keyStack ELSE Pop(Pop(keyStack))
            /\ UNCHANGED <<hasCreator, adapter, object>>

visitKey(key) ==
    CASE InAdapter -> ToAdapter(AdapterVisitKey(adapter, key))
      [] ~InAdapter /\ ~hasCreator -> Refuse
      [] OTHER ->
            /\ keyStack' = Append(keyStack, key)
            /\ outcome' = Ok
            /\ UNCHANGED <<state, fieldInfoStack, valueStack, tree, torn, hasCreator, adapter, object>>

visitValue(value) ==
    CASE InAdapter -> ToAdapter(AdapterVisitValue(adapter, value))
      [] ~InAdapter /\ ~hasCreator -> Refuse
      [] OTHER -> SetValue(value) /\ UNCHANGED <<hasCreator, adapter, object>>

NoCall == outcome' = Ok /\ UNCHANGED <<state, fieldInfoStack, valueStack, tree, torn, adapterVars>>

Observe(call, value) ==
    CASE call = "beginObject" -> beginObject
      [] call = "endObject" -> endObjectCall
      [] call = "beginArray" -> beginArrayCall
      [] call = "endArray" -> endArrayCall
      [] call = "visitKey" -> visitKey(value.str[1].word)
      [] call = "visitValue" -> visitValue(value)
      [] call = "throw" -> Refuse
      [] call = "none" -> NoCall
-----------------------------------------------------------------------------
(* read().                                                                 *)

\* get(): the object, of this read or of an earlier one.
get(kept) == IF kept = Null THEN ThrownOut ELSE Returned(kept)

ReadThrows == frames' = <<>> /\ results' = Append(results, ThrownOut)

\* parse() up to the first element. At the end of the file it is done.
read ==
    /\ frames = <<>> /\ Len(results) < MaxReads
    /\ setType
    /\ IF position = 0 /\ NextThrows
       THEN ReadThrows /\ TokenStays
       ELSE /\ position' = IF position = 0 THEN 1 ELSE position
            /\ IF position' > Len(stream)
               THEN frames' = <<>> /\ results' = Append(results, get(object))
               ELSE frames' = <<"element">> /\ UNCHANGED results
    /\ UNCHANGED stream

\* What is left when the move is made.
Left(move) == Pop(frames) \o move.frames

Go(move) ==
    /\ frames' = Left(move)
    /\ results' = IF Left(move) = <<>> THEN Append(results, get(object')) ELSE results

IsStringToken(token) == token.token = "VALUE" /\ token.value.kind = <<"STRING", 0>>

\* One move of the parser, before the next token is taken or behind it. An exception of the observer or of the tokenizer ends the read.
parse ==
    /\ frames # <<>>
    /\ \E move \in {MoveOn(frames[Len(frames)], CurrentToken, IsStringToken(CurrentToken))} :
        IF move.takes = "first" /\ NextThrows
        THEN Refuse /\ ReadThrows /\ TokenStays
        ELSE /\ Observe(move.call, CurrentToken.value)
             /\ LET refused == outcome' = ThrownOut
                    takes == move.takes = "then" /\ ~refused
                IN  /\ CASE takes /\ NextThrows -> TokenStays
                         [] move.takes = "first" \/ (takes /\ ~NextThrows) -> position' = Following
                         [] OTHER -> UNCHANGED position
                    /\ IF refused \/ (takes /\ NextThrows) THEN ReadThrows ELSE Go(move)
    /\ UNCHANGED stream

InitReader(streams) ==
    /\ Init
    /\ stream \in streams
    /\ position = 0
    /\ frames = <<>>
    /\ hasCreator = FALSE
    /\ keyStack = <<>>
    /\ adapter = NoAdapter
    /\ object = Null
    /\ results = <<>>

NextReader == read \/ parse
=============================================================================
