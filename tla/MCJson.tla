-------------------------------- MODULE MCJson --------------------------------
(* The tokenizer on short texts, the reader on streams of written objects and *)
(* of other documents, cut at every token, and the walker's filters on the     *)
(* objects, and the text that numbers and exceptions are written as: one of   *)
(* them in every behaviour.                                                 *)
EXTENDS JsonTokenizer, JsonDocument, CppRuntimeException

VARIABLES
    mode,       \* "tokenize", "read", "walk", "convert" or "except"
    expected,   \* what the documents in the stream stand for, Thrown for what is none
    subject,    \* the object that is walked
    walkFilter, \* the filter it is walked with
    c_argument, c_converted     \* the variables of StringConvertUtil

walkVars == <<expected, subject, walkFilter>>

textVars == <<c_argument, c_converted>>

allVars == <<tokenizerVars, readerVars, mode, walkVars, textVars, exceptionVars>>

-----------------------------------------------------------------------------
(* Texts.                                                                  *)

Lexeme(text, token, value) == [text |-> text, token |-> token, value |-> value]

Space(text) == Lexeme(text, "none", NoValue)

Spaces == {Space(" "), Space("\n"), Space("\r"), Space("\r\n")}

LexemesOfValues ==
    {Lexeme("12", "VALUE", UIntValue(12)), Lexeme("-1e2", "VALUE", DoubleValue("-1e2")),
     Lexeme("\"\\n\"", "VALUE", StringValue("\n")), Lexeme("tru", "BAD", NoValue)}

Lexemes == Spaces \union LexemesOfValues \union {Lexeme(":", "KEY_SEPARATOR", CharValue(":"))}

\* Two values have something in between, and what reads as one line end is one.
CanFollow(l, m) ==
    /\ ~({l, m} \subseteq LexemesOfValues)
    /\ ~(l.text = "\r" /\ m.text = "\n")

MCTexts ==
    {s \in UNION {[1..n -> Lexemes] : n \in 0..3} :
        \A i \in 1..(Len(s) - 1) : CanFollow(s[i], s[i + 1])}
    \union
    {<<v, Space(" ")>> : v \in
        {Lexeme("-Infinity", "VALUE", DoubleValue("-Infinity")), Lexeme("NaN", "VALUE", DoubleValue("NaN")),
         Lexeme("null", "VALUE", NullValue), Lexeme("true", "VALUE", BoolValue(TRUE)),
         Lexeme("false", "VALUE", BoolValue(FALSE)), Lexeme("-7", "VALUE", IntValue(-7)),
         Lexeme("1.5e+2", "VALUE", DoubleValue("1.5e+2")), Lexeme("-", "BAD", NoValue),
         Lexeme("100", "BAD", NoValue), Lexeme("-100", "BAD", NoValue), Lexeme("1.5e", "BAD", NoValue),
         Lexeme("\"\\u00g\"", "BAD", NoValue), Lexeme("\"\\x\"", "BAD", NoValue)}
            \union {Lexeme(encodeString(s), "VALUE", StringValue(s)) :
                        s \in {"", "a\"b\\", Backspace \o FormFeed \o Unit, "\n\r\t"}}}
-----------------------------------------------------------------------------
(* Objects.                                                                *)

Field(name, type) == FieldInfo(name, type, FALSE, FALSE, FALSE)

ArrayField(name, type) == FieldInfo(name, type, TRUE, FALSE, FALSE)

OptionalField(name, type) == FieldInfo(name, type, FALSE, TRUE, FALSE)

ExtendedField(name, type) == FieldInfo(name, type, FALSE, FALSE, TRUE)

MCTypes ==
    [int8 |-> getFixedBitField(TRUE, 8),
     uint8 |-> getFixedBitField(FALSE, 8),
     double |-> CHOOSE t \in FloatTypeInfos : t.getCppType = <<"DOUBLE", 0>>,
     string |-> StringTypeInfo,
     extern |-> ExternTypeInfo,
     bytes |-> BytesTypeInfo,
     Colour |-> EnumTypeInfo("uint8", <<ItemInfo("RED", 1), ItemInfo("BLUE", 2)>>),
     Rights |-> BitmaskTypeInfo("uint8", <<ItemInfo("READ", 1), ItemInfo("WRITE", 2)>>),
     Part |-> StructTypeInfo(<<Field("x", "int8")>>, <<>>, <<>>),
     Case |-> UnionTypeInfo(<<Field("x", "Colour"), ArrayField("list", "extern")>>, <<>>, <<>>),
     Whole |-> StructTypeInfo(<<Field("x", "double"), Field("name", "string"), Field("rights", "Rights"),
                                Field("data", "bytes"), Field("part", "Part"), OptionalField("maybe", "Part"),
                                ArrayField("list", "Part"), Field("case", "Case"),
                                ExtendedField("late", "uint8")>>, <<>>, <<>>)]

PartOf(n) == Node(<<"STRUCT", 0>>, [x |-> Num(<<"INT", 8>>, n)])

CaseOf(at) == Node(<<"UNION", 0>>, at)

ArrayOf(nodes) == Node(ArrayKind, nodes)

WholeOf(name, rights, data, maybe, list, case, late) ==
    Node(<<"STRUCT", 0>>,
         [x |-> Num(<<"DOUBLE", 0>>, 3), name |-> Str(name), rights |-> Num(<<"BITMASK", 0>>, rights),
          data |-> Octets(data), part |-> PartOf(-1), maybe |-> maybe, list |-> ArrayOf(list), case |-> case,
          late |-> late])

Late == Num(<<"UINT", 8>>, 200)

Objects ==
    {WholeOf(<<Word("a")>>, 3, <<>>, Null, <<>>, CaseOf(EmptyAt), Absent),
     WholeOf(<<>>, 0, <<255, 0>>, PartOf(5), <<PartOf(1), PartOf(2)>>, CaseOf([x |-> Num(<<"ENUM", 0>>, 2)]), Late),
     WholeOf(<<>>, 5, <<1>>, Null, <<PartOf(0)>>,
             CaseOf([list |-> ArrayOf(<<BitBuffer(<<7, 192>>, 10), BitBuffer(<<>>, 0)>>)]), Late),
     WholeOf(<<>>, 8, <<>>, Null, <<>>, CaseOf([x |-> Num(<<"ENUM", 0>>, 0)]), Late)}
-----------------------------------------------------------------------------
(* Streams.                                                                *)

\* A root: its tokens, and what it stands for.
Item(tokensOfIt, standsFor) == [tokens |-> tokensOfIt, object |-> standsFor]

WrittenItem(o, format) ==
    Item(Written(walkRoot(DefaultWalkFilter, "Whole", o), format),
         IF IsReadable("Whole", o) THEN Present("Whole", o) ELSE Thrown)

DocItem(doc) == Item(TokensOf(doc), RootOf(doc))

Doc(key, doc) == ObjectDoc(<<Member(key, doc)>>)

Num8(n) == ValueDoc(JsonUInt(n))

ValueOf(bits) == ArrayDoc([i \in DOMAIN bits |-> Num8(bits[i])])

Chunk2(members) == Doc("case", Doc("list", ArrayDoc(<<ObjectDoc(members)>>)))

\* Members that come twice, that are missing, unknown, of another type, or out of range.
Docs ==
    {ObjectDoc(<<Member("part", Doc("x", Num8(1))), Member("part", ObjectDoc(<<>>)),
                 Member("list", ArrayDoc(<<Doc("x", Num8(7))>>)), Member("list", ArrayDoc(<<ObjectDoc(<<>>)>>)),
                 Member("case", Doc("x", ValueDoc(JsonString("RED")))), Member("case", Doc("list", ArrayDoc(<<>>))),
                 Member("maybe", Doc("x", Num8(2))), Member("maybe", ValueDoc(Null)),
                 Member("late", ValueDoc(Null))>>),
     ObjectDoc(<<>>), Num8(1), ArrayDoc(<<ObjectDoc(<<>>)>>), Doc("", Num8(1)), Doc("none", Num8(1)),
     Doc("x", ValueDoc(Null)), Doc("x", ObjectDoc(<<>>)), Doc("part", Num8(1)), Doc("part", Doc("late", Num8(1))),
     Doc("part", Doc("x", Num8(300))), Doc("part", Doc("x", ValueDoc(JsonInt(-129)))),
     Doc("list", ArrayDoc(<<ValueDoc(Null)>>)), Doc("list", ObjectDoc(<<>>)), Doc("list", ArrayDoc(<<ArrayDoc(<<>>)>>)),
     Doc("list", ArrayDoc(<<Doc("x", Num8(1)), Num8(2)>>)), Doc("case", Doc("x", Num8(3))),
     Doc("data", Doc("buffer", ValueOf(<<256>>))), Doc("data", Doc("bitSize", Num8(8))),
     Doc("data", ObjectDoc(<<Member("buffer", ValueOf(<<1>>)), Member("buffer", ValueOf(<<2, 3>>))>>)),
     Doc("data", Num8(1)), Doc("rights", ValueDoc(Str(<<Word("READ"), Bar>>))),
     Chunk2(<<Member("bitSize", Num8(9)), Member("buffer", ValueOf(<<1, 2>>))>>),
     Chunk2(<<Member("bitSize", Num8(9)), Member("buffer", ValueOf(<<1>>))>>),
     Chunk2(<<Member("buffer", ValueOf(<<1, 2>>))>>), Chunk2(<<Member("buffer", Num8(1))>>)}

WrittenItems == {WrittenItem(o, format) : o \in Objects, format \in EnumerableFormats}

SecondItems == {DocItem(ObjectDoc(<<>>)), DocItem(Doc("part", Num8(1)))}

Sources == {<<item>> : item \in WrittenItems} \union {<<DocItem(doc), second>> : doc \in Docs, second \in SecondItems}

AllTokens(items) ==
    LET upTo[i \in 0..Len(items)] == IF i = 0 THEN <<>> ELSE upTo[i - 1] \o items[i].tokens
    IN  upTo[Len(items)]

\* Whether an item is in the stream in full, and the tokenizer can go on behind it.
IsComplete(items, i, cut, readable) ==
    LET end == Len(AllTokens(SubSeq(items, 1, i)))
    IN  end < cut \/ (end = cut /\ readable)

StandFor(items, cut, readable) ==
    [i \in DOMAIN items |-> IF IsComplete(items, i, cut, readable) THEN items[i].object ELSE Thrown]

InitStream ==
    \E items \in Sources : \E cut \in 0..Len(AllTokens(items)), readable \in BOOLEAN :
        /\ InitReader({SubSeq(AllTokens(items), 1, cut) \o (IF readable THEN <<>> ELSE <<Unreadable>>)})
        /\ expected = StandFor(items, cut, readable)
-----------------------------------------------------------------------------
(* Filters.                                                                *)

Steps(names) == [i \in DOMAIN names |-> StepTo(names[i], WALKER_NOT_ELEMENT)]

ElementX(i) == <<StepTo("list", i), StepTo("x", WALKER_NOT_ELEMENT)>>

Regexes ==
    {{Steps(<<"part", "x">>)}, {Steps(<<"part">>)}, {ElementX(2)}, {Steps(<<"list">>)}, {Steps(<<"maybe">>)},
     {Steps(<<"case", "x">>), ElementX(1)}, {<<StepTo("case", WALKER_NOT_ELEMENT), StepTo("list", 2)>>},
     {<<StepTo("list", 1)>>}}

SimpleFilters ==
    {DefaultWalkFilter} \union {DepthWalkFilter(n) : n \in 0..3} \union {ArrayLengthWalkFilter(n) : n \in 0..2}
        \union {RegexWalkFilter(r) : r \in Regexes}

MCFilters ==
    SimpleFilters \union {AndWalkFilter(<<f, g>>) : f \in SimpleFilters, g \in SimpleFilters}
-----------------------------------------------------------------------------
(* Numbers as text. The widest type has 16 bits, and the buffer just the room for its longest *)
(* number.                                                                 *)

Integer(bits, signed) == [bits |-> bits, signed |-> signed]

MCIntegers(t) ==
    IF t.bits = 8
    THEN IF t.signed THEN -128..127 ELSE 0..255
    ELSE {0, 9, 10, 99, 100, 101, 999, 1000, 1001, 9999, 10000, 10010, 32767}
            \union (IF t.signed THEN {-32768, -32767, -10000, -100, -99, -10, -9, -1} ELSE {32768, 65535})

\* In steps of a twentieth and a little, around zero and at both ends of the range.
MCFloats == {505 * k : k \in -70..70} \union {-327680000, -327679999, -90000, 10000, 10050, 327679999, 327680000}

Conversion == INSTANCE StringConvertUtil WITH
    IntegerTypes <- {Integer(bits, signed) : bits \in {8, 16}, signed \in BOOLEAN},
    Arguments <- MCIntegers,
    Int64 <- Integer(16, TRUE),
    Floats <- {[isNaN |-> FALSE, value |-> n] : n \in MCFloats} \union {[isNaN |-> TRUE, value |-> 0]},
    BufferSize <- 7,
    argument <- c_argument, converted <- c_converted

-----------------------------------------------------------------------------
(* Two exceptions with room for three characters.                            *)

MCChar == {"nul", "a", "b", "1", "2", "-", ".", "+", "Inf", "vector([...], ", ")"}
MCCStrings == {<<>>, <<"a", "b", "a">>}
MCViews == {<<"b", "nul", "b">>}
MCIntegerTexts == {<<"-", "1">>}
MCNoText == <<"null">>
MCFloatTexts == {[integer |-> <<"1">>, floating |-> <<"2">>], [integer |-> <<"+", "Inf">>, floating |-> MCNoText]}
MCDot == <<".">>
MCVectorBegin == <<"vector([...], ">>
MCVectorEnd == <<")">>

-----------------------------------------------------------------------------
IdleTokenizer ==
    /\ lexemes = <<>> /\ bufferSize = 1 /\ rest = "" /\ tokenizer = [token |-> "END_OF_FILE"] /\ tokens = <<>>
    /\ failed = NoPosition

IdleReader == InitReader({<<>>}) /\ expected = <<>>

IdleWalk == subject = Null /\ walkFilter = DefaultWalkFilter

MCInit ==
    /\ Conversion!InitText /\ InitException
    /\ \/ mode = "tokenize" /\ InitTokenizer /\ IdleReader /\ IdleWalk
       \/ mode = "read" /\ IdleTokenizer /\ InitStream /\ IdleWalk
       \/ mode = "walk" /\ IdleTokenizer /\ IdleReader /\ subject \in Objects /\ walkFilter \in MCFilters
       \/ mode \in {"convert", "except"} /\ IdleTokenizer /\ IdleReader /\ IdleWalk

MCNext ==
    /\ UNCHANGED <<mode, walkVars>>
    /\ \/ /\ mode = "tokenize" /\ NextTokenizer
          /\ UNCHANGED <<readerVars, textVars, exceptionVars>>
       \/ /\ mode = "read" /\ NextReader
          /\ UNCHANGED <<tokenizerVars, textVars, exceptionVars>>
       \/ /\ mode = "convert" /\ Conversion!NextText
          /\ UNCHANGED <<tokenizerVars, readerVars, exceptionVars>>
       \/ /\ mode = "except" /\ NextException
          /\ UNCHANGED <<tokenizerVars, readerVars, textVars>>

MCSpec == MCInit /\ [][MCNext]_allVars
-----------------------------------------------------------------------------
(* Properties.                                                             *)

\* The documents in front of the first one that stands for nothing.
Good == {i \in DOMAIN expected : \A j \in 1..i : expected[j] # Thrown}

\* Every read returns the object that its document stands for, whatever the reads before it have
\* left behind, up to the first one that stands for none or is cut. The reads behind that go on
\* where it has stopped, in the middle of a document: they throw, or return an object that still is
\* one of the schema.
ReadsAgree ==
    \A k \in DOMAIN results :
        IF k \in Good
        THEN results[k].result = "returned" /\ equal(RootType, results[k].object, expected[k])
        ELSE results[k] = ThrownOut \/ Fits(RootType, results[k].object)

\* A read behind the last document of a stream finds no object and throws.
ReadCreatesItsObject ==
    Good = DOMAIN expected => \A k \in DOMAIN results : k > Len(expected) => results[k] = ThrownOut

\* What the calls of an observer are about, and whether each end is that of its begin.
Observations(calls) ==
    LET ends(o, c) ==
            /\ o.open # <<>>
            /\ o.open[Len(o.open)] = IF c.call = "endArray" THEN "beginArray" ELSE "beginCompound"
        behind(o, c, path) ==
            CASE c.call = "visitValue" -> [o EXCEPT !.seen = @ \union {path}]
              [] c.call \in {"beginArray", "beginCompound"} ->
                    [o EXCEPT !.seen = @ \union {path}, !.path = path, !.open = Append(@, c.call)]
              [] OTHER -> [o EXCEPT !.path = popPath(@, c.at), !.open = Pop(@), !.nested = @ /\ ends(o, c)]
        next(o, c) == behind(o, c, appendPath(o.path, c.at))
        upTo[i \in 0..Len(calls)] ==
            IF i = 0
            THEN [path |-> <<>>, open |-> <<>>, seen |-> {}, nested |-> TRUE]
            ELSE next(upTo[i - 1], calls[i])
    IN  upTo[Len(calls)]

WalkAgrees ==
    \A seen \in {Observations(walkRoot(walkFilter, "Whole", subject))} :
        /\ seen.nested /\ seen.open = <<>>
        /\ seen.seen = {p.steps : p \in Reported(walkFilter, "Whole", subject)}

\* Whether a regular expression names an element that is an object.
RECURSIVE NamesElement(_)

NamesElement(f) ==
    CASE f.filter = "regex" -> {<<StepTo("list", i)>> : i \in 1..2} \intersect f.pathRegex # {}
      [] f.filter = "and" -> \E i \in DOMAIN f.walkFilters : NamesElement(f.walkFilters[i])
      [] OTHER -> FALSE

\* A walk reports what its filters let through, with what it is in, and nothing else, and the filter
\* is behind it as it was before. (Not of an element that is an object and matches by itself.)
FiltersAgree ==
    mode = "walk" /\ ~NamesElement(walkFilter) =>
        WalkAgrees /\ walkWith(walkFilter, "Whole", subject).filter = walkFilter

\* An integer is written as the number that it is; a float loses its sign above -1, and the zeros behind
\* its point. (TextsAgree of StringConvertUtil.)
TextsAgree == Conversion!TextsAgree
=============================================================================
