------------------------------ MODULE TypeInfo ------------------------------
(***************************************************************************)
(* The type information a schema is described by at run time               *)
(* (ITypeInfo.h, TypeInfo.h) and the predicates on it (TypeInfoUtil.cpp).   *)
(*                                                                         *)
(* A type information object is a record. Its fields are the getters that   *)
(* the class of the object overrides; every other getter is the one of      *)
(* TypeInfoBase, which throws. "Answers" says which of the two it is.       *)
(*                                                                         *)
(* A schema type is a pair of a name and a width: the 64 signed and the 64  *)
(* unsigned bit fields are one name with widths 1..64, all others have the  *)
(* width 0.                                                                *)
(***************************************************************************)
EXTENDS Integers, Sequences, TLC

StdWidths == {8, 16, 32, 64}

\* Mutant of StdWidth: a bit field as wide as a C++ integer gets the next one.
StdWidthAbove(n) ==
    IF n = 64 THEN 64 ELSE CHOOSE w \in StdWidths : n < w /\ \A v \in StdWidths : n < v => w <= v

\* The width of the least C++ integer that holds n bits.
StdWidth(n) == CHOOSE w \in StdWidths : n <= w /\ \A v \in StdWidths : n <= v => w <= v

\* The C++ types: the integers are pairs of a name and a width, too.
CppInt(signed, width) == <<IF signed THEN "INT" ELSE "UINT", width>>

SimpleCpp == {"BOOL", "FLOAT", "DOUBLE", "BYTES", "STRING", "BIT_BUFFER", "ENUM", "BITMASK",
              "STRUCT", "CHOICE", "UNION", "SQL_TABLE", "SQL_DATABASE", "SERVICE", "PUBSUB"}

CppTypes == ({"INT", "UINT"} \X StdWidths) \union (SimpleCpp \X {0})

SignedVar == {"VARINT16", "VARINT32", "VARINT64", "VARINT"}

UnsignedVar == {"VARUINT16", "VARUINT32", "VARUINT64", "VARUINT", "VARSIZE"}

Dynamic == {"DYNAMIC_SIGNED_BITFIELD", "DYNAMIC_UNSIGNED_BITFIELD"}

Floats == {"FLOAT16", "FLOAT32", "FLOAT64"}

Named == {"BOOL", "BYTES", "STRING", "EXTERN", "ENUM", "BITMASK", "STRUCT", "CHOICE", "UNION",
          "SQL_TABLE", "SQL_DATABASE", "SERVICE", "PUBSUB"}

FixedInts(name) == {name} \X (1..64)

Simple(names) == names \X {0}

SchemaTypes ==
    FixedInts("INT") \union FixedInts("UINT")
        \union Simple(SignedVar \union UnsignedVar \union Dynamic \union Floats \union Named)
-----------------------------------------------------------------------------
(* TypeInfoUtil: one switch over the schema types and one over the C++       *)
(* types for every question.                                               *)

Compounds == Simple({"STRUCT", "CHOICE", "UNION"})

isCompoundSchema(s) == s \in Compounds

isCompoundCpp(c) == c \in Compounds

hasChoiceSchema(s) == s \in Simple({"CHOICE", "UNION"})

hasChoiceCpp(c) == c \in Simple({"CHOICE", "UNION"})

isFixedSizeSchema(s) ==
    s \in FixedInts("INT") \union FixedInts("UINT") \union Simple({"BOOL"} \union Floats)

isFixedSizeCpp(c) == c \in ({"INT", "UINT"} \X StdWidths) \union Simple({"BOOL", "FLOAT", "DOUBLE"})

isIntegralSchema(s) ==
    s \in FixedInts("INT") \union FixedInts("UINT")
            \union Simple({"BOOL"} \union SignedVar \union UnsignedVar \union Dynamic)

isIntegralCpp(c) == c \in ({"INT", "UINT"} \X StdWidths) \union Simple({"BOOL"})

isSignedSchema(s) ==
    s \in FixedInts("INT") \union Simple(SignedVar \union {"DYNAMIC_SIGNED_BITFIELD"} \union Floats)

isSignedCpp(c) == c \in ({"INT"} \X StdWidths) \union Simple({"FLOAT", "DOUBLE"})

isFloatingPointSchema(s) == s \in Simple(Floats)

isFloatingPointCpp(c) == c \in Simple({"FLOAT", "DOUBLE"})
-----------------------------------------------------------------------------
(* ITypeInfo: which getters are meant for which types.                       *)

AlwaysAnswered == {"getSchemaType", "getCppType"}

FixedSizeGetters == {"getBitSize"}

CompoundGetters == {"getFields", "getParameters", "getFunctions"}

ChoiceGetters == {"getSelector", "getCases"}

UnderlyingGetters == {"getUnderlyingType"}

EnumGetters == {"getEnumItems"}

BitmaskGetters == {"getBitmaskValues"}

SqlTableGetters == {"getColumns", "getSqlConstraint", "getVirtualTableUsing", "isWithoutRowId"}

SqlDatabaseGetters == {"getTables"}

TemplatableGetters == {"getTemplateName", "getTemplateArguments"}

PubsubGetters == {"getMessages"}

ServiceGetters == {"getMethods"}

\* The getters meant for a schema type; all others throw.
MeantFor(s) ==
    AlwaysAnswered
        \union (IF isFixedSizeSchema(s) THEN FixedSizeGetters ELSE {})
        \union (IF isCompoundSchema(s) THEN CompoundGetters \union TemplatableGetters ELSE {})
        \union (CASE s[1] = "CHOICE" -> ChoiceGetters
                  [] s[1] = "ENUM" -> UnderlyingGetters \union EnumGetters
                  [] s[1] = "BITMASK" -> UnderlyingGetters \union BitmaskGetters
                  [] s[1] = "SQL_TABLE" -> SqlTableGetters \union TemplatableGetters
                  [] s[1] = "SQL_DATABASE" -> SqlDatabaseGetters
                  [] s[1] = "PUBSUB" -> PubsubGetters
                  [] s[1] = "SERVICE" -> ServiceGetters
                  [] OTHER -> {})
-----------------------------------------------------------------------------
(* TypeInfoBase keeps the types; a derived class overrides further getters.   *)

TypeInfoBase(schemaType, cppType) == [getSchemaType |-> schemaType, getCppType |-> cppType]

\* A getter that the class of the object does not override throws.
Answers(typeInfo, getter) == getter \in DOMAIN typeInfo

(* The built-in types.                                                     *)

Builtin(schemaType, cppType) == TypeInfoBase(schemaType, cppType)

FixedSizeBuiltin(schemaType, cppType, bitSize) ==
    TypeInfoBase(schemaType, cppType) @@ [getBitSize |-> bitSize]

\* The two tables of 64 bit fields, indexed by the size less one.
getFixedBitField(signed, bitSize) ==
    FixedSizeBuiltin(CppInt(signed, bitSize), CppInt(signed, StdWidth(bitSize)), bitSize)

\* A dynamic bit field is known by the C++ type of its values only.
getDynamicBitField(signed, width) ==
    Builtin(<<IF signed THEN "DYNAMIC_SIGNED_BITFIELD" ELSE "DYNAMIC_UNSIGNED_BITFIELD", 0>>,
            CppInt(signed, width))

VarWidth == [VARINT16 |-> 16, VARINT32 |-> 32, VARINT64 |-> 64, VARINT |-> 64,
             VARUINT16 |-> 16, VARUINT32 |-> 32, VARUINT64 |-> 64, VARUINT |-> 64, VARSIZE |-> 32]

VarTypeInfo(name) == Builtin(<<name, 0>>, CppInt(name \in SignedVar, VarWidth[name]))

BoolTypeInfo == FixedSizeBuiltin(<<"BOOL", 0>>, <<"BOOL", 0>>, 1)

FloatTypeInfos ==
    {FixedSizeBuiltin(<<"FLOAT16", 0>>, <<"FLOAT", 0>>, 16),
     FixedSizeBuiltin(<<"FLOAT32", 0>>, <<"FLOAT", 0>>, 32),
     FixedSizeBuiltin(<<"FLOAT64", 0>>, <<"DOUBLE", 0>>, 64)}

BytesTypeInfo == Builtin(<<"BYTES", 0>>, <<"BYTES", 0>>)

StringTypeInfo == Builtin(<<"STRING", 0>>, <<"STRING", 0>>)

ExternTypeInfo == Builtin(<<"EXTERN", 0>>, <<"BIT_BUFFER", 0>>)

BuiltinTypeInfos ==
    {getFixedBitField(signed, n) : signed \in BOOLEAN, n \in 1..64}
        \union {getDynamicBitField(signed, w) : signed \in BOOLEAN, w \in StdWidths}
        \union {VarTypeInfo(name) : name \in SignedVar \union UnsignedVar}
        \union FloatTypeInfos
        \union {BoolTypeInfo, BytesTypeInfo, StringTypeInfo, ExternTypeInfo}
-----------------------------------------------------------------------------
(* The types of a schema. "fields" is a sequence of FieldInfo; "items" a     *)
(* sequence of ItemInfo.                                                   *)

FieldInfo(name, type, isArray, isOptional, isExtended) ==
    [schemaName |-> name, typeInfo |-> type, isArray |-> isArray, isOptional |-> isOptional,
     isExtended |-> isExtended]

ItemInfo(name, value) == [schemaName |-> name, value |-> value]

ParameterInfo(name, type) == [schemaName |-> name, typeInfo |-> type]

FunctionInfo(name, type) == [schemaName |-> name, typeInfo |-> type]

CaseInfo(expressions, field) == [caseExpressions |-> expressions, field |-> field]

Templatable(schemaType, cppType, templateName, templateArguments) ==
    TypeInfoBase(schemaType, cppType)
        @@ [getTemplateName |-> templateName, getTemplateArguments |-> templateArguments]

\* The kinds of compounds pass their own kind twice; none of those modelled is a template.
CompoundTypeInfo(kind, fields, parameters, functions) ==
    Templatable(<<kind, 0>>, <<kind, 0>>, "", <<>>)
        @@ [getFields |-> fields, getParameters |-> parameters, getFunctions |-> functions]

StructTypeInfo(fields, parameters, functions) ==
    CompoundTypeInfo("STRUCT", fields, parameters, functions)

UnionTypeInfo(fields, parameters, functions) ==
    CompoundTypeInfo("UNION", fields, parameters, functions)

ChoiceTypeInfo(fields, parameters, functions, selector, cases) ==
    CompoundTypeInfo("CHOICE", fields, parameters, functions)
        @@ [getSelector |-> selector, getCases |-> cases]

WithUnderlyingType(kind, underlying) ==
    TypeInfoBase(<<kind, 0>>, <<kind, 0>>) @@ [getUnderlyingType |-> underlying]

EnumTypeInfo(underlying, items) == WithUnderlyingType("ENUM", underlying) @@ [getEnumItems |-> items]

BitmaskTypeInfo(underlying, values) ==
    WithUnderlyingType("BITMASK", underlying) @@ [getBitmaskValues |-> values]

SqlTableTypeInfo(columns, constraint, virtual, withoutRowId) ==
    Templatable(<<"SQL_TABLE", 0>>, <<"SQL_TABLE", 0>>, "", <<>>)
        @@ [getColumns |-> columns, getSqlConstraint |-> constraint, getVirtualTableUsing |-> virtual,
            isWithoutRowId |-> withoutRowId]

SqlDatabaseTypeInfo(tables) ==
    TypeInfoBase(<<"SQL_DATABASE", 0>>, <<"SQL_DATABASE", 0>>) @@ [getTables |-> tables]

PubsubTypeInfo(messages) == TypeInfoBase(<<"PUBSUB", 0>>, <<"PUBSUB", 0>>) @@ [getMessages |-> messages]

ServiceTypeInfo(methods) == TypeInfoBase(<<"SERVICE", 0>>, <<"SERVICE", 0>>) @@ [getMethods |-> methods]

\* RecursiveTypeInfo: every getter asks the type information of the name it was made for.
Info(types, type) == types[type]
-----------------------------------------------------------------------------
\* Whether the tables, the switches over the schema types, the switches over the C++ types and the
\* getters a class overrides say the same of a type.
SaysTheSame(typeInfo) ==
    LET s == typeInfo.getSchemaType
        c == typeInfo.getCppType
    IN  /\ s \in SchemaTypes /\ c \in CppTypes
        /\ DOMAIN typeInfo = MeantFor(s)
        /\ isIntegralSchema(s) <=> isIntegralCpp(c)
        /\ isSignedSchema(s) <=> isSignedCpp(c)
        /\ isFloatingPointSchema(s) <=> isFloatingPointCpp(c)
        /\ isCompoundSchema(s) <=> isCompoundCpp(c)
        /\ hasChoiceSchema(s) <=> hasChoiceCpp(c)
        /\ isFixedSizeSchema(s) => isFixedSizeCpp(c)
        /\ isFixedSizeSchema(s) /\ c[2] # 0 =>
              /\ typeInfo.getBitSize <= c[2]
              /\ typeInfo.getBitSize > 8 => 2 * typeInfo.getBitSize > c[2]
=============================================================================
