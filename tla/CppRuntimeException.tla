-------------------------- MODULE CppRuntimeException --------------------------
(* CppRuntimeException: its message is in a buffer of fixed size, to which      *)
(* everything that is inserted is appended, as far as there is room. Exceptions *)
(* are copied when they are thrown and caught, and one is made from another's   *)
(* message.                                                                *)
EXTENDS Integers, Sequences

CONSTANTS
    Size,           \* of the buffer
    Char, Nul,
    Exceptions,     \* where exceptions may be
    CStrings,       \* C strings: sequences of characters without Nul
    Views,          \* string views and strings, with any characters
    IntegerTexts,   \* what convertIntToString returns for the integers that are inserted
    FloatTexts,     \* and convertFloatToString: records [integer, floating]
    NoText,         \* of a float without a floating part
    Dot, VectorBegin, VectorEnd,    \* literals
    MaxSaid         \* bound of the model: nothing is inserted behind that many characters

CString == Seq(Char \ {Nul})

ASSUME SizeAssumption == Size \in Nat \ {0}

ASSUME TextAssumption ==
    /\ Nul \in Char
    /\ \A text \in CStrings \union IntegerTexts \union {Dot, VectorBegin, VectorEnd} : text \in CString
    /\ \A f \in FloatTexts : f.integer \in CString /\ (f.floating \in CString \/ f.floating = NoText)
    /\ \A view \in Views : view \in Seq(Char)

ASSUME BoundAssumption == MaxSaid \in Nat

VARIABLES
    exceptions,
    said        \* history: everything that was inserted into each of them

exceptionVars == <<exceptions, said>>

-----------------------------------------------------------------------------
MinOf(m, n) == IF m <= n THEN m ELSE n

Constructed == [m_buffer |-> [i \in 0..(Size - 1) |-> Nul], m_len |-> 0]

\* Mutant of available: without the terminator.
availableToTheEnd(x) == Size - x.m_len

\* One character is for the terminator.
available(x) == Size - 1 - x.m_len

appendImpl(x, text) ==
    LET len == x.m_len + Len(text)
    IN  [m_buffer |-> [i \in 0..(Size - 1) |->
                         IF i = len THEN Nul
                         ELSE IF i \in x.m_len..(len - 1) THEN text[i - x.m_len + 1] ELSE x.m_buffer[i]],
         m_len |-> len]

\* Both overloads: the length of the message is given, or searched for as far as there is room.
appendMessage(x, text) == appendImpl(x, SubSeq(text, 1, MinOf(Len(text), available(x))))

\* what() is a C string, up to the first Nul.
IsWhat(text, x) ==
    \E n \in 0..(Size - 1) :
        /\ x.m_buffer[n] = Nul /\ \A i \in 0..(n - 1) : x.m_buffer[i] # Nul
        /\ text = [i \in 1..n |-> x.m_buffer[i - 1]]

WhatTexts(x) == {text \in {[i \in 1..n |-> x.m_buffer[i - 1]] : n \in 0..(Size - 1)} : IsWhat(text, x)}

-----------------------------------------------------------------------------
InitException ==
    /\ exceptions = [e \in Exceptions |-> Constructed]
    /\ said = [e \in Exceptions |-> <<>>]

\* e becomes x, into which all was inserted.
Become(e, x, all) ==
    /\ exceptions' = [exceptions EXCEPT ![e] = x]
    /\ said' = [said EXCEPT ![e] = all]

HasRoom(e) == Len(said[e]) < MaxSaid

Insert(e, text) == HasRoom(e) /\ Become(e, appendMessage(exceptions[e], text), said[e] \o text)

Construct(e) == \E text \in CStrings : Become(e, appendMessage(Constructed, text), text)

InsertText(e) == \E text \in CStrings : Insert(e, text)

InsertView(e) == \E view \in Views : Insert(e, view)

InsertInteger(e) == \E text \in IntegerTexts : Insert(e, text)

Insert3(e, first, second, third) ==
    /\ HasRoom(e)
    /\ Become(e, appendMessage(appendMessage(appendMessage(exceptions[e], first), second), third), said[e] \o first \o second \o third)

InsertFloat(e) ==
    \E f \in FloatTexts :
        IF f.floating = NoText THEN Insert(e, f.integer) ELSE Insert3(e, f.integer, Dot, f.floating)

\* operator<< of a vector inserts its size.
InsertVector(e) == \E size \in IntegerTexts : Insert3(e, VectorBegin, size, VectorEnd)

\* The array is copied by the copies and the moves.
Copy(e, f) == Become(e, exceptions[f], said[f])

\* An exception with the message of another.
ConstructFromWhat(e, f) == \E text \in WhatTexts(exceptions[f]) : Become(e, appendMessage(Constructed, text), text)

\* Also its own.
InsertWhat(e, f) == \E text \in WhatTexts(exceptions[f]) : Insert(e, text)

NextException ==
    \E e \in Exceptions :
        \/ Construct(e) \/ InsertText(e) \/ InsertView(e) \/ InsertInteger(e) \/ InsertFloat(e) \/ InsertVector(e)
        \/ \E f \in Exceptions : Copy(e, f) \/ ConstructFromWhat(e, f) \/ InsertWhat(e, f)

SpecException == InitException /\ [][NextException]_exceptionVars

-----------------------------------------------------------------------------
Exception == [m_buffer : [0..(Size - 1) -> Char], m_len : 0..(Size - 1)]

ExceptionsTypeOK == exceptions \in [Exceptions -> Exception] /\ said \in [Exceptions -> Seq(Char)]

Holds(x, all) ==
    /\ x.m_len = MinOf(Len(all), Size - 1)
    /\ \A i \in 0..(x.m_len - 1) : x.m_buffer[i] = all[i + 1]
    /\ x.m_buffer[x.m_len] = Nul

\* The buffer of an exception holds what was inserted, cut where it is full, and a terminator: once
\* something was cut nothing is appended behind, whatever was inserted, copied or read in between.
MessageHeld == \A e \in Exceptions : Holds(exceptions[e], said[e])
=============================================================================
