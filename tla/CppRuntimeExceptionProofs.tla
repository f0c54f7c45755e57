----------------------- MODULE CppRuntimeExceptionProofs -----------------------
(***************************************************************************)
(* The message of an exception is held, for a buffer of any size and any   *)
(* texts.  The invariant says it of each exception, and an append keeps it  *)
(* of one; an insertion of a float or a vector is three appends.           *)
(***************************************************************************)
EXTENDS CppRuntimeException, TLAPS

\* An exception in order, into which all was inserted.
Held(x, all) == x \in Exception /\ all \in Seq(Char) /\ Holds(x, all)

ExceptionInv == ExceptionsTypeOK /\ MessageHeld

LEMMA CStringsAreTexts == CString \subseteq Seq(Char)
  BY DEF CString

\* The beginning of a text is one, too.
LEMMA Beginning ==
  ASSUME NEW text \in Seq(Char), NEW n \in 0..Len(text)
  PROVE  /\ SubSeq(text, 1, n) \in Seq(Char)
         /\ Len(SubSeq(text, 1, n)) = n
         /\ \A i \in 1..n : SubSeq(text, 1, n)[i] = text[i]
  OBVIOUS

\* appendImpl keeps what is in the buffer and puts the text behind it.
LEMMA AppendImplHeld ==
  ASSUME NEW x \in Exception, NEW text \in Seq(Char), x.m_len + Len(text) <= Size - 1,
         NEW y, y = appendImpl(x, text)
  PROVE  /\ y \in Exception
         /\ y.m_len = x.m_len + Len(text)
         /\ \A i \in 0..(x.m_len - 1) : y.m_buffer[i] = x.m_buffer[i]
         /\ \A i \in x.m_len..(y.m_len - 1) : y.m_buffer[i] = text[i - x.m_len + 1]
         /\ y.m_buffer[y.m_len] = Nul
  <1> DEFINE len == x.m_len + Len(text)
  <1>1. x.m_len \in 0..(Size - 1) /\ x.m_buffer \in [0..(Size - 1) -> Char] /\ Len(text) \in Nat
    BY DEF Exception
  <1>2. len \in 0..(Size - 1)
    BY <1>1, SizeAssumption
  <1>3. y.m_len = len
    BY DEF appendImpl
  <1>4. y.m_buffer = [i \in 0..(Size - 1) |->
                        IF i = len THEN Nul
                        ELSE IF i \in x.m_len..(len - 1) THEN text[i - x.m_len + 1] ELSE x.m_buffer[i]]
    BY DEF appendImpl
  <1>5. \A i \in x.m_len..(len - 1) : text[i - x.m_len + 1] \in Char
    BY <1>1
  <1>6. y.m_buffer \in [0..(Size - 1) -> Char]
    BY <1>1, <1>4, <1>5, TextAssumption
  <1>7. y \in Exception
    BY <1>2, <1>3, <1>6 DEF appendImpl, Exception
  <1>8. \A i \in 0..(Size - 1) :
          y.m_buffer[i] = IF i = len THEN Nul
                          ELSE IF i \in x.m_len..(len - 1) THEN text[i - x.m_len + 1] ELSE x.m_buffer[i]
    BY <1>4
  <1> HIDE DEF len
  <1>9. len >= x.m_len
    BY <1>1 DEF len
  <1>10. \A i \in 0..(x.m_len - 1) : y.m_buffer[i] = x.m_buffer[i]
    BY <1>1, <1>2, <1>8, <1>9, SizeAssumption
  <1>11. \A i \in x.m_len..(len - 1) : y.m_buffer[i] = text[i - x.m_len + 1]
    BY <1>1, <1>2, <1>8, SizeAssumption
  <1>12. y.m_buffer[len] = Nul
    BY <1>2, <1>8
  <1> QED
    BY <1>3, <1>7, <1>10, <1>11, <1>12 DEF len

\* An append of any length keeps an exception in order.
LEMMA AppendHeld ==
  ASSUME NEW x, NEW all, Held(x, all), NEW text \in Seq(Char)
  PROVE  Held(appendMessage(x, text), all \o text)
  <1> DEFINE n == MinOf(Len(text), available(x))
             kept == SubSeq(text, 1, n)
             y == appendImpl(x, kept)
  <1>1. x \in Exception /\ all \in Seq(Char) /\ Holds(x, all)
    BY DEF Held
  <1>2. x.m_len \in 0..(Size - 1) /\ Len(all) \in Nat /\ Len(text) \in Nat
    BY <1>1 DEF Exception
  <1>3. n \in 0..Len(text) /\ x.m_len + n <= Size - 1
    BY <1>2, SizeAssumption DEF MinOf, available
  <1>4. kept \in Seq(Char) /\ Len(kept) = n /\ \A i \in 1..n : kept[i] = text[i]
    BY <1>3, Beginning
  <1> HIDE DEF n, kept, y
  <1>5. /\ y \in Exception
        /\ y.m_len = x.m_len + n
        /\ \A i \in 0..(x.m_len - 1) : y.m_buffer[i] = x.m_buffer[i]
        /\ \A i \in x.m_len..(y.m_len - 1) : y.m_buffer[i] = kept[i - x.m_len + 1]
        /\ y.m_buffer[y.m_len] = Nul
    <2>1. x.m_len + Len(kept) <= Size - 1
      BY <1>3, <1>4
    <2> QED
      BY <1>1, <1>3, <1>4, <2>1, AppendImplHeld DEF y
  <1>6. all \o text \in Seq(Char) /\ Len(all \o text) = Len(all) + Len(text)
    BY <1>1
  <1>7. x.m_len = MinOf(Len(all), Size - 1)
    BY <1>1 DEF Holds
  <1>8. y.m_len = MinOf(Len(all \o text), Size - 1)
    BY <1>2, <1>5, <1>6, <1>7, SizeAssumption DEF n, MinOf, available
  <1>9. ASSUME NEW i \in 0..(y.m_len - 1)
        PROVE  y.m_buffer[i] = (all \o text)[i + 1]
    <2>1. CASE i < x.m_len
      <3>1. i \in 0..(x.m_len - 1)
        BY <1>2, <2>1
      <3>3. y.m_buffer[i] = all[i + 1]
        BY <1>1, <1>5, <3>1 DEF Holds
      <3>2. i + 1 \in 1..Len(all)
        BY <1>2, <1>7, <2>1, SizeAssumption DEF MinOf
      <3> QED
        BY <1>1, <3>2, <3>3
    <2>2. CASE ~(i < x.m_len)
      <3> DEFINE m == y.m_len
      <3>1. i \in x.m_len..(m - 1) /\ i - x.m_len + 1 \in 1..n
        <4>1. m = x.m_len + n /\ i \in 0..(m - 1)
          BY <1>5
        <4> HIDE DEF m
        <4> QED
          BY <1>2, <1>3, <2>2, <4>1
      <3>2. y.m_buffer[i] = text[i - x.m_len + 1]
        BY <1>4, <1>5, <3>1
      <3>3. x.m_len = Len(all)
        <4>1. n >= 1 /\ n \in Nat
          <5> HIDE DEF m
          <5> QED
            BY <1>2, <1>3, <3>1
        <4> QED
          BY <1>2, <1>3, <1>7, <4>1, SizeAssumption DEF MinOf
      <3>4. i + 1 = Len(all) + (i - x.m_len + 1) /\ i - x.m_len + 1 \in 1..Len(text)
        BY <1>2, <1>3, <3>1, <3>3
      <3> QED
        BY <1>1, <3>2, <3>3, <3>4
    <2> QED
      BY <2>1, <2>2
  <1>10. Holds(y, all \o text)
    BY <1>5, <1>8, <1>9 DEF Holds
  <1> QED
    BY <1>5, <1>6, <1>10 DEF Held, appendMessage, n, kept, y

\* An exception is constructed without a message.
LEMMA ConstructedHeld == Held(Constructed, <<>>)
  BY SizeAssumption, TextAssumption DEF Held, Holds, Constructed, Exception, MinOf

\* What what() returns is a text.
LEMMA WhatIsText ==
  ASSUME NEW x \in Exception, NEW text \in WhatTexts(x)
  PROVE  text \in Seq(Char)
  <1>1. PICK n \in 0..(Size - 1) : text = [i \in 1..n |-> x.m_buffer[i - 1]]
    BY DEF WhatTexts
  <1>2. \A i \in 1..n : x.m_buffer[i - 1] \in Char
    BY SizeAssumption DEF Exception
  <1>3. text \in [1..n -> Char] /\ n \in Nat
    BY <1>1, <1>2, SizeAssumption
  <1> QED
    BY <1>3

\* An exception that becomes one in order leaves the others as they are.
LEMMA BecomeKeepsInv ==
  ASSUME ExceptionInv, NEW e \in Exceptions, NEW x, NEW all, Held(x, all), Become(e, x, all)
  PROVE  ExceptionInv'
  <1>1. ExceptionsTypeOK'
    BY DEF ExceptionInv, ExceptionsTypeOK, Become, Held
  <1>2. ASSUME NEW f \in Exceptions PROVE Holds(exceptions[f], said[f])'
    <2>1. CASE f = e
      BY <2>1 DEF ExceptionInv, ExceptionsTypeOK, Become, Held
    <2>2. CASE f # e
      <3>1. exceptions'[f] = exceptions[f] /\ said'[f] = said[f]
        BY <2>2 DEF ExceptionInv, ExceptionsTypeOK, Become
      <3>2. Holds(exceptions[f], said[f])
        BY DEF ExceptionInv, MessageHeld
      <3> QED
        BY <3>1, <3>2 DEF Holds
    <2> QED
      BY <2>1, <2>2
  <1>3. MessageHeld'
    BY <1>2 DEF MessageHeld
  <1> QED
    BY <1>1, <1>3 DEF ExceptionInv

LEMMA EachHeld ==
  ASSUME ExceptionInv, NEW e \in Exceptions
  PROVE  Held(exceptions[e], said[e])
  BY DEF ExceptionInv, ExceptionsTypeOK, MessageHeld, Held

LEMMA InsertKeepsInv ==
  ASSUME ExceptionInv, NEW e \in Exceptions, NEW text \in Seq(Char), Insert(e, text)
  PROVE  ExceptionInv'
  <1>1. Held(appendMessage(exceptions[e], text), said[e] \o text)
    BY EachHeld, AppendHeld
  <1> QED
    BY <1>1, BecomeKeepsInv DEF Insert

LEMMA Insert3KeepsInv ==
  ASSUME ExceptionInv, NEW e \in Exceptions, NEW first \in Seq(Char), NEW second \in Seq(Char),
         NEW third \in Seq(Char), Insert3(e, first, second, third)
  PROVE  ExceptionInv'
  <1>1. Held(appendMessage(exceptions[e], first), said[e] \o first)
    BY EachHeld, AppendHeld
  <1>2. Held(appendMessage(appendMessage(exceptions[e], first), second), said[e] \o first \o second)
    BY <1>1, AppendHeld
  <1>3. Held(appendMessage(appendMessage(appendMessage(exceptions[e], first), second), third),
             said[e] \o first \o second \o third)
    BY <1>2, AppendHeld
  <1> QED
    BY <1>3, BecomeKeepsInv DEF Insert3

LEMMA ConstructKeepsInv ==
  ASSUME ExceptionInv, NEW e \in Exceptions, NEW text \in Seq(Char),
         Become(e, appendMessage(Constructed, text), text)
  PROVE  ExceptionInv'
  <1>1. Held(appendMessage(Constructed, text), <<>> \o text)
    BY ConstructedHeld, AppendHeld
  <1>2. <<>> \o text = text
    OBVIOUS
  <1>3. Held(appendMessage(Constructed, text), text)
    BY <1>1, <1>2
  <1> QED
    BY <1>3, BecomeKeepsInv

LEMMA ExceptionInit == InitException => ExceptionInv
  <1> SUFFICES ASSUME InitException PROVE ExceptionInv
    OBVIOUS
  <1>1. ASSUME NEW e \in Exceptions PROVE Held(exceptions[e], said[e])
    BY ConstructedHeld DEF InitException
  <1> QED
    BY <1>1 DEF InitException, ExceptionInv, ExceptionsTypeOK, MessageHeld, Held

LEMMA ExceptionStep == ExceptionInv /\ [NextException]_exceptionVars => ExceptionInv'
  <1> SUFFICES ASSUME ExceptionInv, [NextException]_exceptionVars PROVE ExceptionInv'
    OBVIOUS
  <1> USE CStringsAreTexts, TextAssumption
  <1>1. CASE UNCHANGED exceptionVars
    BY <1>1 DEF exceptionVars, ExceptionInv, ExceptionsTypeOK, MessageHeld, Holds
  <1>2. ASSUME NEW e \in Exceptions, Construct(e) PROVE ExceptionInv'
    <2>1. PICK text \in CStrings : Become(e, appendMessage(Constructed, text), text)
      BY <1>2 DEF Construct
    <2> QED
      BY <2>1, ConstructKeepsInv
  <1>3. ASSUME NEW e \in Exceptions, InsertText(e) PROVE ExceptionInv'
    BY <1>3, InsertKeepsInv DEF InsertText
  <1>4. ASSUME NEW e \in Exceptions, InsertView(e) PROVE ExceptionInv'
    BY <1>4, InsertKeepsInv DEF InsertView
  <1>5. ASSUME NEW e \in Exceptions, InsertInteger(e) PROVE ExceptionInv'
    BY <1>5, InsertKeepsInv DEF InsertInteger
  <1>6. ASSUME NEW e \in Exceptions, InsertFloat(e) PROVE ExceptionInv'
    <2>1. PICK f \in FloatTexts :
            IF f.floating = NoText THEN Insert(e, f.integer) ELSE Insert3(e, f.integer, Dot, f.floating)
      BY <1>6 DEF InsertFloat
    <2>2. CASE f.floating = NoText
      BY <2>1, <2>2, InsertKeepsInv
    <2>3. CASE f.floating # NoText
      BY <2>1, <2>3, Insert3KeepsInv
    <2> QED
      BY <2>2, <2>3
  <1>7. ASSUME NEW e \in Exceptions, InsertVector(e) PROVE ExceptionInv'
    BY <1>7, Insert3KeepsInv DEF InsertVector
  <1>8. ASSUME NEW e \in Exceptions, NEW f \in Exceptions, Copy(e, f) PROVE ExceptionInv'
    BY <1>8, EachHeld, BecomeKeepsInv DEF Copy
  <1>9. ASSUME NEW e \in Exceptions, NEW f \in Exceptions, ConstructFromWhat(e, f) PROVE ExceptionInv'
    <2>1. exceptions[f] \in Exception
      BY EachHeld DEF Held
    <2>2. PICK text \in WhatTexts(exceptions[f]) : Become(e, appendMessage(Constructed, text), text)
      BY <1>9 DEF ConstructFromWhat
    <2> QED
      BY <2>1, <2>2, WhatIsText, ConstructKeepsInv
  <1>10. ASSUME NEW e \in Exceptions, NEW f \in Exceptions, InsertWhat(e, f) PROVE ExceptionInv'
    <2>1. exceptions[f] \in Exception
      BY EachHeld DEF Held
    <2>2. PICK text \in WhatTexts(exceptions[f]) : Insert(e, text)
      BY <1>10 DEF InsertWhat
    <2> QED
      BY <2>1, <2>2, WhatIsText, InsertKeepsInv
  <1> QED
    BY <1>1, <1>2, <1>3, <1>4, <1>5, <1>6, <1>7, <1>8, <1>9, <1>10 DEF NextException

\* Every exception holds what was inserted into it, cut where its buffer is full, and a terminator
\* inside of the buffer, whatever the size of the buffer and the texts (MessageHeld).
THEOREM ExceptionMessageHeld == SpecException => []MessageHeld
  <1>1. ExceptionInv => MessageHeld
    BY DEF ExceptionInv
  <1> QED
    BY <1>1, ExceptionInit, ExceptionStep, PTL DEF SpecException
================================================================================
