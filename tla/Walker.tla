-------------------------------- MODULE Walker --------------------------------
(***************************************************************************)
(* Walker.h: visits the fields of an object in the order of the schema, and   *)
(* reports them to an observer; a filter decides what is entered and when a   *)
(* walk stops.                                                             *)
(*                                                                         *)
(* A filter is called before and after everything that is walked, and keeps   *)
(* a state of its own: the depth, the path. A path is a sequence of steps,    *)
(* a field or an element of it; a regular expression is the set of the paths *)
(* that match it. The observer is the sequence of the calls it has got.      *)
(*                                                                         *)
(* Before it the comparison of objects, from ReflectableUtil.h.            *)
(***************************************************************************)
EXTENDS Reflectable
-----------------------------------------------------------------------------
(* ReflectableUtil.h: when two reflectable objects are equal. What an         *)
(* optional field that is not set and an extended one that is absent are      *)
(* seen as is the same null; of a bit buffer the bits count, of a floating    *)
(* point number the value, where all infinities of a sign are one.           *)

IsNull(node) == node \in {Null, Absent}

\* BasicBitBuffer::operator==: the bits behind the last one are masked.
BitsEqual(lhs, rhs) ==
    LET n == lhs.bitSize
        bit(b, i) == (b.buffer[(i \div 8) + 1] \div 2 ^ (7 - (i % 8))) % 2
    IN  n = rhs.bitSize /\ \A i \in 0..(n - 1) : bit(lhs, i) = bit(rhs, i)

valuesEqual(lhs, rhs) ==
    CASE lhs.kind = <<"BIT_BUFFER", 0>> -> BitsEqual(lhs.bits, rhs.bits)
      [] OTHER -> lhs = rhs

RECURSIVE equal(_, _, _)

arraysEqual(type, lhs, rhs) ==
    Len(lhs.at) = Len(rhs.at) /\ \A i \in DOMAIN lhs.at : equal(type, lhs.at[i], rhs.at[i])

\* The choices have to be the same one, and so has its value. All fields of a structure are compared.
compoundsEqual(type, lhs, rhs) ==
    IF HasChoice(type)
    THEN /\ DOMAIN lhs.at = DOMAIN rhs.at
         /\ DOMAIN lhs.at # {} =>
                equal(FieldOf(type, getChoice(lhs)).typeInfo, getField(type, lhs, getChoice(lhs)),
                      getField(type, rhs, getChoice(lhs)))
    ELSE \A name \in FieldNames(type) :
            equal(FieldOf(type, name).typeInfo, getField(type, lhs, name), getField(type, rhs, name))

\* Of two objects of one type.
equal(type, lhs, rhs) ==
    CASE IsNull(lhs) \/ IsNull(rhs) -> IsNull(lhs) /\ IsNull(rhs)
      [] ~IsNull(lhs) /\ ~IsNull(rhs) /\ (lhs.kind = ArrayKind \/ rhs.kind = ArrayKind) ->
            lhs.kind = rhs.kind /\ arraysEqual(type, lhs, rhs)
      [] OTHER -> IF IsCompound(type) THEN compoundsEqual(type, lhs, rhs) ELSE valuesEqual(lhs, rhs)
-----------------------------------------------------------------------------
(* What is walked.                                                         *)

WALKER_NOT_ELEMENT == 0     \* elements are counted from one here

StepTo(name, index) == [name |-> name, index |-> index]

\* What the walker stands at: a field or an element of it, the object and the field's info.
At(node, field, index) == [node |-> node, field |-> field, index |-> index]

IsArrayAt(at) == ~IsNull(at.node) /\ at.field.isArray /\ at.index = WALKER_NOT_ELEMENT

IsCompoundAt(at) == ~IsNull(at.node) /\ IsCompound(at.field.typeInfo)

KindAt(at) == CASE IsArrayAt(at) -> "Array" [] ~IsArrayAt(at) /\ IsCompoundAt(at) -> "Compound" [] OTHER -> "Value"
-----------------------------------------------------------------------------
(* The filters.                                                            *)

DefaultWalkFilter == [filter |-> "default"]

DepthWalkFilter(maxDepth) == [filter |-> "depth", maxDepth |-> maxDepth, depth |-> 1]

RegexWalkFilter(pathRegex) == [filter |-> "regex", pathRegex |-> pathRegex, currentPath |-> <<>>]

SubtreeRegexWalkFilter(currentPath, pathRegex) ==
    [filter |-> "subtree", pathRegex |-> pathRegex, currentPath |-> currentPath, matches |-> FALSE]

ArrayLengthWalkFilter(maxArrayLength) == [filter |-> "length", maxArrayLength |-> maxArrayLength]

AndWalkFilter(walkFilters) == [filter |-> "and", walkFilters |-> walkFilters]

\* What a call returns, and the filter behind it.
Answer(result, filter) == [result |-> result, filter |-> filter]

BeforeDefault(f) == Answer(TRUE, f)

AfterDefault(f) == Answer(TRUE, f)

enterDepthLevel(f) == Answer(f.depth <= f.maxDepth, [f EXCEPT !.depth = @ + 1])

leaveDepthLevel(f) == Answer(TRUE, [f EXCEPT !.depth = @ - 1])

BeforeDepth(f, kind) == IF kind = "Value" THEN Answer(f.depth <= f.maxDepth, f) ELSE enterDepthLevel(f)

AfterDepth(f, kind) == IF kind = "Value" THEN Answer(TRUE, f) ELSE leaveDepthLevel(f)

filterArrayElement(f, index) == Answer(index = WALKER_NOT_ELEMENT \/ index <= f.maxArrayLength, f)

Back(path, step) == [path EXCEPT ![Len(path)] = step]

Shortened(path) == SubSeq(path, 1, Len(path) - 1)

\* The step of an element takes the place of the one of its array.
appendPath(path, at) ==
    IF at.index = WALKER_NOT_ELEMENT
    THEN Append(path, StepTo(at.field.schemaName, WALKER_NOT_ELEMENT))
    ELSE Back(path, StepTo(at.field.schemaName, at.index))

\* Mutant of popPath: an element takes its array with it.
popPathOfArray(path, at) == Shortened(path)

popPath(path, at) ==
    IF at.index = WALKER_NOT_ELEMENT
    THEN Shortened(path)
    ELSE Back(path, StepTo(at.field.schemaName, WALKER_NOT_ELEMENT))

Matches(f, path) == path \in f.pathRegex

\* The search in a subtree ends at the first match.
BeforeSubtree(f, at) ==
    LET path == appendPath(f.currentPath, at)
    IN  Answer(~Matches(f, path), [f EXCEPT !.currentPath = path, !.matches = Matches(f, path)])

AfterSubtree(f, at) == Answer(~f.matches, [f EXCEPT !.currentPath = popPath(@, at)])

RECURSIVE Before(_, _), After(_, _), walkField(_, _), walkFields(_, _, _), matchSubtree(_, _, _)

BeforeRegexArray(f, at) ==
    LET path == appendPath(f.currentPath, at)
        found == {i \in DOMAIN at.node.at :
                    matchSubtree(f, Back(path, StepTo(at.field.schemaName, i)), At(at.node.at[i], at.field, i))}
    IN  CASE Matches(f, path) -> Answer(TRUE, [f EXCEPT !.currentPath = path])
          [] ~Matches(f, path) /\ found # {} ->
                LET i == CHOOSE i \in found : \A j \in found : i <= j
                IN  Answer(TRUE, [f EXCEPT !.currentPath = Back(path, StepTo(at.field.schemaName, i))])
          [] OTHER -> Answer(FALSE, [f EXCEPT !.currentPath = path])

BeforeRegex(f, at) ==
    LET path == appendPath(f.currentPath, at)
    IN  IF IsArrayAt(at)
        THEN BeforeRegexArray(f, at)
        ELSE Answer((IsCompoundAt(at) /\ Matches(f, path)) \/ matchSubtree(f, path, at),
                    [f EXCEPT !.currentPath = path])

AfterRegex(f, at) ==
    Answer(TRUE, [f EXCEPT !.currentPath = IF IsArrayAt(at) THEN Shortened(@) ELSE popPath(@, at)])

\* applyFilters: all of the filters are called, also behind one that has refused.
AllOf(f, answers) ==
    Answer(\A i \in DOMAIN answers : answers[i].result,
           [f EXCEPT !.walkFilters = [i \in DOMAIN answers |-> answers[i].filter]])

Before(f, at) ==
    CASE f.filter = "default" -> BeforeDefault(f)
      [] f.filter = "depth" -> BeforeDepth(f, KindAt(at))
      [] f.filter = "length" -> filterArrayElement(f, at.index)
      [] f.filter = "regex" -> BeforeRegex(f, at)
      [] f.filter = "subtree" -> BeforeSubtree(f, at)
      [] f.filter = "and" -> AllOf(f, [i \in DOMAIN f.walkFilters |-> Before(f.walkFilters[i], at)])

After(f, at) ==
    CASE f.filter = "default" -> AfterDefault(f)
      [] f.filter = "depth" -> AfterDepth(f, KindAt(at))
      [] f.filter = "length" -> filterArrayElement(f, at.index)
      [] f.filter = "regex" -> AfterRegex(f, at)
      [] f.filter = "subtree" -> AfterSubtree(f, at)
      [] f.filter = "and" -> AllOf(f, [i \in DOMAIN f.walkFilters |-> After(f.walkFilters[i], at)])
-----------------------------------------------------------------------------
(* The walker.                                                             *)

\* A walk so far: the filter, the calls of the observer, and whether it goes on.
Walk(filter, calls, goOn) == [filter |-> filter, calls |-> calls, goOn |-> goOn]

Call(name, at) == [call |-> name, at |-> at]

Observed(walk, name, at) == [walk EXCEPT !.calls = Append(@, Call(name, at))]

\* The elements up to the one the filter stops at.
walkElements(walk, at) ==
    LET upTo[i \in 0..Len(at.node.at)] ==
            IF i = 0 THEN walk
            ELSE LET before == upTo[i - 1]
                 IN  IF before.goOn THEN walkField(before, At(at.node.at[i], at.field, i)) ELSE before
    IN  upTo[Len(at.node.at)]

\* What the observer is told of a field or an element that the filter lets in.
Inside(walk, at) ==
    CASE KindAt(at) = "Array" -> Observed(walkElements(Observed(walk, "beginArray", at), at), "endArray", at)
      [] KindAt(at) = "Compound" ->
            Observed(walkFields(Observed(walk, "beginCompound", at), at.field.typeInfo, at.node), "endCompound", at)
      [] OTHER -> Observed(walk, "visitValue", at)

\* walkField and walkFieldValue: the filter is asked before and after.
walkField(walk, at) ==
    LET left(walked, after) == Walk(after.filter, walked.calls, after.result)
        leave(walked) == left(walked, After(walked.filter, at))
        entered(before) == Walk(before.filter, walk.calls, before.result)
        inside(entering) == IF entering.goOn THEN Inside(entering, at) ELSE entering
    IN  leave(inside(entered(Before(walk.filter, at))))

\* The selected field of a choice, or the fields of a structure up to the one the filter stops at.
walkFields(walk, type, node) ==
    LET fields == FieldsOf(type)
        at(field) == At(getField(type, node, field.schemaName), field, WALKER_NOT_ELEMENT)
        upTo[i \in 0..Len(fields)] ==
            IF i = 0 THEN walk
            ELSE LET before == upTo[i - 1] IN IF before.goOn THEN walkField(before, at(fields[i])) ELSE before
    IN  CASE ~HasChoice(type) -> upTo[Len(fields)]
          [] HasChoice(type) /\ DOMAIN node.at # {} -> walkField(walk, at(FieldOf(type, getChoice(node))))
          [] OTHER -> walk

\* walk() with a filter: the filter behind it and the calls between beginRoot and endRoot.
walkWith(filter, type, tree) == walkFields(Walk(filter, <<>>, TRUE), type, tree)

matchSubtree(f, path, at) ==
    IF IsCompoundAt(at)
    THEN walkWith(SubtreeRegexWalkFilter(path, f.pathRegex), at.field.typeInfo, at.node).filter.matches
    ELSE Matches(f, path)

\* walk(): the root has to be a compound.
walkRoot(filter, type, tree) == IF IsNull(tree) \/ ~IsCompound(type) THEN Thrown ELSE walkWith(filter, type, tree).calls
-----------------------------------------------------------------------------
(* What a filter promises, from the paths alone.                            *)

\* The fields and the elements below an object, each with the steps to it.
PlacesIn(type, tree) ==
    LET stepOf(place, key) == IF place.isArray THEN StepTo("", key) ELSE StepTo(key, WALKER_NOT_ELEMENT)
        down(n, key) ==
            LET child == Get(tree, n.path).at[key]
            IN  [path |-> Append(n.path, key),
                 place |-> PlaceBelow(n.place, key),
                 steps |-> IF n.place.isArray THEN Back(n.steps, StepTo(n.steps[Len(n.steps)].name, key))
                                              ELSE Append(n.steps, StepTo(key, WALKER_NOT_ELEMENT)),
                 above |-> IF n.place.isArray \/ IsCompound(n.place.type) THEN n.above + 1 ELSE n.above]
        level[d \in 0..MaxDepth] ==
            IF d = 0
            THEN {[path |-> <<>>, place |-> RootPlace(type), steps |-> <<>>, above |-> 0]}
            ELSE UNION {{down(n, key) : key \in KeysOf(Get(tree, n.path))} : n \in level[d - 1]}
    IN  UNION {level[d] : d \in 1..MaxDepth}

IsBelow(inner, outer) == Len(inner.path) > Len(outer.path) /\ IsPrefix(outer.path, inner.path)

RECURSIVE Lets(_, _, _)

\* Whether a filter lets something be reported: by its depth, by its own index, or as it or something
\* below it matches.
Lets(f, places, p) ==
    CASE f.filter = "default" -> TRUE
      [] f.filter = "depth" -> p.above <= f.maxDepth
      [] f.filter = "length" -> p.steps[Len(p.steps)].index <= f.maxArrayLength
      [] f.filter = "regex" -> p.steps \in f.pathRegex \/ \E q \in places : IsBelow(q, p) /\ q.steps \in f.pathRegex
      [] f.filter = "and" -> \A i \in DOMAIN f.walkFilters : Lets(f.walkFilters[i], places, p)

\* What is reported: what the filter lets through, it and all that it is in.
Reported(f, type, tree) ==
    LET places == PlacesIn(type, tree)
    IN  {p \in places : \A q \in places : (q = p \/ IsBelow(p, q)) => Lets(f, places, q)}
=============================================================================
