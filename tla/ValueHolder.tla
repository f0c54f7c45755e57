------------------------------ MODULE ValueHolder ------------------------------
(***************************************************************************)
(* What Variant and Optional promise, whatever allocators they have and       *)
(* wherever they keep a value: a container holds one content or none; a call   *)
(* does what it says to the containers it names and leaves the others alone;   *)
(* a call that throws leaves the one it was about without a value, or not      *)
(* constructed.                                                              *)
(***************************************************************************)
CONSTANTS
    Slots,      \* where containers may be
    Indexes,
    Values,
    Moved       \* a value that was moved from

VARIABLES
    contents,   \* of each slot
    call        \* the last call: its name, the containers, the content it was given, and whether it threw

holderVars == <<contents, call>>

Content(index, value) == [holds |-> "value", index |-> index, value |-> value]

Contents == {Content(i, v) : i \in Indexes, v \in Values}

Empty == [holds |-> "empty"]

NotThere == [holds |-> "nothing"]

\* A content that no call may touch but to hand it on.
Undefined == [holds |-> "undefined"]

Call(operation, to, from, content, thrown) ==
    [operation |-> operation, to |-> to, from |-> from, content |-> content, thrown |-> thrown]

Init ==
    /\ contents = [p \in Slots |-> NotThere]
    /\ call.operation = "none"

With(p, content) == contents' = [contents EXCEPT ![p] = content]

\* A constructor, an assignment or emplace, with a value.
Put(p, content) == call' = Call("put", p, p, content, FALSE) /\ With(p, content)

Reset(p) == call' = Call("reset", p, p, Empty, FALSE) /\ With(p, Empty)

Destroy(p) == call' = Call("destroy", p, p, Empty, FALSE) /\ With(p, NotThere)

Copy(p, o) ==
    /\ contents[o] # NotThere
    /\ call' = Call("copy", p, o, Empty, FALSE)
    /\ With(p, contents[o])

\* What is left where a value was moved from.
Left(content) == IF content.holds = "value" THEN {Empty, Content(content.index, Moved)} ELSE {Empty}

Move(p, o) ==
    /\ contents[o] # NotThere /\ p # o
    /\ call' = Call("move", p, o, Empty, FALSE)
    /\ \E left \in Left(contents[o]) : contents' = [contents EXCEPT ![p] = contents[o], ![o] = left]

\* A move assignment to itself does nothing.
MoveToItself(p) == call' = Call("move", p, p, Empty, FALSE) /\ contents[p] # NotThere /\ UNCHANGED contents

Swap(p, o) ==
    /\ call' = Call("swap", p, o, Empty, FALSE)
    /\ contents' = [contents EXCEPT ![p] = contents[o], ![o] = contents[p]]

Throw(p, o) ==
    /\ \E operation \in {"put", "copy", "move"}, content \in Contents \union {Empty} :
          call' = Call(operation, p, o, content, TRUE)
    /\ With(p, IF contents[p] = NotThere THEN NotThere ELSE Empty)

Next ==
    \E p, o \in Slots :
        \/ \E content \in Contents : Put(p, content)
        \/ Reset(p) \/ Destroy(p)
        \/ Copy(p, o) \/ Move(p, o) \/ MoveToItself(p) \/ Swap(p, o)
        \/ Throw(p, o)

Spec == Init /\ [][Next]_holderVars
-----------------------------------------------------------------------------
(* What an Any does not promise.                                           *)

\* A copy that throws may leave something undefined.
CopyThrows(p, o) ==
    /\ call' = Call("copy", p, o, Empty, TRUE)
    /\ contents[p] # NotThere /\ contents[o].holds = "value"
    /\ With(p, Undefined)

\* A swap that throws has lost the content of the one, and may have moved the other one's, whose
\* index it leaves.
SwapThrows(p, o) ==
    /\ call' = Call("swap", p, o, Empty, TRUE)
    /\ contents[p] # NotThere /\ contents[o] # NotThere
    /\ \/ With(p, Empty)
       \/ /\ contents[o].holds = "value"
          /\ \E i \in Indexes :
                /\ contents[p].holds = "value" => i = contents[p].index
                /\ contents' = [contents EXCEPT ![p] = Content(i, contents[o].value), ![o] = Empty]

AnyNext == Next \/ \E p, o \in Slots : CopyThrows(p, o) \/ SwapThrows(p, o)
=============================================================================
