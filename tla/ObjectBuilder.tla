---------------------------- MODULE ObjectBuilder ----------------------------
(***************************************************************************)
(* What a creator of objects promises: an object is built by a cursor. The   *)
(* cursor is a path in the object; a step goes one key down, one key up, or  *)
(* changes what is at one key below the cursor. All that is elsewhere stays. *)
(*                                                                         *)
(***************************************************************************)
EXTENDS DataTree

VARIABLES
    open,     \* whether an object is being built
    cursor,   \* the path of the thing that is built now
    doc       \* the object, Null outside of one

vars == <<open, cursor, doc>>

Parent(path) == SubSeq(path, 1, Len(path) - 1)

\* Whether only what is at the path has changed. The other cases of a choice are gone.
OnlyAt(path, before, after) ==
    LET old == Get(before, Parent(path))
        new == Get(after, Parent(path))
        others == KeysOf(old) \ {path[Len(path)]}
    IN  /\ after = Put(before, Parent(path), new)
        /\ new.kind = old.kind
        /\ IF old.kind \in ChoiceKinds
           THEN KeysOf(new) = {path[Len(path)]}
           ELSE KeysOf(new) \ {path[Len(path)]} = others /\ \A key \in others : new.at[key] = old.at[key]

Open(after) ==
    /\ ~open /\ open'
    /\ cursor' = <<>>
    /\ after # Null

Close(after) ==
    /\ open /\ ~open'
    /\ cursor = <<>> /\ cursor' = <<>>
    /\ after = Null

\* What is entered exists then, new or as it was.
Down(before, after) ==
    /\ open /\ open'
    /\ Len(cursor') = Len(cursor) + 1
    /\ Parent(cursor') = cursor
    /\ Exists(after, cursor')
    /\ OnlyAt(cursor', before, after)

Up(before, after) ==
    /\ open /\ open'
    /\ cursor # <<>>
    /\ cursor' = Parent(cursor)
    /\ after = before

Change(before, after) ==
    /\ open /\ open'
    /\ cursor' = cursor
    /\ \E key \in KeysOf(Get(after, cursor)) : OnlyAt(Append(cursor, key), before, after)

Init == ~open /\ cursor = <<>> /\ doc = Null

Step(before, after) ==
    \/ Open(after)
    \/ Close(after)
    \/ Down(before, after)
    \/ Up(before, after)
    \/ Change(before, after)

Next == Step(doc, doc')

Spec == Init /\ [][Next]_vars
=============================================================================
