------------------------------ MODULE DataTree ------------------------------
(***************************************************************************)
(* The objects of a schema as trees, and the pointers into them.            *)
(*                                                                         *)
(* A node is a record with a kind, the C++ type:                            *)
(*   a leaf           [kind, num], [kind, str] or [kind, bits];             *)
(*   a structure      [kind, at], at a function of the names of its fields; *)
(*   a choice, union  [kind, at], the domain of at has the selected name    *)
(*                    only and is empty when nothing is selected;           *)
(*   an array         [kind, at], at a sequence;                            *)
(*   Null             an optional field that is not set;                    *)
(*   Absent           an extended field that is not present.                *)
(*                                                                         *)
(* A reflectable pointer is the path of the node it refers to, from the     *)
(* root: names and indexes.                                                *)
(***************************************************************************)
EXTENDS Integers, Sequences

NullKind == <<"NULL", 0>>

ArrayKind == <<"ARRAY", 0>>

Null == [kind |-> NullKind]

Absent == [kind |-> <<"ABSENT", 0>>]

Thrown == [kind |-> <<"THROWN", 0>>]

Num(kind, n) == [kind |-> kind, num |-> n]

Str(s) == [kind |-> <<"STRING", 0>>, str |-> s]

Bits(s) == [kind |-> <<"BIT_BUFFER", 0>>, bits |-> s]

Octets(s) == [kind |-> <<"BYTES", 0>>, bits |-> s]

Node(kind, at) == [kind |-> kind, at |-> at]

EmptyAt == [n \in {} |-> Null]

ChoiceKinds == {<<"CHOICE", 0>>, <<"UNION", 0>>}

KeysOf(node) == IF "at" \in DOMAIN node THEN DOMAIN node.at ELSE {}

Get(tree, path) ==
    LET node[i \in 0..Len(path)] == IF i = 0 THEN tree ELSE node[i - 1].at[path[i]]
    IN  node[Len(path)]

\* The tree with the node at a path replaced.
Put(tree, path, node) ==
    LET put[i \in 0..Len(path)] ==
            IF i = Len(path)
            THEN node
            ELSE [Get(tree, SubSeq(path, 1, i)) EXCEPT !.at[path[i + 1]] = put[i + 1]]
    IN  put[0]

Exists(tree, path) ==
    \A i \in 1..Len(path) :
        LET parent == Get(tree, SubSeq(path, 1, i - 1))
        IN  "at" \in DOMAIN parent /\ path[i] \in DOMAIN parent.at
=============================================================================
