----------------------------- MODULE MCCommit -----------------------------
(* An instance of Commit for TLC: a tag node with two values, one of them     *)
(* with a leaf, and a leaf with several values.                               *)
EXTENDS Commit, TLC

CONSTANTS tag, one, two, leaf, multi, v1, v2

Lies == tag :> {} @@ one :> {tag} @@ two :> {tag} @@ leaf :> {tag, one} @@ multi :> {}

Bare == [dir |-> {}, val |-> NoVal, def |-> {}]
Full == [dir |-> Node, val |-> [x \in Leaf |-> {v1}], def |-> {leaf}]
Some == [dir |-> {tag, two}, val |-> NoVal, def |-> {}]
Starts == {Bare, Full, Some}
============================================================================
