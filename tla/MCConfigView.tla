--------------------------- MODULE MCConfigView ---------------------------
(* An instance of ConfigView for TLC: a tag node with a value that has a     *)
(* leaf with several values.                                                 *)
EXTENDS ConfigView, TLC

CONSTANTS tag, one, leaf, v1, v2

Lies == tag :> {} @@ one :> {tag} @@ leaf :> {tag, one}

Bare == [dir |-> {}, val |-> NoVal, def |-> {}]
Full == [dir |-> Node, val |-> [x \in Leaf |-> {v1}], def |-> {}]
Starts == {Bare, Full}
============================================================================
