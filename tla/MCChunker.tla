----------------------------- MODULE MCChunker -----------------------------
(* Instances of Chunker for TLC. *)
EXTENDS Chunker, TLC

CONSTANTS t1, t2, c1, c2

OneWindow == c1 :> t1
TwoWindows == c1 :> t1 @@ c2 :> t1
TwoSessions == c1 :> t1 @@ c2 :> t2

Symmetry == Permutations(Client)
============================================================================
