---------------------------- MODULE MCSessions ----------------------------
(* Instances of Sessions for TLC. *)
EXTENDS Sessions, TLC

CONSTANTS w1, w2, u1, u2, s1, s2

OneOrTwoUsers == {w1 :> u1 @@ w2 :> u1, w1 :> u1 @@ w2 :> u2}
============================================================================
