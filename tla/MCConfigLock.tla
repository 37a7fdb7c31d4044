--------------------------- MODULE MCConfigLock ---------------------------
(* Instances of ConfigLock for TLC. *)
EXTENDS ConfigLock

CONSTANTS p1, p2, p3
============================================================================
