------------------------- MODULE MCCommandRequest -------------------------
EXTENDS CommandRequest, TLC

CONSTANTS A, B, Bad, Quiet, Marked, Broken, Long

MCKind == (A :> "plain") @@ (B :> "plain") @@ (Bad :> "bad") @@ (Quiet :> "quiet")
          @@ (Marked :> "marked") @@ (Broken :> "broken") @@ (Long :> "plain")
MCSize == [v \in {A, B, Bad, Quiet, Marked, Broken, Long} |-> IF v = Long THEN 4 ELSE 1]
Symmetry == Permutations(Window)
============================================================================
