----------------------------- MODULE MC_BrainSpend -----------------------------
(* One den that is reached by two requests at a time.                        *)
EXTENDS BrainSpend, TLC

CONSTANTS fire, payer, c1, c2

MCDens == {fire}
MCUsers == {payer}
MCSlots == {c1, c2}
MCRagDens == {fire}
MCNoDens == {}

PerKind(image, search, rag) == "image" :> image @@ "search" :> search @@ "rag" :> rag

\* Images meet the ceiling of the pack first, searches that of the den.
MCHardDen == PerKind(2, 2, 1)
MCHardGlobal == PerKind(1, 3, 1)
\* Images have no free pool, searches one that ends before their ceiling.
MCFree == PerKind(0, 1, 1)
MCFloor == PerKind(1, 1, 0)
MCEstimate == PerKind(0, 0, 1)

MCSymmetry == Permutations(MCSlots)
=============================================================================
