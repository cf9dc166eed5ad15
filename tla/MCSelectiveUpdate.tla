-------------------------- MODULE MCSelectiveUpdate --------------------------
(* Instances of SelectiveUpdate for TLC.  One passage mentions every value, *)
(* the other only one entity and no other value.                            *)
EXTENDS SelectiveUpdate, TLC

CONSTANTS a, b, x, y, v, e, k1, k2

MCMentions == (x :> Value) @@ (y :> Selected)
MCSymmetry == Permutations(Slot) \cup Permutations(ClaimId)
=============================================================================
