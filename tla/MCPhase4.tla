------------------------------ MODULE MCPhase4 ------------------------------
(* Model-checking instances of Phase4Session: intents are interchangeable,  *)
(* and so are generations.                                                  *)
EXTENDS Phase4Session, TLC

Phase4Symmetry == Permutations(Intent) \cup Permutations(Generation)
=============================================================================
