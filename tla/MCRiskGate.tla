----------------------------- MODULE MCRiskGate -----------------------------
(* Small instances of RiskGate: the symbols may be swapped in the runs that *)
(* check only safety.                                                       *)
EXTENDS RiskGate, TLC

Swap == Permutations(Symbol)
=============================================================================
