-------------------------- MODULE MCSettlementExecution --------------------------
(***************************************************************************)
(* One merchant, settlements x1 of p1 and p2 and x2 of p3.                 *)
(***************************************************************************)
EXTENDS SettlementExecution, TLC

CONSTANTS x1, x2, p1, p2, p3, mA, w1, w2, w3

MCPaymentsOf == [s \in Settlements |-> Payments \cap (x1 :> {p1, p2} @@ x2 :> {p3})[s]]
MCMerchantOf == [s \in Settlements |-> mA]
Symmetry == Permutations(Workers) \cup Permutations(Jobs)
================================================================================
