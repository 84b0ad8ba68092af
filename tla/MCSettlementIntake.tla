-------------------------- MODULE MCSettlementIntake --------------------------
(***************************************************************************)
(* Small payments p1 and p2 of one merchant that reach the threshold       *)
(* together, p3 of another merchant that never does, p4 that is settled on *)
(* its own and p5 that needs approval.                                     *)
(***************************************************************************)
EXTENDS SettlementIntake, TLC

CONSTANTS p1, p2, p3, p4, p5, mA, mB

MCMerchantOf == [p \in Payments |-> IF p \in {p1, p2} THEN mA ELSE mB]
MCAmount == [p \in Payments |->
    (p1 :> 4 @@ p2 :> 6 @@ p3 :> 3 @@ p4 :> 20 @@ p5 :> 12000)[p]]
================================================================================
