----------------------------- MODULE EscrowPromise -----------------------------
(***************************************************************************)
(* What the payment escrow promises about one deposit, without ledgers,    *)
(* disputes, admins or tokens: an amount is locked once under an id, parts *)
(* of it go to the merchant, and whatever is left may go back to the       *)
(* customer in one piece.  A deposit is closed when nothing is left of it, *)
(* and a closed id is never used again.                                    *)
(***************************************************************************)
EXTENDS Integers

CONSTANT PaymentIds

VARIABLES
    locked,   \* what is left of each deposit
    share,    \* what each deposit has paid to its merchant and its customer
    phase     \* "none", "open" or "closed"

vars == <<locked, share, phase>>

Init ==
    /\ locked = [p \in PaymentIds |-> 0]
    /\ share = [p \in PaymentIds |-> [merchant |-> 0, customer |-> 0]]
    /\ phase = [p \in PaymentIds |-> "none"]

\* A deposit of any positive amount.
Lock(p) ==
    /\ phase[p] = "none"
    /\ locked'[p] \in Nat \ {0}
    /\ locked' = [locked EXCEPT ![p] = locked'[p]]
    /\ phase' = [phase EXCEPT ![p] = "open"]
    /\ UNCHANGED share

\* Some of what is left goes to the merchant; the last part closes the deposit.
PayMerchant(p) ==
    /\ phase[p] = "open"
    /\ locked'[p] \in 0 .. (locked[p] - 1)
    /\ locked' = [locked EXCEPT ![p] = locked'[p]]
    /\ share' = [share EXCEPT ![p].merchant = @ + (locked[p] - locked'[p])]
    /\ phase' = [phase EXCEPT ![p] = IF locked'[p] = 0 THEN "closed" ELSE "open"]

\* All that is left goes back to the customer.
Return(p) ==
    /\ phase[p] = "open"
    /\ locked' = [locked EXCEPT ![p] = 0]
    /\ share' = [share EXCEPT ![p].customer = @ + locked[p]]
    /\ phase' = [phase EXCEPT ![p] = "closed"]

Next == \E p \in PaymentIds : Lock(p) \/ PayMerchant(p) \/ Return(p)

Spec == Init /\ [][Next]_vars
================================================================================
