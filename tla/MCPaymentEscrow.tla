---------------------------- MODULE MCPaymentEscrow ----------------------------
(***************************************************************************)
(* A small instance of PaymentEscrow: two payments, one customer, one      *)
(* merchant, and arguments that include the ones deposit refuses.          *)
(***************************************************************************)
EXTENDS PaymentEscrow, TLC

CONSTANTS p1, p2, c1, m1, admin, s1, s2, s3

MCSigners == {s1, s2, s3}
MCPayments == {p1, p2}
MCCustomers == {c1}
MCMerchants == {m1}
MCAmounts == {0, 1, 2}
MCTtls == {0, 1, 2, 3}
Symmetry == Permutations(MCPayments) \cup Permutations(MCSigners)
================================================================================
