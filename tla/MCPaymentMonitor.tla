---------------------------- MODULE MCPaymentMonitor ----------------------------
(***************************************************************************)
(* One payment; transactions with its memo that pay for it and that do not.*)
(***************************************************************************)
EXTENDS PaymentMonitor

CONSTANT p1

MCTxKinds == [memo : {p1}, pays : BOOLEAN]
================================================================================
