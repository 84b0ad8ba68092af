----------------------------- MODULE SorobanLedger -----------------------------
(***************************************************************************)
(* What the small Soroban contracts share: the accounts that call them and *)
(* the ledger whose sequence number (or timestamp) they read.  External.   *)
(***************************************************************************)
EXTENDS Integers

CONSTANTS
    Accounts,    \* addresses that may call a contract
    MaxU,        \* the largest value of the unsigned type a deadline has
    MaxLedger    \* bound on the ledger sequence

ASSUME LedgerAssumption ==
    MaxU \in Nat \ {0} /\ MaxLedger \in Nat /\ MaxLedger <= MaxU

VARIABLE ledger  \* env.ledger().sequence() and .timestamp()

\* saturating_add of an unsigned type.
SatAdd(a, b) == IF a + b > MaxU THEN MaxU ELSE a + b

LedgerInit == ledger = 1
LedgerCloses == ledger < MaxLedger /\ ledger' = ledger + 1
================================================================================
