----------------------------- MODULE PaymentEscrow -----------------------------
(***************************************************************************)
(* The Soroban contract payment_escrow (dabdub_contracts/contracts/        *)
(* payment_escrow/src/lib.rs): customers deposit XLM or USDC for a         *)
(* merchant, the admin releases it, anybody returns it once it expired, a  *)
(* participant may dispute it, and two of three emergency signers may move *)
(* the whole USDC balance to the treasury.                                 *)
(*                                                                         *)
(* A contract call is atomic: a panic undoes it, so a call that panics is  *)
(* no step and every check of the code is a conjunct of its action.  The   *)
(* token contracts are external: a transfer out of the contract is         *)
(* possible only while its balance covers it.                              *)
(***************************************************************************)
EXTENDS Integers, FiniteSets, Functions

CONSTANTS
    PaymentIds,        \* the BytesN<32> ids customers choose
    Customers,         \* addresses that deposit
    Merchants,         \* addresses that may be paid (may overlap Customers)
    Admin,             \* DataKey::Admin
    Signers,           \* DataKey::EmergencySigners
    NoPayment,         \* what storage answers for an id never deposited
    Amounts, Ttls,     \* arguments tried, invalid ones included
    MaxTtl,            \* MAX_TTL_LEDGERS
    MaxDisputeWindow,  \* MAX_DISPUTE_WINDOW_LEDGERS
    Cooldown,          \* DataKey::EmergencyCooldownLedgers
    MaxU32,            \* u32::MAX, where saturating_add stops
    LastDeposit,       \* bound: no deposit after this ledger
    MaxLedger,         \* bound on the ledger sequence
    MaxVersion         \* bound on the number of upgrades

VARIABLES
    seq,         \* env.ledger().sequence()
    payments,    \* DataKey::Payment(id)
    balance,     \* what each token contract holds for this contract
    treasury,    \* USDC the emergency treasury has received
    paid,        \* history: what each payment sent to its two parties
    registryOn,  \* whether DataKey::RegistryContract is set
    approved,    \* the merchants the registry answers is_approved for
    lastDrain,   \* DataKey::EmergencyLastDrainLedger
    drains,      \* history: the ledgers of the successful drains
    version      \* DataKey::Version

money == <<payments, balance, paid>>
drainVars == <<treasury, lastDrain, drains>>
vars == <<seq, payments, balance, treasury, paid, registryOn, approved,
          lastDrain, drains, version>>

Assets == {"XLM", "USDC"}
Statuses == {"Pending", "Disputed", "Released", "Expired"}
Addresses == Customers \cup Merchants \cup {Admin} \cup Signers

Payment == [amount : Nat \ {0}, released_amount : Nat, merchant : Merchants,
            customer : Customers, status : Statuses, expiry : Nat,
            dispute_window_end : Nat, asset_type : Assets]

\* What the constructor insists on, and the bounds of the model.
ASSUME ContractAssumption ==
    /\ Amounts \subseteq Int /\ Ttls \subseteq Nat
    /\ MaxTtl \in Nat \ {0} /\ MaxDisputeWindow \in Nat
    /\ Cooldown \in Nat \ {0} /\ MaxU32 \in Nat \ {0}
    /\ LastDeposit \in Nat /\ MaxLedger \in Nat /\ MaxLedger <= MaxU32
    /\ MaxVersion \in Nat
    /\ NoPayment \notin Payment
ASSUME SignersAssumption == IsFiniteSet(Signers) /\ Cardinality(Signers) = 3
\* An id is 32 bytes.
ASSUME IdsAssumption == IsFiniteSet(PaymentIds)

SaturatingAdd(a, b) == IF a + b > MaxU32 THEN MaxU32 ELSE a + b

Exists(p) == payments[p] # NoPayment
Is(p, status) == Exists(p) /\ payments[p].status = status
remaining_amount(p) == payments[p].amount - payments[p].released_amount

require_admin(caller) == caller = Admin

\* Mutant: a release does not look at the expiry ledger.
require_releasable_late(p) == Is(p, "Pending")

require_releasable(p) == Is(p, "Pending") /\ seq <= payments[p].expiry

\* Mutant: only a payment nothing was released from can be returned.
require_expirable_whole(p) ==
    /\ Is(p, "Pending") /\ seq > payments[p].expiry
    /\ payments[p].released_amount = 0

require_expirable(p) == Is(p, "Pending") /\ seq > payments[p].expiry

Init ==
    /\ seq = 1
    /\ payments = [p \in PaymentIds |-> NoPayment]
    /\ balance = [a \in Assets |-> 0]
    /\ treasury = 0
    /\ paid = [p \in PaymentIds |-> [merchant |-> 0, customer |-> 0]]
    /\ registryOn \in BOOLEAN
    /\ approved = {}
    /\ lastDrain = 0
    /\ drains = {}
    /\ version = 1

--------------------------------------------------------------------------------

\* Mutant: the amount is checked to be non-negative only.
deposit_of_nothing(customer, p, merchant, amount, ttl, asset) ==
    /\ amount >= 0 /\ ttl > 0 /\ ttl <= MaxTtl /\ ~Exists(p) /\ seq <= LastDeposit
    /\ balance' = [balance EXCEPT ![asset] = @ + amount]
    /\ payments' = [payments EXCEPT ![p] =
           [amount |-> amount, released_amount |-> 0, merchant |-> merchant,
            customer |-> customer, status |-> "Pending",
            expiry |-> SaturatingAdd(seq, ttl),
            dispute_window_end |-> SaturatingAdd(seq, ttl), asset_type |-> asset]]
    /\ UNCHANGED <<seq, paid, registryOn, approved, version, drainVars>>

deposit(customer, p, merchant, amount, ttl, asset) ==
    /\ amount > 0
    /\ ttl > 0 /\ ttl <= MaxTtl
    /\ ~Exists(p)
    /\ registryOn => merchant \in approved
    /\ seq <= LastDeposit
    /\ balance' = [balance EXCEPT ![asset] = @ + amount]
    /\ LET expiry == SaturatingAdd(seq, ttl)
           windowEnd == SaturatingAdd(seq, MaxDisputeWindow)
       IN  payments' = [payments EXCEPT ![p] =
               [amount |-> amount, released_amount |-> 0,
                merchant |-> merchant, customer |-> customer,
                status |-> "Pending", expiry |-> expiry,
                dispute_window_end |->
                    IF expiry < windowEnd THEN expiry ELSE windowEnd,
                asset_type |-> asset]]
    /\ UNCHANGED <<seq, paid, registryOn, approved, version, drainVars>>

\* The record after a payout of k.
Released(payment, k, status) ==
    [payment EXCEPT !.released_amount = payment.released_amount + k,
                    !.status = status]

\* Mutant: every payout is made in USDC, whatever was deposited.
transfer_in_usdc(p, party, k, status) ==
    /\ k > 0 /\ k <= balance["USDC"]
    /\ balance' = [balance EXCEPT !["USDC"] = @ - k]
    /\ paid' = [paid EXCEPT ![p] = [paid[p] EXCEPT ![party] = paid[p][party] + k]]
    /\ payments' = [payments EXCEPT ![p] = Released(payments[p], k, status)]
    /\ UNCHANGED <<seq, registryOn, approved, version, drainVars>>

\* The contract sends k of payment p to one of its parties and stores the
\* record with the new released amount and status.
transfer_from_contract(p, party, k, status) ==
    /\ k > 0
    /\ k <= balance[payments[p].asset_type]
    /\ balance' = [balance EXCEPT ![payments[p].asset_type] = @ - k]
    /\ paid' = [paid EXCEPT ![p] = [paid[p] EXCEPT ![party] = paid[p][party] + k]]
    /\ payments' = [payments EXCEPT ![p] = Released(payments[p], k, status)]
    /\ UNCHANGED <<seq, registryOn, approved, version, drainVars>>

release(caller, p) ==
    /\ require_admin(caller)
    /\ require_releasable(p)
    /\ transfer_from_contract(p, "merchant", remaining_amount(p), "Released")

release_partial(caller, p, amount) ==
    /\ require_admin(caller)
    /\ amount > 0
    /\ require_releasable(p)
    /\ amount <= remaining_amount(p)
    /\ transfer_from_contract(p, "merchant", amount,
           IF amount = remaining_amount(p) THEN "Released" ELSE "Pending")

\* expire and refund run the same code; only the topic of the event they
\* publish differs ("expired", "refund").
expire(p) ==
    /\ require_expirable(p)
    /\ transfer_from_contract(p, "customer", remaining_amount(p), "Expired")

\* Mutant: the refund pays the deposit, not what remains of it.
refund_whole_deposit(p) ==
    /\ require_expirable(p)
    /\ transfer_from_contract(p, "customer", payments[p].amount, "Expired")

refund(p) ==
    /\ require_expirable(p)
    /\ transfer_from_contract(p, "customer", remaining_amount(p), "Expired")

dispute(caller, p) ==
    /\ Is(p, "Pending")
    /\ caller \in {payments[p].customer, payments[p].merchant}
    /\ seq <= payments[p].dispute_window_end
    /\ payments' = [payments EXCEPT ![p].status = "Disputed"]
    /\ UNCHANGED <<seq, balance, paid, registryOn, approved, version, drainVars>>

\* Mutant: a resolved dispute pays the winner and leaves the payment pending.
resolve_and_reopen(caller, p, winner) ==
    /\ require_admin(caller) /\ Is(p, "Disputed")
    /\ winner = payments[p].merchant
    /\ transfer_from_contract(p, "merchant", remaining_amount(p), "Pending")

resolve_dispute(caller, p, winner) ==
    /\ require_admin(caller)
    /\ Is(p, "Disputed")
    /\ \/ /\ winner = payments[p].merchant
          /\ transfer_from_contract(p, "merchant", remaining_amount(p), "Released")
       \/ /\ winner = payments[p].customer /\ winner # payments[p].merchant
          /\ transfer_from_contract(p, "customer", remaining_amount(p), "Expired")

\* Mutant: the cooldown ends one ledger early.
cooldown_one_short ==
    lastDrain # 0 /\ seq + 1 < SaturatingAdd(lastDrain, Cooldown)

cooldown_active ==
    lastDrain # 0 /\ seq < SaturatingAdd(lastDrain, Cooldown)

\* The drain reads the balance of the USDC token alone and touches no payment.
emergency_drain(signer_one, signer_two) ==
    /\ signer_one # signer_two
    /\ {signer_one, signer_two} \subseteq Signers
    /\ ~cooldown_active
    /\ balance["USDC"] > 0
    /\ balance' = [balance EXCEPT !["USDC"] = 0]
    /\ treasury' = treasury + balance["USDC"]
    /\ lastDrain' = seq
    /\ drains' = drains \cup {seq}
    /\ UNCHANGED <<seq, payments, paid, registryOn, approved, version>>

set_registry(caller, on) ==
    /\ require_admin(caller)
    /\ registryOn' = on
    /\ UNCHANGED <<seq, money, approved, version, drainVars>>

upgrade(caller) ==
    /\ require_admin(caller)
    /\ version < MaxVersion
    /\ version' = version + 1
    /\ UNCHANGED <<seq, money, registryOn, approved, drainVars>>

--------------------------------------------------------------------------------
\* The environment: ledgers close, and the registry changes its answers.

CloseLedger ==
    /\ seq < MaxLedger
    /\ seq' = seq + 1
    /\ UNCHANGED <<money, registryOn, approved, version, drainVars>>

RegistryChanges ==
    /\ \E m \in Merchants : approved' \in {approved \cup {m}, approved \ {m}}
    /\ UNCHANGED <<seq, money, registryOn, version, drainVars>>

\* The calls on payment p.
PaymentStep(p) ==
    \/ \E c \in Customers, m \in Merchants, k \in Amounts, t \in Ttls, a \in Assets :
           deposit(c, p, m, k, t, a)
    \/ \E caller \in Addresses : \/ release(caller, p)
                                 \/ dispute(caller, p)
    \/ \E caller \in Addresses, k \in Amounts : release_partial(caller, p, k)
    \/ \E caller, winner \in Addresses : resolve_dispute(caller, p, winner)
    \/ expire(p)
    \/ refund(p)

ContractStep ==
    \/ \E p \in PaymentIds : PaymentStep(p)
    \/ \E s1, s2 \in Addresses : emergency_drain(s1, s2)
    \/ \E caller \in Addresses : \/ upgrade(caller)
                                 \/ \E on \in BOOLEAN : set_registry(caller, on)
    \/ CloseLedger

Next == ContractStep \/ RegistryChanges

Spec == Init /\ [][Next]_vars

--------------------------------------------------------------------------------
\* Every variable has the type its storage entry has.
TypeOK ==
    /\ seq \in Nat /\ seq # 0
    /\ payments \in [PaymentIds -> Payment \cup {NoPayment}]
    /\ balance \in [Assets -> Nat]
    /\ treasury \in Nat
    /\ paid \in [PaymentIds -> [merchant : Nat, customer : Nat]]
    /\ registryOn \in BOOLEAN
    /\ approved \subseteq Merchants
    /\ lastDrain \in Nat
    /\ drains \subseteq Nat
    /\ version \in Nat

Closed(p) == Is(p, "Released") \/ Is(p, "Expired")
NothingPaid == [merchant |-> 0, customer |-> 0]

\* Whatever mix of partial releases, full releases, expiries, refunds and
\* resolved disputes a payment goes through, its two parties receive together
\* exactly released_amount, never more than was deposited, and the whole
\* deposit exactly when the payment is closed.
Conservation ==
    \A p \in PaymentIds :
        IF Exists(p)
        THEN /\ paid[p].merchant + paid[p].customer = payments[p].released_amount
             /\ payments[p].released_amount <= payments[p].amount
             /\ Closed(p) <=> payments[p].released_amount = payments[p].amount
        ELSE paid[p] = NothingPaid

\* The customer gets money back on the payments that end Expired and on no
\* other: a refund never follows a closing release, and a payment whose last
\* part went to the merchant is never reported Expired.
RefundedIffExpired ==
    \A p \in PaymentIds : paid[p].customer > 0 <=> Is(p, "Expired")

\* What each payment is still owed in asset a.
Owed(a) == [p \in PaymentIds |->
               IF Exists(p) /\ payments[p].asset_type = a THEN remaining_amount(p) ELSE 0]
TotalOwed(a) == SumFunction(Owed(a))

\* What the contract still owes in an asset is what its token balance holds,
\* plus - for USDC alone - what emergency drains moved to the treasury.  So
\* the escrow is fully backed until the first drain, XLM always is, and after
\* a drain the shortfall is exactly the drained amount: emergency_drain
\* touches no payment, and later deposits cover earlier claims.
Backed ==
    \A a \in Assets :
        TotalOwed(a) = balance[a] + (IF a = "USDC" THEN treasury ELSE 0)

\* Two successful drains are a whole cooldown apart, however many drain calls
\* the signers make (at the top of the u32 range the saturated deadline ends
\* the cooldown early).
DrainsSpaced ==
    \A d, e \in drains : d < e => e >= SaturatingAdd(d, Cooldown)

\* Money leaves for the merchant only up to expiry or as the outcome of a
\* dispute, and for the customer only after expiry or as the outcome of a
\* dispute; the outcome of a dispute and a refund pay all that remains.
PayoutStep(p) ==
    LET toMerchant == paid'[p].merchant - paid[p].merchant
        toCustomer == paid'[p].customer - paid[p].customer
    IN  /\ toMerchant > 0 => \/ (Is(p, "Pending") /\ seq <= payments[p].expiry)
                              \/ (Is(p, "Disputed") /\ toMerchant = remaining_amount(p))
        /\ toCustomer > 0 => /\ toCustomer = remaining_amount(p)
                              /\ \/ (Is(p, "Pending") /\ seq > payments[p].expiry)
                                 \/ Is(p, "Disputed")
        /\ toMerchant = 0 \/ toCustomer = 0
PayoutRules == [][\A p \in PaymentIds : PayoutStep(p)]_vars

\* A pending payment does not stay in escrow for ever: it is released,
\* returned or disputed, unless an emergency drain took the money it needs
\* (checked where fairness is stated, in EscrowWithRegistry).
EventuallyLeaves ==
    \A p \in PaymentIds :
        Is(p, "Pending") ~> (Closed(p) \/ Is(p, "Disputed") \/ treasury > 0)

\* What is left of each deposit, and its phase in the eyes of EscrowPromise.
Left == [p \in PaymentIds |-> IF Exists(p) THEN remaining_amount(p) ELSE 0]
Phase == [p \in PaymentIds |-> IF Closed(p) THEN "closed"
                               ELSE IF Exists(p) THEN "open" ELSE "none"]

Promise == INSTANCE EscrowPromise WITH locked <- Left, share <- paid, phase <- Phase

\* The contract implements EscrowPromise: what is left of a deposit is
\* amount - released_amount, and a deposit is closed when it is Released or
\* Expired.  Ledgers, disputes, drains and registry calls are stutters.
KeepsPromise == Promise!Spec
================================================================================
