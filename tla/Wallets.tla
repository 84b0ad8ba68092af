--------------------------------- MODULE Wallets ---------------------------------
(***************************************************************************)
(* Custodial wallets: BlockchainWalletService (backend/src/blockchain-     *)
(* wallet) over a table whose secret column is encrypted by                *)
(* encryptedColumnTransformer and EncryptionService (backend/src/security).*)
(* Older rows hold a value encrypted by the application, with its iv in a  *)
(* column of its own.  Ciphertexts are symbolic: a tag and what is inside. *)
(*                                                                         *)
(* The second part is the pause switch of soroban.service.ts in the same   *)
(* directory: an admin stops and resumes the escrow operations, and each   *)
(* change is logged once.  The operations contain no await, so the          *)
(* reentrancy lock is taken and released within one step.                  *)
(***************************************************************************)
EXTENDS Integers, Sequences

CONSTANTS
    WalletUsers,
    LegacyUsers,     \* those whose row is of the older kind
    LegacyAddress,   \* their addresses
    Provisions,      \* concurrent calls of provision
    Syncs,           \* concurrent calls of syncBalance
    MaxWalletFaults  \* bound: errors and crashes

ASSUME WalletAssumption ==
    /\ LegacyUsers \subseteq WalletUsers /\ MaxWalletFaults \in Nat
    /\ LegacyAddress \in [LegacyUsers -> Int]
    /\ \A u, v \in LegacyUsers : LegacyAddress[u] < 0 /\ (LegacyAddress[u] = LegacyAddress[v] => u = v)

VARIABLES
    wallets,       \* blockchain_wallets: a row per user
    provisioning,  \* step, user and keypair of each provision
    syncing,       \* the entity each syncBalance has loaded
    registry,      \* users and addresses registered with the contract, or announced
    lastKeypair,   \* keypairs are random: a counter
    walletFaults

walletVars == <<wallets, provisioning, syncing, registry, lastKeypair, walletFaults>>

NoWallet == [address |-> 0, secret |-> <<"plain", 0>>, iv |-> FALSE]
NotProvisioning == [pc |-> "idle", user |-> CHOOSE u \in WalletUsers : TRUE, keypair |-> 0]

WalletFault == walletFaults < MaxWalletFaults /\ walletFaults' = walletFaults + 1

--------------------------------------------------------------------------------
(* Encryption                                                              *)

encrypt(plaintext) == <<"encv1", plaintext>>

\* A value without the prefix was stored before the column was encrypted.
decrypt(c) == IF c[1] = "encv1" THEN c[2] ELSE c

\* The transformer, on the way to the column and back.
toColumn(value) == IF value[1] = "encv1" THEN value ELSE encrypt(value)
fromColumn(column) == decrypt(column)

\* The older format; anything else cannot be read with it.
decryptLegacy(c) == IF c[1] = "legacy" THEN c[2] ELSE <<"threw", c>>

\* Of an entity, whose secret came through the transformer.
decryptSecretKey(entity) == IF entity.iv THEN decryptLegacy(entity.secret) ELSE entity.secret

Entity(row) == [row EXCEPT !.secret = fromColumn(@)]
Column(entity) == [entity EXCEPT !.secret = toColumn(@)]

--------------------------------------------------------------------------------
(* Actions                                                                 *)

\* Rows of the older kind were written before the transformer existed.
WalletInit ==
    /\ wallets = [u \in WalletUsers |->
           IF u \in LegacyUsers
           THEN [address |-> LegacyAddress[u], secret |-> <<"legacy", <<"plain", LegacyAddress[u]>>>>, iv |-> TRUE]
           ELSE NoWallet]
    /\ provisioning = [p \in Provisions |-> NotProvisioning]
    /\ syncing = [s \in Syncs |-> NoWallet]
    /\ registry = {} /\ lastKeypair = 0 /\ walletFaults = 0

\* provision looks for a row and makes a keypair.
BeginProvision(p, u) ==
    /\ provisioning[p].pc = "idle"
    /\ IF wallets[u] # NoWallet
       THEN provisioning' = [provisioning EXCEPT ![p].pc = "conflict"] /\ UNCHANGED lastKeypair
       ELSE /\ lastKeypair' = lastKeypair + 1
            /\ provisioning' = [provisioning EXCEPT ![p] = [pc |-> "save", user |-> u, keypair |-> lastKeypair + 1]]
    /\ UNCHANGED <<wallets, syncing, registry, walletFaults>>

\* userId is unique: the second of two inserts throws.
SaveWallet(p) ==
    LET u == provisioning[p].user  k == provisioning[p].keypair
    IN  /\ provisioning[p].pc = "save"
        /\ IF wallets[u] = NoWallet
           THEN /\ wallets' = [wallets EXCEPT ![u] = Column([address |-> k, secret |-> <<"plain", k>>, iv |-> FALSE])]
                /\ provisioning' = [provisioning EXCEPT ![p].pc = "register"]
           ELSE provisioning' = [provisioning EXCEPT ![p].pc = "threw"] /\ UNCHANGED wallets
        /\ UNCHANGED <<syncing, registry, lastKeypair, walletFaults>>

\* registerUser may fail, as may the funding; the event is emitted all the same.
RegisterUser(p) ==
    LET entry(by) == [user |-> provisioning[p].user, address |-> provisioning[p].keypair, by |-> by]
    IN  /\ provisioning[p].pc = "register"
        /\ provisioning' = [provisioning EXCEPT ![p].pc = "done"]
        /\ \/ registry' = registry \cup {entry("contract"), entry("event")} /\ UNCHANGED walletFaults
           \/ WalletFault /\ registry' = registry \cup {entry("event")}
        /\ UNCHANGED <<wallets, syncing, lastKeypair>>

\* A restart loses the calls that are under way.
WalletRestart ==
    /\ WalletFault
    /\ \E p \in Provisions : provisioning[p].pc \in {"save", "register"}
    /\ provisioning' = [p \in Provisions |-> IF provisioning[p].pc \in {"save", "register"} THEN NotProvisioning
                                            ELSE provisioning[p]]
    /\ syncing' = [s \in Syncs |-> NoWallet]
    /\ UNCHANGED <<wallets, registry, lastKeypair>>

\* getWallet of syncBalance; a user without a row gets a 404.
LoadWallet(s, u) ==
    /\ syncing[s] = NoWallet /\ wallets[u] # NoWallet
    /\ syncing' = [syncing EXCEPT ![s] = Entity(wallets[u])]
    /\ UNCHANGED <<wallets, provisioning, registry, lastKeypair, walletFaults>>

\* The save writes the balances, and the secret too: encrypted anew it never
\* equals the stored column.
SaveSynced(s) ==
    /\ syncing[s] # NoWallet
    /\ wallets' = [u \in WalletUsers |-> IF wallets[u].address = syncing[s].address THEN Column(syncing[s]) ELSE wallets[u]]
    /\ syncing' = [syncing EXCEPT ![s] = NoWallet]
    /\ UNCHANGED <<provisioning, registry, lastKeypair, walletFaults>>

WalletNext ==
    \/ WalletRestart
    \/ \E p \in Provisions : SaveWallet(p) \/ RegisterUser(p) \/ \E u \in WalletUsers : BeginProvision(p, u)
    \/ \E s \in Syncs : SaveSynced(s) \/ \E u \in WalletUsers : LoadWallet(s, u)

--------------------------------------------------------------------------------
(* Properties                                                              *)

\* The secret key of every wallet can be recovered, however its row was written
\* and however often it was saved since.
SecretsRecoverable ==
    \A u \in WalletUsers : wallets[u] # NoWallet =>
        decryptSecretKey(Entity(wallets[u])) = <<"plain", wallets[u].address>>

\* The address registered or announced for a user is the one whose key is stored:
\* of two provisions at once the loser registers nothing.
RegisteredIsStored == \A r \in registry : wallets[r.user].address = r.address

--------------------------------------------------------------------------------
(* The pause switch                                                        *)

CONSTANTS PauseAdmins, MaxEscrowOps, MaxPauseLog   \* the last two are bounds

ASSUME PauseAssumption == MaxEscrowOps \in Nat /\ MaxPauseLog \in Nat

VARIABLES
    paused,    \* this.paused
    pauseLog,  \* this.eventLog
    escrowOps  \* history: deposits, releases and refunds let through, by the
               \* length of the log at that time

pauseVars == <<paused, pauseLog, escrowOps>>

PauseInit == paused = FALSE /\ pauseLog = << >> /\ escrowOps = << >>

\* A repeated call returns early.
pause(admin) ==
    /\ ~paused /\ Len(pauseLog) < MaxPauseLog
    /\ paused' = TRUE
    /\ pauseLog' = Append(pauseLog, [type |-> "ContractPaused", admin |-> admin])
    /\ UNCHANGED escrowOps

unpause(admin) ==
    /\ paused /\ Len(pauseLog) < MaxPauseLog
    /\ paused' = FALSE
    /\ pauseLog' = Append(pauseLog, [type |-> "ContractUnpaused", admin |-> admin])
    /\ UNCHANGED escrowOps

requireNotPaused == ~paused

\* deposit, release and refund share their guards.
EscrowOperation(op) ==
    /\ requireNotPaused
    /\ Len(escrowOps) < MaxEscrowOps
    /\ escrowOps' = Append(escrowOps, [op |-> op, at |-> Len(pauseLog)])
    /\ UNCHANGED <<paused, pauseLog>>

PauseNext ==
    \/ \E a \in PauseAdmins : pause(a) \/ unpause(a)
    \/ \E op \in {"deposit", "release", "refund"} : EscrowOperation(op)

--------------------------------------------------------------------------------
(* Properties                                                              *)

\* The log tells when the contract was paused: its entries alternate, its last
\* one agrees with the flag, and every operation let through lies in a stretch
\* of the log in which the contract was not paused.
LogTellsPauses ==
    /\ \A k \in DOMAIN pauseLog :
           pauseLog[k].type = (IF k % 2 = 1 THEN "ContractPaused" ELSE "ContractUnpaused")
    /\ paused <=> Len(pauseLog) % 2 = 1
    /\ \A k \in DOMAIN escrowOps : escrowOps[k].at % 2 = 0
==================================================================================
