---------------------------- MODULE SpiralLedger ----------------------------
(***************************************************************************)
(* The SPIRAL ledger of wou-storage: one unsigned 64-bit balance per       *)
(* account and the table of bridge operations already applied.  Every      *)
(* operation of the code is one exclusive Redb write transaction, so every *)
(* operation is one action; an early `return Err` drops the transaction,   *)
(* which is a step that changes nothing and is left out.                   *)
(***************************************************************************)
EXTENDS Integers

CONSTANTS
    Account,     \* accounts; a missing balance row reads as 0
    Key,         \* idempotency keys the bridge's caller may send
    Amount,      \* amounts one call may carry (1..1000000 in the code)
    MaxBalance,  \* u64::MAX: additions to a balance saturate here
    NoResult     \* no row under a key in the bridge table

ASSUME LedgerAssumption ==
    /\ MaxBalance \in Nat
    /\ Amount \subseteq Nat \ {0}
    /\ NoResult \notin Nat

VARIABLES
    balance,     \* SPIRAL_BALANCES_TABLE
    bridgeOps,   \* SPIRAL_BRIDGE_OPS_TABLE: the balance stamped under a key
    applied      \* history: how often a call with this key moved money

ledgerVars == <<balance, bridgeOps, applied>>

-----------------------------------------------------------------------------
\* Mutant of SaturatingAdd: the wrap of plain u64 addition.
WrappingAdd(x, y) == (x + y) % (MaxBalance + 1)

\* u64::saturating_add
SaturatingAdd(x, y) == IF x + y > MaxBalance THEN MaxBalance ELSE x + y

LedgerInit ==
    /\ balance = [a \in Account |-> 0]
    /\ bridgeOps = [k \in Key |-> NoResult]
    /\ applied = [k \in Key |-> 0]

\* Producer faucet: an unconditional credit, not idempotent.
FaucetSpiral(to, amount) ==
    /\ balance' = [balance EXCEPT ![to] = SaturatingAdd(@, amount)]
    /\ UNCHANGED <<bridgeOps, applied>>

\* What a key not seen before records, in the same transaction as the move.
StampBridgeOp(account, next, key) ==
    /\ balance' = [balance EXCEPT ![account] = next]
    /\ bridgeOps' = [bridgeOps EXCEPT ![key] = next]
    /\ applied' = [applied EXCEPT ![key] = @ + 1]

\* A call whose key has a row only reads: it answers bridgeOps[key].
BridgeReplay(key) ==
    /\ bridgeOps[key] # NoResult
    /\ UNCHANGED ledgerVars

\* Mutant of BridgeCredit: the key's row is not looked up first.
CreditAgain(account, amount, key) ==
    StampBridgeOp(account, SaturatingAdd(balance[account], amount), key)

BridgeCredit(account, amount, key) ==
    /\ bridgeOps[key] = NoResult
    /\ StampBridgeOp(account, SaturatingAdd(balance[account], amount), key)

\* A debit the balance does not cover is refused and leaves the key unused.
BridgeDebit(account, amount, key) ==
    /\ bridgeOps[key] = NoResult
    /\ balance[account] >= amount
    /\ StampBridgeOp(account, balance[account] - amount, key)

BridgeSpiral(account, amount, key) ==
    \/ BridgeReplay(key)
    \/ BridgeCredit(account, amount, key)
    \/ BridgeDebit(account, amount, key)

LedgerNext ==
    \E a \in Account, n \in Amount :
        \/ FaucetSpiral(a, n)
        \/ \E k \in Key : BridgeSpiral(a, n, k)

LedgerSpec == LedgerInit /\ [][LedgerNext]_ledgerVars

-----------------------------------------------------------------------------
LedgerTypeOK ==
    /\ balance \in [Account -> 0..MaxBalance]
    /\ bridgeOps \in [Key -> (0..MaxBalance) \cup {NoResult}]
    /\ applied \in [Key -> Nat]

\* However often a key is sent, and whatever account, amount and direction
\* its calls carry, it moves money at most once, and exactly when its row
\* exists (bridge_spiral: "retries can never double-spend").
BridgeAppliesOnce ==
    \A k \in Key : applied[k] = IF bridgeOps[k] = NoResult THEN 0 ELSE 1

\* The answer a key got first is the answer every later call gets.
BridgeAnswerIsStable ==
    [][\A k \in Key : bridgeOps[k] # NoResult => bridgeOps'[k] = bridgeOps[k]]_ledgerVars

\* Account a pays by a bridge debit that stamps a fresh key with what it leaves.
PaysByFreshKey(a) == \E k \in Key : bridgeOps[k] = NoResult /\ bridgeOps'[k] = balance'[a]
=============================================================================
