---------------------------- MODULE HostContext ----------------------------
(***************************************************************************)
(* The state-changing callbacks of hostContext (core/vm/evmc.go) that an   *)
(* EVMC engine makes while it executes a frame: SetStorage with its gas    *)
(* refund accounting, Selfdestruct and EmitLog, all acting on the StateDB  *)
(* of one transaction.                                                     *)
(*                                                                         *)
(* The StateDB and the EVM around the bridge are outside src/ and are      *)
(* modelled from the spec, only as far as the callbacks need them: every   *)
(* nested call frame takes a snapshot of the journalled state when it is   *)
(* entered and restores it when it fails; at the end of a transaction the  *)
(* current storage becomes the committed storage, self-destructed accounts *)
(* are deleted and the refund counter is settled.                          *)
(***************************************************************************)
EXTENDS Integers, FiniteSets, SequencesExt, ChainConfig

CONSTANTS
    Accounts,       \* contract addresses (model values)
    Keys,           \* storage keys of each account (model values)
    Values,         \* storage words; 0 is the zero hash
    Conf,           \* activation block of each transition (ChainConfig)
    InitBalance,    \* balance of every account before the first transaction
    MaxBlock,       \* last block height explored
    MaxDepth,       \* nested call frames explored (CallCreateDepth is 1024)
    MaxOps,         \* host callbacks per transaction
    \* gas constants of params/vars
    SstoreRefundGas, NetSstoreClearRefund, NetSstoreResetClearRefund,
    NetSstoreResetRefund, SstoreSetGasEIP2200, SstoreResetGasEIP2200,
    SloadGasEIP2200, SelfdestructRefundGas

ASSUME 0 \in Values /\ Cardinality(Values) >= 3
ASSUME Conf \in Configs(0..MaxBlock)
ASSUME MaxDepth \in Nat \ {0} /\ MaxOps \in Nat \ {0}

Zero == 0
Slots == Accounts \X Keys
StorageStatus == {"Unchanged", "Added", "Modified", "Deleted", "ModifiedAgain"}

VARIABLES
    block,      \* Context.BlockNumber of the transaction being executed
    committed,  \* GetCommittedState: storage at the start of the transaction
    current,    \* GetState: storage as the transaction has left it so far
    refund,     \* the StateDB refund counter (AddRefund / SubRefund)
    balance,    \* GetBalance of every account
    suicided,   \* accounts for which HasSuicided is true
    logs,       \* AddLog sequence of the transaction
    journal,    \* snapshots of the enclosing call frames, innermost last
    ops,        \* host callbacks made in this transaction (bounds the model)
    status,     \* StorageStatus returned by the last SetStorage
    \* history: gas the engine charged for the SSTOREs that survive, and
    \* how many there were; journalled like the state they paid for
    sstoreGas, sstores

stateVars == <<current, refund, balance, suicided, logs, sstoreGas, sstores>>
vars == <<block, committed, journal, ops, status, stateVars>>

-----------------------------------------------------------------------------
(* Fork rules SetStorage reads at the current block.                       *)

hasEIP2200 == IsEnabled(Conf, "EIP2200", block)
hasEIP1884 == IsEnabled(Conf, "EIP1884", block)

\* Net storage metering needs both transitions (hasNetStorageCostEIP).
hasNetStorageCostEIP == hasEIP2200 /\ hasEIP1884

resetClearRefund ==
    IF hasEIP2200 THEN SstoreSetGasEIP2200 - SloadGasEIP2200
                  ELSE NetSstoreResetClearRefund

cleanRefund ==
    IF hasEIP2200 THEN SstoreResetGasEIP2200 - SloadGasEIP2200
                  ELSE NetSstoreResetRefund

(* Status and refund change of a write before net metering: decided by    *)
(* the old and new values only.                                            *)
LegacyStatus(oldValue, value) ==
    IF oldValue = Zero THEN "Added"
    ELSE IF value = Zero THEN "Deleted"
    ELSE "Modified"

LegacyRefund(oldValue, value) ==
    IF oldValue # Zero /\ value = Zero THEN SstoreRefundGas ELSE 0

(* Net metering: the status and refund change of a write decided by the    *)
(* triple (original, current, value), in the order the code tests them.    *)
NetStatus(original, cur, value) ==
    IF original = cur
    THEN IF original = Zero THEN "Added"
         ELSE IF value = Zero THEN "Deleted"
         ELSE "Modified"
    ELSE "ModifiedAgain"

\* mutant: the AddRefund of the delete-slot case (2.1.2b) is missing.
CleanSlotRefundNoClear(original, value) == 0

\* Refund of a first write (2.1.x): only deleting an existing slot pays.
CleanSlotRefund(original, value) ==
    IF original # Zero /\ value = Zero THEN NetSstoreClearRefund ELSE 0

\* 2.2.1: undo or redo the clear refund of a slot that was already dirty.
DirtyClearAdjust(original, cur, value) ==
    IF original = Zero THEN 0
    ELSE IF cur = Zero THEN -NetSstoreClearRefund
    ELSE IF value = Zero THEN NetSstoreClearRefund
    ELSE 0

\* mutant: the two reset refunds swapped.
DirtyResetRefundSwapped(original, value) ==
    IF original # value THEN 0
    ELSE IF original = Zero THEN cleanRefund
    ELSE resetClearRefund

\* 2.2.2: restoring the original value refunds most of what was charged.
DirtyResetRefund(original, value) ==
    IF original # value THEN 0
    ELSE IF original = Zero THEN resetClearRefund
    ELSE cleanRefund

NetRefund(original, cur, value) ==
    IF original = cur
    THEN CleanSlotRefund(original, value)
    ELSE DirtyClearAdjust(original, cur, value) + DirtyResetRefund(original, value)

-----------------------------------------------------------------------------
(* What the engine charges for an SSTORE of each status (EIP-2200 gas      *)
(* schedule of an Istanbul engine).  Not part of the bridge: it is the     *)
(* other half of the contract the statuses and refunds are checked against.*)
SstoreCost(st) ==
    CASE st = "Added"                 -> SstoreSetGasEIP2200
      [] st \in {"Modified", "Deleted"} -> SstoreResetGasEIP2200
      [] OTHER                        -> SloadGasEIP2200

Snapshot == [current |-> current, refund |-> refund, balance |-> balance,
             suicided |-> suicided, logs |-> logs,
             sstoreGas |-> sstoreGas, sstores |-> sstores]

-----------------------------------------------------------------------------
Init ==
    /\ block = 0
    /\ committed \in [Slots -> Values]
    /\ current = committed
    /\ refund = 0
    /\ balance = [a \in Accounts |-> InitBalance]
    /\ suicided = {}
    /\ logs = <<>>
    /\ journal = <<>>
    /\ ops = 0
    /\ status = "Unchanged"
    /\ sstoreGas = 0
    /\ sstores = 0

\* Every callback is made by an engine executing some frame.
HostCall ==
    /\ journal # <<>>
    /\ ops < MaxOps
    /\ ops' = ops + 1

(* hostContext.SetStorage(addr, key, value). *)
SetStorage(addr, key, value) ==
    LET s        == <<addr, key>>
        oldValue == current[s]
        original == committed[s]
        st       == IF hasNetStorageCostEIP THEN NetStatus(original, oldValue, value)
                                            ELSE LegacyStatus(oldValue, value)
    IN
    /\ HostCall
    /\ sstores' = sstores + 1
    /\ IF oldValue = value
       THEN /\ status' = "Unchanged"
            /\ sstoreGas' = sstoreGas + SstoreCost("Unchanged")
            /\ UNCHANGED <<current, refund>>
       ELSE /\ current' = [current EXCEPT ![s] = value]
            /\ status' = st
            /\ sstoreGas' = sstoreGas + SstoreCost(st)
            /\ refund' = refund + IF hasNetStorageCostEIP
                                  THEN NetRefund(original, oldValue, value)
                                  ELSE LegacyRefund(oldValue, value)
    /\ UNCHANGED <<block, committed, balance, suicided, logs, journal>>

\* mutant: the account is credited away but never marked (no db.Suicide).
SelfdestructNoSuicide(addr, beneficiary) ==
    /\ HostCall
    /\ refund' = IF addr \notin suicided THEN refund + SelfdestructRefundGas
                                        ELSE refund
    /\ balance' = [balance EXCEPT ![beneficiary] = @ + balance[addr]]
    /\ UNCHANGED <<block, committed, current, logs, journal, status,
                   suicided, sstoreGas, sstores>>

(* hostContext.Selfdestruct(addr, beneficiary): refund once per account,   *)
(* then move the whole balance and mark the account (Suicide zeroes it).   *)
Selfdestruct(addr, beneficiary) ==
    LET credited == [balance EXCEPT ![beneficiary] = @ + balance[addr]]
    IN
    /\ HostCall
    /\ refund' = IF addr \notin suicided THEN refund + SelfdestructRefundGas
                                        ELSE refund
    /\ balance' = [credited EXCEPT ![addr] = 0]
    /\ suicided' = suicided \cup {addr}
    /\ UNCHANGED <<block, committed, current, logs, journal, status,
                   sstoreGas, sstores>>

\* mutant: the log is stamped with the next block number.
EmitLogNextBlock(addr) ==
    /\ HostCall
    /\ logs' = Append(logs, [address |-> addr, blockNumber |-> block + 1])
    /\ UNCHANGED <<block, committed, current, refund, balance, suicided,
                   journal, status, sstoreGas, sstores>>

(* hostContext.EmitLog(addr, topics, data): append, stamped with the block.*)
EmitLog(addr) ==
    /\ HostCall
    /\ logs' = Append(logs, [address |-> addr, blockNumber |-> block])
    /\ UNCHANGED <<block, committed, current, refund, balance, suicided,
                   journal, status, sstoreGas, sstores>>

-----------------------------------------------------------------------------
(* The EVM around the bridge: a call frame is entered with a snapshot of   *)
(* the journalled state, and left either keeping its effects or reverting  *)
(* them (revert, failure, out of gas all restore the snapshot).            *)

EnterFrame ==
    /\ Len(journal) < MaxDepth
    /\ journal' = Append(journal, Snapshot)
    /\ UNCHANGED <<block, committed, ops, status, stateVars>>

ReturnFrame ==
    /\ journal # <<>>
    /\ journal' = Front(journal)
    /\ UNCHANGED <<block, committed, ops, status, stateVars>>

RevertFrame ==
    LET snap == Last(journal)
    IN
    /\ journal # <<>>
    /\ journal' = Front(journal)
    /\ current' = snap.current
    /\ refund' = snap.refund
    /\ balance' = snap.balance
    /\ suicided' = snap.suicided
    /\ logs' = snap.logs
    /\ sstoreGas' = snap.sstoreGas
    /\ sstores' = snap.sstores
    /\ UNCHANGED <<block, committed, ops, status>>

(* The transaction ends: self-destructed accounts are deleted, the current *)
(* storage is committed and the refund settled.  The next transaction runs *)
(* in the same block or the next one.                                      *)
EndTransaction ==
    LET final == [s \in Slots |-> IF s[1] \in suicided THEN Zero ELSE current[s]]
    IN
    /\ journal = <<>>
    /\ block' \in {block, block + 1} \cap 0..MaxBlock
    /\ committed' = final
    /\ current' = final
    /\ balance' = [a \in Accounts |-> IF a \in suicided THEN 0 ELSE balance[a]]
    /\ refund' = 0
    /\ suicided' = {}
    /\ logs' = <<>>
    /\ ops' = 0
    /\ status' = "Unchanged"
    /\ sstoreGas' = 0
    /\ sstores' = 0
    /\ UNCHANGED journal

Next ==
    \/ \E a \in Accounts, k \in Keys, v \in Values : SetStorage(a, k, v)
    \/ \E a, b \in Accounts : Selfdestruct(a, b)
    \/ \E a \in Accounts : EmitLog(a)
    \/ EnterFrame
    \/ ReturnFrame
    \/ RevertFrame
    \/ EndTransaction

Spec == Init /\ [][Next]_vars

-----------------------------------------------------------------------------
TypeOK ==
    /\ block \in 0..MaxBlock
    /\ committed \in [Slots -> Values]
    /\ current \in [Slots -> Values]
    /\ refund \in Int
    /\ balance \in [Accounts -> Nat]
    /\ suicided \subseteq Accounts
    /\ logs \in Seq([address : Accounts, blockNumber : 0..MaxBlock])
    /\ Len(journal) <= MaxDepth
    /\ ops \in 0..MaxOps
    /\ status \in StorageStatus

(* Under net metering, SetStorage may SubRefund(NetSstoreClearRefund) for  *)
(* any slot whose original value was cleared in this transaction; StateDB  *)
(* panics when the counter is below the amount.  So the counter must hold  *)
(* one clear refund for every such slot, at every point of a transaction, *)
(* across nested frames that revert and self-destructs that add to it.     *)
ClearRefundBacked ==
    hasNetStorageCostEIP =>
        refund >= NetSstoreClearRefund *
                  Cardinality({s \in Slots : committed[s] # Zero /\ current[s] = Zero})

(* EIP-2200's net gas metering: whatever sequence of SSTOREs a transaction *)
(* makes, the gas the engine charged for them minus the refund SetStorage  *)
(* granted for them is one SLOAD per SSTORE plus the cost of moving each   *)
(* slot from its original to its current value; self-destruct refunds are *)
(* granted once per destroyed account on top of that.                     *)
NetTransitionCost(original, cur) ==
    IF original = cur THEN 0
    ELSE IF original = Zero THEN SstoreSetGasEIP2200 - SloadGasEIP2200
    ELSE IF cur = Zero THEN SstoreResetGasEIP2200 - SloadGasEIP2200 - NetSstoreClearRefund
    ELSE SstoreResetGasEIP2200 - SloadGasEIP2200

NetGasEquation ==
    sstoreGas - (refund - SelfdestructRefundGas * Cardinality(suicided))
      = SloadGasEIP2200 * sstores
        + SumFunction([s \in Slots |-> NetTransitionCost(committed[s], current[s])])

NetGasAccounting == hasNetStorageCostEIP => NetGasEquation

(* Selfdestruct only moves ether: the total balance never grows, whether   *)
(* an account destroys itself in favour of itself, of another destroyed    *)
(* account, or twice.                                                      *)
NoEtherCreated ==
    SumFunction(balance) <= InitBalance * Cardinality(Accounts)
=============================================================================
