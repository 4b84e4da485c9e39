---------------------------- MODULE HostQueries ----------------------------
(***************************************************************************)
(* The read-only callbacks of hostContext (core/vm/evmc.go): the ones     *)
(* whose answer depends on more than one StateDB read (AccountExists and   *)
(* GetCodeHash, which hide accounts that are empty, and GetBlockHash,      *)
(* which answers only inside a window of recent blocks), the ones that     *)
(* forward one read (GetStorage, GetBalance, GetCodeSize, GetCode) and     *)
(* GetTxContext, which converts the block context to EVMC's word types.    *)
(* The StateDB and the block hash lookup (Context.GetHash) are outside     *)
(* src/ and modelled from the spec.                                        *)
(***************************************************************************)
EXTENDS Integers, Sequences, ChainConfig

CONSTANTS
    Word64,     \* 2^64: conversions between int64 and uint64 wrap modulo it
    Word256     \* 2^256: common.BigToHash keeps the low 32 bytes

ASSUME Word64 \in Nat /\ Word64 % 2 = 0 /\ Word256 \in Nat /\ Word256 >= Word64

\* Hashes are numbers here: 0 is the zero hash common.Hash{}.
Zero == 0

(* Accounts as the StateDB tells them apart: absent, present but empty     *)
(* (no nonce, balance or code), with a balance only, or with code.        *)
AccountStates == {"missing", "empty", "funded", "contract"}
Exist(a) == a # "missing"
Empty(a) == a \in {"missing", "empty"}
\* StateDB.GetCodeHash: zero for an absent account, keccak("") without code.
EmptyCodeHash == 1
ContractCodeHash == 2
StateCodeHash(a) ==
    CASE a = "missing"  -> Zero
      [] a = "contract" -> ContractCodeHash
      [] OTHER          -> EmptyCodeHash

\* StateDB.GetBalance and GetCode: only accounts of those kinds hold any.
StateBalance(a) == IF a = "funded" THEN 1 ELSE 0
StateCode(a) == IF a = "contract" THEN <<96, 0, 85>> ELSE <<>>

\* Context.GetHash: the hash of an ancestor of block b, zero for any other.
BlockHashOf(k) == k + 1
GetHash(k, b) == IF k < b THEN BlockHashOf(k) ELSE Zero

\* uint64(number): two's complement reinterpretation of an int64.
Uint64(number) == number % Word64

\* big.Int.Int64 and int64(u) of a uint64: the low 64 bits, read signed.
Int64(x) == LET u == x % Word64 IN IF u >= Word64 \div 2 THEN u - Word64 ELSE u

\* common.BigToHash: the big-endian bytes of x, cut to the last 32.
BigToHash(x) == x % Word256

\* mutant: the EIP-161 test is missing; existence is asked of the StateDB.
AccountExistsNoFork(conf, n, a) == Exist(a)

(* hostContext.AccountExists: from EIP-161 on, an account exists when it  *)
(* is not empty; before, when the StateDB has it.                         *)
AccountExists(conf, n, a) ==
    IF IsEnabled(conf, "EIP161d", n) THEN ~Empty(a) ELSE Exist(a)

\* hostContext.GetCodeHash: zero for an empty account, else its code hash.
GetCodeHash(a) == IF Empty(a) THEN Zero ELSE StateCodeHash(a)

\* hostContext.GetStorage: GetState of the account's slot.
GetStorage(storage, addr, key) == storage[<<addr, key>>]

\* hostContext.GetBalance: the balance as a 32-byte word.
GetBalance(a) == BigToHash(StateBalance(a))

\* hostContext.GetCodeSize and GetCode: forwarded to the StateDB.
GetCodeSize(a) == Len(StateCode(a))
GetCode(a) == StateCode(a)

(* hostContext.GetTxContext: of the block context ctx (big integers and a  *)
(* uint64 gas limit), the words and int64s the engine is handed.          *)
GetTxContext(ctx) ==
    [gasPrice   |-> BigToHash(ctx.gasPrice),
     origin     |-> ctx.origin,
     coinbase   |-> ctx.coinbase,
     number     |-> Int64(ctx.number),
     timestamp  |-> Int64(ctx.time),
     gasLimit   |-> Int64(ctx.gasLimit),
     difficulty |-> BigToHash(ctx.difficulty)]

\* mutant: the window reaches one block too far back.
GetBlockHashWide(number, height) ==
    LET b == Int64(height)
    IN IF number >= b - 257 /\ number < b THEN GetHash(Uint64(number), height) ELSE Zero

(* hostContext.GetBlockHash(number) at block height: b is the height read *)
(* as an int64; ask Context.GetHash only for the 256 blocks below it.      *)
GetBlockHash(number, height) ==
    LET b == Int64(height)
    IN IF number >= b - 256 /\ number < b THEN GetHash(Uint64(number), height) ELSE Zero
=============================================================================
