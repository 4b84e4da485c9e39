# TLA+ models of the EVMC bridge (`src/core/vm/evmc.go`)

This directory holds TLA+ models of the EVMC bridge of this ledger client. The
bridge lets an external EVMC engine (EVM1 bytecode or EWASM) execute contract
code against the ledger state. The models are checked with TLC.

## 1. Inventory

The whole program logic is one file, `src/core/vm/evmc.go` (386 lines).
`src/Jenkinsfile` and `src/README.md` are CI and prose.

| Component | Code | State it keeps | Operations |
|---|---|---|---|
| Engine loading | `InitEVMCEVM`, `InitEVMCEwasm`, `initEVMC` (52-92) | one process-wide `*evmc.Instance` per capability | parse `path,k=v,...`, load, set options (warn on failure), check the capability (panic when it is missing) |
| Revision resolver | `getRevision` (302-327) | none | map (config, block) to one EVMC revision, newest fork first |
| Host context: storage | `hostContext.SetStorage` (116-184) | StateDB slots (committed and current), refund counter | classify a write as Unchanged/Added/Modified/Deleted/ModifiedAgain, and add or subtract refunds. Legacy rules apply unless both EIP-2200 and EIP-1884 are enabled |
| Host context: side effects | `Selfdestruct` (205-212), `EmitLog` (235-242) | balances, suicide marks, refund, log list | refund once per account, move the balance, mark the account; append a log |
| Host context: queries | `AccountExists`, `GetStorage`, `GetBalance`, `GetCodeSize`, `GetCodeHash`, `GetCode`, `GetTxContext`, `GetBlockHash` | none | reads. Some are fork-conditional; GetBlockHash has a 256-block window |
| Call dispatcher | `hostContext.Call` (244-299) | none | route CALL (static → StaticCall), DELEGATECALL, CALLCODE, CREATE, CREATE2 to the EVM; pre-Homestead code-store carve-out; create output only on revert; map errors to Revert/Failure |
| Engine bridge | `EVMC.Run` (330-377), `CanRun` (380-387) | `env.depth` (shared), `readOnly` (one per EVMC object) | depth++ with a deferred depth--, empty-code return, call-kind guess, set readOnly if not set (deferred reset), Execute, map the errors |
| External: chain config | outside src/ | activation block per transition | `IsEnabled` |
| External: StateDB and EVM | outside src/ | journal, depth limit, code deposit | snapshot/revert, the run() choice of interpreter, Finalise |

**How the parts interact.** The EVM calls `run()`. `run()` picks the EVMC
object whose `CanRun` accepts the code and calls its `Run`. `Run` calls the
engine's `Execute` and passes a `hostContext`. The engine calls back into the
host context: storage, balances, logs and `Call`. `Call` goes back into the EVM
(`Call`, `StaticCall`, `DelegateCall`, `CallCode`, `Create`, `Create2`), which
may enter `Run` again, recursively and on the same stack. These are the state
shared across frames:

- `env.depth`;
- the `readOnly` flag of each EVMC object;
- the StateDB: slots, refund counter, balances, suicide marks and logs. The
  EVM snapshots it on entry to a frame and restores it when the frame fails.

**What is hard.** There are no threads. The difficulty is in long sequences of
nested, reentrant calls:

- refund accounting over many writes to one slot, across frames that revert;
- the `readOnly` stack discipline: one flag per object, a conditional set and a
  deferred reset;
- the depth counter on every exit path;
- error mapping and partial failures (a code deposit that runs out of gas, an
  internal engine error);
- fork-conditional rules that must agree between the host and the revision the
  engine is given.

The hazards are listed one by one in `PROJECT.json`.

**What makes each part correct.**
- Revision: newest enabled fork wins; monotonic in the block height.
- Storage: the refund counter never underflows; net-metered refunds match
  EIP-2200's net gas; the state read back is the state written.
- Self-destruct: refund once per account; ether never created.
- Dispatcher/bridge: a static context stays static for every descendant;
  `readOnly` is reset when the static frames return; depth is balanced; the
  result reported to the engine agrees with what the EVM kept; return data only
  comes with success or revert.

## 2. Modules

| Module | Models | Notes |
|---|---|---|
| `ChainConfig` | `IsEnabled` (from the spec) | activation block per transition; `NoActivation` = never |
| `Revision` | `getRevision` | pure operator; `Revisions`, `Rank`, `Indicator` |
| `EngineLoading` | `InitEVMCEVM`, `InitEVMCEwasm`, `initEVMC` | `module[cap]` is `evmModule`/`ewasmModule` (none, an instance, or the panic that ends start-up); a module is its base capabilities and the settings its `SetOption` accepts, each with the capabilities it adds |
| `GasBoundary` | the gas conversions of `Run` (`int64(contract.Gas)` into `Execute`, `contract.Gas = uint64(gasLeft)`) and of `Call` (`uint64(gas)`, `int64(gasLeftU)`); the EVM's handling of a nested frame's gas (from the spec) | `frames` holds, per executing frame, the `contract.Gas` it started with and the engine's signed gas left. `Uint64`/`Int64` wrap modulo 2^W, as Go's conversions do. The engine may spend gas, give some to a nested call, or finish with any status |
| `MCGasBoundary` | instance with W = 8 | transaction gas below 2^(W-1), or at and above it |
| `MCEngineLoading` | instance: a Hera-like EWASM module with an `evm1mode` option that adds EVM1, an EVM1-only module, a path that does not load | every configuration of up to two option segments |
| `MCRevision` | checks `getRevision` | variables `conf`, `n`; `Evaluate` asks for any block height |
| `HostContext` | `SetStorage`, `Selfdestruct`, `EmitLog`, plus the StateDB journal (`EnterFrame`, `ReturnFrame`, `RevertFrame`, `EndTransaction`, from the spec) | one action per callback; each branch of SetStorage is an operator |
| `MCHostContext` | instance: 2 accounts × 1 key, values {0,1,2}, Istanbul at block 1 | |
| `EngineBridge` | `EVMC.Run` (`StartRun`, `FinishFrame`, `ReadOnlyAfterRun`), `hostContext.Call` (`HostCall`, `CreateErr`, `HostResult`); the EVM's frame entry (`EnterFrame`) | the stack of frames running `Run`; `readOnly` per capability; `world` = ids of frames whose effects are kept |
| `MCEngineBridge` | instances: one EVM1 object, or EVM1 + EWASM; a chain that is Frontier at block 0 and Istanbul at block 1 (`block` advances between transactions), or Istanbul only; one salt, or two salts that differ above bit 63 | |
| `StaticCallStack` | the abstract promise about read-only execution (EIP-214) | a stack of `[op, static]` frames: a frame is static exactly when its caller is or it was entered by STATICCALL; no create in a static frame |
| `HostQueries` | every query: `AccountExists`, `GetStorage`, `GetBalance`, `GetCodeSize`, `GetCodeHash`, `GetCode`, `GetTxContext`, `GetBlockHash` (and from the spec: `Exist`, `Empty`, `GetBalance`, `GetCode`, `GetCodeHash` of the StateDB, `Context.GetHash`) | pure operators; `Uint64` and `Int64` are the int64/uint64 conversions modulo `Word64`, `BigToHash` keeps a big integer's low 32 bytes (modulo `Word256`) |
| `MCHostQueries` | checks the queries | variables `conf`, `b`, `number`, `acct`; each step asks a new question |

How the state maps to the code:
- `HostContext.committed` and `HostContext.current` are `GetCommittedState` and
  `GetState`.
- `refund` is the StateDB refund counter. `suicided` is `HasSuicided`.
- `EngineBridge.depth` is `env.depth`. `readOnly[c]` is `EVMC.readOnly` of the
  object with capability `c`.
- Each stack entry holds what the deferred functions of `Run` need, plus the
  EVM's snapshot.
- `sstoreGas`/`sstores` (HostContext) and `ctxStatic`/`world`/`lastCall`/
  `create2Log` (EngineBridge) are history variables used only by the
  properties.
- `Code[a]` is the code of an account, told apart only by the `\x00asm`
  preamble `CanRun` tests ("bytecode" or "wasm"). `EnterFrame` runs the code on
  the object whose `CanRun` accepts it, or fails with
  `ErrNoCompatibleInterpreter`.
- A CREATE2 salt is a record `[hi, lo]`: bits 64..255 and bits 0..63, each
  abstracted to a small set. `SaltUint64` keeps `lo`, which is what
  `salt.Uint64()` followed by `SetUint64` does. `Create2Address` is EIP-1014's
  hash, taken as injective.
- `HostContext` takes its fork tests from `ChainConfig`. SetStorage meters
  net only when both EIP-2200 and EIP-1884 are enabled, which is what the
  spec (§4.2) requires. On EIP-1884 alone, `getRevision` still reports
  Istanbul, so the engine prices legacy statuses with the EIP-2200 schedule.
  That pricing belongs to the engine, outside the repository, and no property
  states it (hazard at line 137).

**Refinement.** `EngineBridge` defines `Abstract == INSTANCE StaticCallStack
WITH frames <- AbstractFrames`. `AbstractFrames` maps each frame on the stack
to its op and the `readOnly` value `Run` passes to `Execute`. Calls refused
before `Run`, and calls to empty code, are stuttering steps of the abstract
spec. `StaticDiscipline == Abstract!Spec` is checked as a PROPERTY.

## 3. Runs

| Run | What it checks |
|---|---|
| `storage_refunds` (MCHostContext.cfg) | `ClearRefundBacked`: under net metering, the refund counter covers one clear refund for every slot whose nonzero original is currently zero. So the SubRefund at line 171 can never panic. `NetGasAccounting`: gas charged for the surviving SSTOREs (EIP-2200 price of each returned status) minus refunds equals 800 per SSTORE plus the original→current cost of each slot; self-destruct refunds come on top, once per destroyed account. `NoEtherCreated`: total balance never grows. Together these cover forks (legacy in block 0, net metering in block 1), nested frames up to depth 2 that revert, and committed transactions. |
| `revision` (MCRevision.cfg) | `getRevision` equals the reference "newest fork whose indicator is enabled" for all 4^7 configurations over heights 0..2, and never decreases as the height grows. |
| `bridge_one_engine` | One EVM1 object. Frontier at block 0, Istanbul at block 1. Checked under `FairSpec`. These hold: `TypeOK`, `StaticDiscipline` (the refinement of `StaticCallStack`), `NoStaleReadOnly`, `OutcomeMatchesState` and `BridgeAtRest`. On the Frontier block, a CREATE whose code deposit fails is reported as a success and its effects are kept. `BridgeAtRest` says every transaction's frames all return, leaving `depth` at 0 and no object read-only. |
| `bridge_two_engines` | EVM1 + EWASM objects, Frontier then Istanbul. `NoStaleReadOnly` and `OutcomeMatchesState` hold. |
| `gas_boundary` (MCGasBoundary.cfg) | `GasConserved` holds with W = 8 and transaction gas 3 or 127. The gas the engines hold, plus what was spent or burnt, plus what came back to the transaction, equals the transaction's gas. This holds through nested calls (up to 3 frames) that succeed, revert or fail. |
| `gas_boundary_wide` (expected violation) | Transaction gas 128 or 255 (2^(W-1) or more). `GasConserved` fails at once: `int64(contract.Gas)` hands the engine negative gas (line 358). With 64-bit words this needs a frame gas of 2^63 or more. Validated blocks are unlikely to give that; the realistic path is a call simulation (eth_call) given that much gas with no gas cap, which is outside the repository. |
| `bridge_two_engines_static` (expected violation) | EVM1 + EWASM objects. `StaticContextPreserved` fails. Counterexample (TLC finds either orientation, depending on the order its workers explore): a frame made static by STATICCALL on one EVMC object, whose object sets its readOnly flag, DELEGATECALLs code of the other capability. For example, c1 (EVM1) STATICCALLs itself, then DELEGATECALLs c2's EWASM code, or the mirror case starting from c2. `Call` routes DELEGATECALL without its `static` argument (line 259), and `Run` on the other object finds that object's own flag unset (line 347). The code runs writable inside a static context. The same scenario also violates `StaticDiscipline`. |
| `bridge_create2_salt` (expected violation) | `Create2AddressesDistinct` fails. Contract c1 makes a CREATE2 with salt `[hi=0, lo=0]`, then one with `[hi=1, lo=0]`. `Call` passes `salt.Uint64()` (line 278), so both go to the same address; the second fails the collision check. By EIP-1014 they are different addresses. |
| `bridge_call_kind` (expected violation) | `CallKindMatchesOp` fails. A transaction calls c1; c1 CREATEs; the init code DELEGATECALLs c1. The delegate frame runs at the new address, which has no code yet, so `Run` guesses CREATE (line 340). |
| `engine_loading` (MCEngineLoading.cfg) | `LoadOutcome`: start-up panics exactly when the path is empty, the module does not load, or the module lacks the capability once all options are set. The last accepted value of a name counts; a refused or malformed option never aborts by itself. Deadlock is not checked, because start-up ends after both loads or after a panic. |
| `host_queries` (MCHostQueries.cfg) | `BlockHashWindow`: `GetBlockHash` returns a real hash exactly for the 256 blocks below the current one. This is checked at heights 0, 1, 255, 256, 257 and 300, for numbers at both ends of each window and for the negative numbers a window below block 256 reaches through `uint64(number)`. `CodeHashPerEIP1052`: from Constantinople on, `GetCodeHash` is zero for the accounts `AccountExists` denies, and for the accounts it admits it is the keccak of what `GetCode` returns (keccak("") without code). This is checked for every kind of account under configurations that activate EIP-161 no later than Constantinople. |

Each property of a passing run has a mutant in `PROJECT.json`: a plausible bug
in the mapped code that TLC must catch.

**Bounds.**
- Storage: at most 4 callbacks per transaction. That is enough for the
  sequences X→0→X→0 and 0→Y→0→Y, a revert between them, and writes to both
  accounts' slots around a self-destruct made twice or to itself.
- Storage frames: depth 2, enough for a revert inside a kept frame.
- Storage values: {0,1,2}, the smallest set that distinguishes zero, the
  original and a third value.
- Bridge: the passing runs allow 5 frames per transaction with the depth
  limit at 3. A call from the fourth nested frame is refused, so every
  transaction can reach the limit. Four nested frames give chains like
  static → call into the other engine → delegatecall → create. The violation
  runs keep 4 frames and depth 2, which already produce their
  counterexamples.
- CREATE2: the passing runs use one salt, from c1, to the create address n1.
  The violation run uses two salts that differ only above bit 63, which is
  the smallest case where the truncation matters.
- Queries: `Word64` is 2^16 instead of 2^64. Only its being larger than every
  height matters, since a wrapped negative number must not be an ancestor.
  The window width stays 256, as in the code.
- Gas: `GasBoundary` uses W = 8 instead of 64. The wrap happens exactly at
  2^(W-1), as in Go. The bound explores a frame's amounts of 0, 1, half and
  all of its gas, which is enough to put gas in every frame of a nested call.

**Fairness.** Only `bridge_one_engine` assumes fairness. Its `FairSpec` adds
weak fairness of `FinishFrame`: the innermost frame, which can always finish,
eventually does. The code justifies this through gas. Each frame has finite
gas, every engine step uses some, and nothing in the bridge waits. No fairness
is assumed for new transactions or host calls. `MaxFrames` bounds the host
calls of a transaction, so the stack cannot grow forever. All other
properties are safety properties.

## 4. Not modelled, and why

- In engine loading, the string splitting (`strings.Split`, `strings.Index`):
  segments are given as records. Logging is also left out.
- No property is stated of `GetStorage`, `GetBalance`, `GetCodeSize` and
  `GetTxContext`: each forwards one read, and its conversion is a bijection on
  the values it can be given. They are modelled as operators all the same.
  `GetTxContext` hands the engine `int64(GasLimit)`, which is negative for a
  gas limit of 2^63 or more (the same conversion as the finding at line 358).
  An EVMC engine reads the field back as uint64, so only an engine outside the
  repository could be misled by it.
- Gas amounts in EngineBridge and HostContext: gas is modelled on its own in
  `GasBoundary`, where the conversions matter.
- The bytecode interpreter: opaque. It may make any host call and end with any
  status.

The spec's scenario in §8 says `resolve(cfg, 99)` should give TangerineWhistle
when EIP-150 and EIP-155 activate only at block 100. By the code, and by the
spec's own algorithm, it gives Frontier (or Homestead if EIP-7 is enabled). We
read this as a slip in the spec, not in the code.

## 5. Plan

Done:
- Sitting 1: `ChainConfig`, `Revision`, `HostContext`, `EngineBridge`.
- Sitting 2:
  - `CanRun`;
  - the CREATE2 salt;
  - the call-kind property;
  - `HostQueries`;
  - the `StaticCallStack` refinement;
  - the Revision × HostContext composition (later withdrawn: the spec requires legacy storage mode on EIP-1884 alone);
  - `EngineLoading`.
- Sitting 3:
  - `GasBoundary`;
  - liveness (`BridgeAtRest`) under weak fairness;
  - the block advancing in EngineBridge, replacing the separate Frontier run.

- Sitting 4:
  - every query operator in `HostQueries`, including `GetTxContext`;
  - `CodeHashPerEIP1052`, which replaces the weaker existence check;
  - larger bridge and storage instances.

Storage composition, which would drive HostContext's SetStorage from
EngineBridge frames, was considered and not built. Its two questions are
already answered:
- A write from a static frame happens exactly when the engine is not handed
  the static flag, which is `StaticContextPreserved` (the DELEGATECALL
  finding).
- The refund journal following reverts is checked in HostContext, whose own
  frames snapshot and restore it (`ClearRefundBacked`, `NetGasAccounting`).

The product of the two state spaces would repeat these checks at a far
smaller bound.
