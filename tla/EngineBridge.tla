---------------------------- MODULE EngineBridge ----------------------------
(***************************************************************************)
(* The EVMC engine bridge of core/vm/evmc.go: EVMC.Run, which executes a   *)
(* frame on a loaded engine, and hostContext.Call, through which the       *)
(* engine starts nested frames of the five call kinds.                     *)
(*                                                                         *)
(* Calls are synchronous and strictly nested, so the state is a stack of   *)
(* the frames being executed.  One EVMC object exists per capability      *)
(* (EVM1 bytecode, EWASM), each with its own readOnly flag; the EVM picks  *)
(* the object whose CanRun accepts the code.  The EVM around the bridge    *)
(* (outside src/, modelled from the spec) checks the call depth, takes a   *)
(* snapshot, runs the frame and restores the snapshot when it fails; a     *)
(* CREATE also deposits the returned code, which may run out of gas.       *)
(* The engine itself is opaque: it may make any host call, and end a frame *)
(* with any status.                                                        *)
(***************************************************************************)
EXTENDS Integers, FiniteSets, SequencesExt, Revision

CONSTANTS
    Caps,           \* capabilities with a loaded EVMC object ("EVM1", "EWASM")
    Code,           \* [Addrs -> CodeKinds \cup {NoCode}]: the code of each account
    NewAddrs,       \* addresses a CREATE may deploy to (nonce-derived)
    Salts,          \* CREATE2 salts: [hi |-> bits 64..255, lo |-> bits 0..63]
    Create2Address, \* [sender, salt] -> address: EIP-1014's keccak derivation
    Conf,           \* chain configuration (ChainConfig)
    MaxBlock,       \* last block height explored
    CallCreateDepth,\* the EVM's depth limit (1024 in params)
    MaxFrames       \* frames per transaction (bounds the model)

NoCode == "none"
\* Code is told apart only by its "\x00asm" preamble.
CodeKinds == {"bytecode", "wasm"}
Addrs == DOMAIN Code
CallOps == {"CALL", "STATICCALL", "DELEGATECALL", "CALLCODE"}
CreateOps == {"CREATE", "CREATE2"}
\* What an engine frame may end with (EVMC status codes as Run sees them).
EngineStatus == {"Success", "Revert", "Failure", "InternalError"}

\* An EVM1 object is loaded; without one the native interpreter runs bytecode.
ASSUME Caps \subseteq {"EVM1", "EWASM"} /\ "EVM1" \in Caps
ASSUME \A a \in Addrs : Code[a] \in CodeKinds \cup {NoCode}
ASSUME NewAddrs \subseteq Addrs /\ \A a \in NewAddrs : Code[a] = NoCode
\* The hash is taken as injective; CREATE2 is explored from the senders in
\* its domain only (a bound: a sender's address is not itself derived).
ASSUME /\ Salts \subseteq [hi : Nat, lo : Nat]
       /\ DOMAIN Create2Address \subseteq Addrs \X Salts
       /\ \A p \in DOMAIN Create2Address :
            Code[Create2Address[p]] = NoCode
       /\ \A p, q \in DOMAIN Create2Address :
            Create2Address[p] = Create2Address[q] => p = q

VARIABLES
    depth,      \* env.depth
    readOnly,   \* readOnly flag of the EVMC object of each capability
    stack,      \* frames whose Run is executing, outermost first
    hasCode,    \* GetCodeSize(addr) > 0
    world,      \* ids of the frames whose effects are in the state
    nextId,     \* frames started in this transaction
    lastCall,   \* what the last finished call returned to its caller
    block,      \* Context.BlockNumber of the transaction being executed
    create2Log  \* history: [sender, salt, addr] of every CREATE2 the engine asked for

vars == <<depth, readOnly, stack, hasCode, world, nextId, lastCall, block, create2Log>>

isHomestead == IsEnabled(Conf, "EIP7", block)

\* EVMC.CanRun: the object runs code whose preamble asks for its capability.
CanRun(cap, code) ==
    cap = IF code = "wasm" THEN "EWASM" ELSE "EVM1"

\* lastCall while the innermost frame has not seen a call return.
NoCall == [id |-> -1, op |-> "CALL", result |-> "Failure", output |-> FALSE]

-----------------------------------------------------------------------------
Init ==
    /\ depth = 0
    /\ readOnly = [c \in Caps |-> FALSE]
    /\ stack = <<>>
    /\ hasCode = [a \in Addrs |-> Code[a] # NoCode /\ a \notin NewAddrs]
    /\ world = {}
    /\ nextId = 0
    /\ lastCall = NoCall
    /\ block = 0
    /\ create2Log = {}

\* mutant: readOnly is set, and reset on return, even when already set.
StartRunAlwaysSet(id, op, addr, cap, ro, ctxStatic, snap) ==
    LET setRO == ro
        ro2   == readOnly[cap] \/ setRO
    IN
    /\ depth' = depth + 1
    /\ readOnly' = [readOnly EXCEPT ![cap] = ro2]
    /\ stack' = Append(stack,
                  [id |-> id, op |-> op, addr |-> addr, cap |-> cap,
                   kind |-> IF hasCode[addr] THEN "Call" ELSE "Create",
                   static |-> ro2, setRO |-> setRO, ctxStatic |-> ctxStatic,
                   snap |-> snap])

\* mutant: depth is decremented on return but never incremented.
StartRunNoDepth(id, op, addr, cap, ro, ctxStatic, snap) ==
    LET setRO == ro /\ ~readOnly[cap]
        ro2   == readOnly[cap] \/ setRO
    IN
    /\ depth' = depth
    /\ readOnly' = [readOnly EXCEPT ![cap] = ro2]
    /\ stack' = Append(stack,
                  [id |-> id, op |-> op, addr |-> addr, cap |-> cap,
                   kind |-> IF hasCode[addr] THEN "Call" ELSE "Create",
                   static |-> ro2, setRO |-> setRO, ctxStatic |-> ctxStatic,
                   snap |-> snap])

(* EVMC.Run for a frame with code: depth++, guess the engine's call kind   *)
(* from the code size of the frame's address, set readOnly unless already  *)
(* set, and start the engine.  The frame record keeps what the deferred    *)
(* functions of Run need, and the snapshot the EVM took before run().      *)
(* ctxStatic is history: whether EIP-214 makes this frame static.          *)
StartRun(id, op, addr, cap, ro, ctxStatic, snap) ==
    LET setRO == ro /\ ~readOnly[cap]
        ro2   == readOnly[cap] \/ setRO
    IN
    /\ depth' = depth + 1
    /\ readOnly' = [readOnly EXCEPT ![cap] = ro2]
    /\ stack' = Append(stack,
                  [id |-> id, op |-> op, addr |-> addr, cap |-> cap,
                   kind |-> IF hasCode[addr] THEN "Call" ELSE "Create",
                   static |-> ro2, setRO |-> setRO, ctxStatic |-> ctxStatic,
                   snap |-> snap])

(* The EVM starts frame id with the effects of the frames in w: the depth  *)
(* check and, for a create, the collision check; then the snapshot, the    *)
(* frame's own effects (value transfer, nonce) and run(), which calls Run  *)
(* of the EVMC object whose CanRun accepts the code, or fails with         *)
(* ErrNoCompatibleInterpreter, which restores the snapshot.  A frame       *)
(* rejected before run(), or whose code is empty, returns at once.         *)
EnterFrame(id, w, op, addr, code, ro, ctxStatic) ==
    LET rejected == \/ depth > CallCreateDepth
                    \/ op \in CreateOps /\ hasCode[addr]
        runners  == {c \in Caps : CanRun(c, code)}
        Return(kept, result) ==
            /\ world' = IF kept THEN w \cup {id} ELSE w
            /\ lastCall' = [id |-> id, op |-> op, result |-> result, output |-> FALSE]
            /\ UNCHANGED <<depth, readOnly, stack, hasCode>>
    IN
    /\ id < MaxFrames
    /\ nextId' = id + 1
    /\ CASE rejected       -> Return(FALSE, "Failure")
         [] code = NoCode   -> Return(TRUE, "Success")
         [] runners = {}    -> Return(FALSE, "Failure")
         [] OTHER ->
              \E cap \in runners :
                /\ world' = w \cup {id}
                /\ StartRun(id, op, addr, cap, ro, ctxStatic,
                            [world |-> w, hasCode |-> hasCode])
                /\ lastCall' = NoCall
                /\ UNCHANGED hasCode

(* A transaction: a plain, writable call from an externally owned account, *)
(* in the block of the previous one or in the next block.                  *)
BeginTransaction(to) ==
    /\ stack = <<>>
    /\ block' \in {block, block + 1} \cap 0..MaxBlock
    /\ EnterFrame(0, {}, "CALL", to, Code[to], FALSE, FALSE)
    /\ UNCHANGED create2Log

\* hostContext.Call: the 256-bit salt goes through salt.Uint64(), which
\* keeps its low 64 bits, and back into a uint256.
SaltUint64(salt) == [hi |-> 0, lo |-> salt.lo]

\* Opcodes the engine has at the revision getRevision passes it.
EngineOps ==
    LET r == Rank(getRevision(Conf, block))
    IN {"CALL", "CALLCODE", "CREATE"}
       \cup (IF r >= Rank("Homestead") THEN {"DELEGATECALL"} ELSE {})
       \cup (IF r >= Rank("Byzantium") THEN {"STATICCALL"} ELSE {})
       \cup (IF r >= Rank("Constantinople") THEN {"CREATE2"} ELSE {})

(* hostContext.Call: the engine of the innermost frame f starts a nested   *)
(* call.  The engine passes its static flag on (EVMC_STATIC) and refuses   *)
(* to create in a static frame; Call routes a static CALL to StaticCall,   *)
(* the only route that asks run() for a read-only frame.  DELEGATECALL and *)
(* CALLCODE run the target's code at f's address; a create runs init code  *)
(* of either capability at a fresh address.                                *)
HostCall(op, target) ==
    LET f      == Last(stack)
        static == f.static \/ op = "STATICCALL"
        ctx    == f.ctxStatic \/ op = "STATICCALL"
        Create(addr) == \E init \in CodeKinds :
                          EnterFrame(nextId, world, op, addr, init, FALSE, ctx)
    IN
    /\ stack # <<>>
    /\ op \in EngineOps
    /\ op \in CreateOps => ~f.static
    /\ CASE op \in {"CALL", "STATICCALL"} ->
              /\ EnterFrame(nextId, world, op, target, Code[target], static, ctx)
              /\ UNCHANGED <<block, create2Log>>
         [] op \in {"DELEGATECALL", "CALLCODE"} ->
              /\ EnterFrame(nextId, world, op, f.addr, Code[target], FALSE, ctx)
              /\ UNCHANGED <<block, create2Log>>
         [] op = "CREATE" ->
              /\ target \in NewAddrs
              /\ Create(target)
              /\ UNCHANGED <<block, create2Log>>
         [] op = "CREATE2" ->
              \E salt \in Salts :
                LET p == <<f.addr, SaltUint64(salt)>>
                IN /\ p \in DOMAIN Create2Address
                   /\ target = Create2Address[p]
                   /\ Create(target)
                   /\ UNCHANGED block
                   /\ create2Log' = create2Log \cup
                        {[sender |-> f.addr, salt |-> salt, addr |-> target]}

\* mutant: the deferred reset of readOnly is missing.
ReadOnlyAfterRunKept(f) == readOnly

\* Run's deferred reset: clear the flag only if this Run set it.
ReadOnlyAfterRun(f) ==
    IF f.setRO THEN [readOnly EXCEPT ![f.cap] = FALSE] ELSE readOnly

\* mutant: the code-store error is suppressed whatever the fork.
CreateErrAnyFork(op, envErr) ==
    IF op = "CREATE" /\ envErr = "CodeStoreOutOfGas" THEN "none" ELSE envErr

\* hostContext.Call: a pre-Homestead CREATE ignores ErrCodeStoreOutOfGas.
CreateErr(op, envErr) ==
    IF op = "CREATE" /\ ~isHomestead /\ envErr = "CodeStoreOutOfGas"
    THEN "none" ELSE envErr

\* hostContext.Call's error mapping: revert stays visible, the rest fail.
HostResult(hostErr) ==
    CASE hostErr = "none"     -> "Success"
      [] hostErr = "Reverted" -> "Revert"
      [] OTHER                -> "Failure"

(* The engine ends the innermost frame with status st; for a successful    *)
(* create, deposit tells whether the EVM could pay for storing the code.   *)
(* Run: restore readOnly if it set it, depth--, map Revert to             *)
(* ErrExecutionReverted and an internal error to a wrapped error without   *)
(* output.  The EVM: restore the snapshot on any error, store the code of  *)
(* a create (ErrCodeStoreOutOfGas, which reverts only from Homestead on).  *)
(* hostContext.Call: suppress ErrCodeStoreOutOfGas of a pre-Homestead      *)
(* CREATE, hand a create's output back only on revert, and map the error   *)
(* to Revert or Failure.                                                   *)
FinishFrame(st, deposit) ==
    LET f        == Last(stack)
        isCreate == f.op \in CreateOps
        runErr   == CASE st = "Success" -> "none"
                      [] st = "Revert"  -> "Reverted"
                      [] OTHER          -> "Failed"
        runOut   == st \in {"Success", "Revert"}
        envErr   == IF isCreate /\ runErr = "none" /\ ~deposit
                    THEN "CodeStoreOutOfGas" ELSE runErr
        reverts  == envErr # "none" /\ (isHomestead \/ envErr # "CodeStoreOutOfGas")
        hostErr  == CreateErr(f.op, envErr)
        output   == IF isCreate THEN hostErr = "Reverted" /\ runOut ELSE runOut
    IN
    /\ stack # <<>>
    /\ deposit => isCreate /\ st = "Success"
    /\ depth' = depth - 1
    /\ readOnly' = ReadOnlyAfterRun(f)
    /\ stack' = Front(stack)
    /\ world' = IF reverts THEN f.snap.world ELSE world
    /\ hasCode' = CASE reverts -> f.snap.hasCode
                    [] isCreate /\ envErr = "none" -> [hasCode EXCEPT ![f.addr] = TRUE]
                    [] OTHER -> hasCode
    /\ lastCall' = [id |-> f.id, op |-> f.op, output |-> output,
                    result |-> HostResult(hostErr)]
    /\ UNCHANGED <<nextId, block, create2Log>>

Next ==
    \/ \E a \in Addrs : BeginTransaction(a)
    \/ \E op \in CallOps \cup CreateOps, a \in Addrs : HostCall(op, a)
    \/ \E st \in EngineStatus, deposit \in BOOLEAN : FinishFrame(st, deposit)

Spec == Init /\ [][Next]_vars

(* Every engine execution ends: each frame has finite gas and every step  *)
(* of the engine uses some, so the innermost frame, always able to finish, *)
(* eventually does.  No other step is assumed to happen.                   *)
Fairness == WF_vars(\E st \in EngineStatus, deposit \in BOOLEAN : FinishFrame(st, deposit))

FairSpec == Spec /\ Fairness

-----------------------------------------------------------------------------
TypeOK ==
    /\ depth \in Nat
    /\ readOnly \in [Caps -> BOOLEAN]
    /\ hasCode \in [Addrs -> BOOLEAN]
    /\ world \subseteq 0..MaxFrames - 1
    /\ nextId \in 0..MaxFrames
    /\ lastCall.result \in {"Success", "Revert", "Failure"}

(* EIP-214, and the spec of Run: once a frame is read-only every frame it  *)
(* calls, directly or not, runs read-only; no descendant can clear the     *)
(* flag, whichever call kind and EVMC object it goes through.              *)
StaticContextPreserved ==
    \A i \in DOMAIN stack : stack[i].ctxStatic => stack[i].static

(* Run's deferred reset: an EVMC object is read-only only while a frame of *)
(* a static context runs on it; once such frames return, the calls their  *)
(* caller makes next are writable again.                                   *)
NoStaleReadOnly ==
    \A c \in Caps :
        readOnly[c] => \E i \in DOMAIN stack : stack[i].cap = c /\ stack[i].ctxStatic

(* What hostContext.Call reports to the engine agrees with what the EVM    *)
(* did to the state: Success exactly when the callee's effects were kept   *)
(* (including the pre-Homestead CREATE whose code could not be stored),    *)
(* Revert or Failure when they were undone; return data only with Success  *)
(* or Revert, never with a generic failure.                                *)
OutcomeMatchesState ==
    lastCall # NoCall =>
    /\ lastCall.result = "Success" <=> lastCall.id \in world
    /\ lastCall.output => lastCall.result \in {"Success", "Revert"}

(* Refinement: the stack of frames, seen through the op that entered each *)
(* frame and the readOnly flag Execute was given for it (Run passes        *)
(* evm.readOnly), behaves as StaticCallStack allows.  Calls refused before *)
(* Run and calls to empty code are stuttering steps.                       *)
AbstractFrames ==
    [i \in DOMAIN stack |-> [op |-> stack[i].op, static |-> stack[i].static]]

Abstract == INSTANCE StaticCallStack
              WITH frames <- AbstractFrames, Ops <- CallOps \cup CreateOps

(* EIP-214 as the engines see it: every frame is executed read-only        *)
(* exactly when its caller was or it was entered by STATICCALL, whatever   *)
(* sequence of calls, returns and refusals led to it.                      *)
StaticDiscipline == Abstract!Spec

(* Run's deferred functions on every exit path: once a transaction has    *)
(* started, its frames all return and the bridge is back at rest, with     *)
(* env.depth at 0 and no EVMC object left read-only for the next one.      *)
BridgeAtRest ==
    stack # <<>> ~> (stack = <<>> /\ depth = 0 /\ \A c \in Caps : ~readOnly[c])

(* Run's call-kind guess ("Guess if this is a CREATE"): the engine is     *)
(* told Create for exactly the frames that run init code of a CREATE or    *)
(* CREATE2, and Call for every frame of the four call kinds.               *)
CallKindMatchesOp ==
    \A i \in DOMAIN stack :
        stack[i].kind = "Create" <=> stack[i].op \in CreateOps

(* EIP-1014, and the spec of the CREATE2 dispatch: the address is derived  *)
(* from the sender and the whole 256-bit salt, so two CREATE2s of         *)
(* different senders or salts never compete for one address (the second  *)
(* would fail the collision check, or find the first one's contract).     *)
Create2AddressesDistinct ==
    \A x, y \in create2Log :
        x.addr = y.addr => x.sender = y.sender /\ x.salt = y.salt
=============================================================================
