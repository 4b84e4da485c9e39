---------------------------- MODULE GasBoundary ----------------------------
(***************************************************************************)
(* Gas crossing the EVMC boundary in core/vm/evmc.go.  The EVM keeps gas   *)
(* as uint64 (contract.Gas); an EVMC engine keeps it as int64.  Run hands  *)
(* the engine int64(contract.Gas) and stores uint64(gasLeft) back;         *)
(* hostContext.Call turns the engine's int64 gas for a nested call into    *)
(* uint64 and the EVM's uint64 leftover back into int64.  The EVM (outside *)
(* src/, from the spec) runs the nested frame with the gas it is given and *)
(* burns what is left when the frame fails other than by revert.           *)
(*                                                                         *)
(* Words keep their width: W is 64 in the code and smaller here; the       *)
(* conversions wrap modulo 2^W exactly as Go's do.                         *)
(***************************************************************************)
EXTENDS Integers, SequencesExt

CONSTANTS
    W,          \* bits of a gas word (64 in the code)
    TxGas,      \* gas a transaction's outermost frame starts with
    MaxDepth    \* nested frames explored

ASSUME W \in Nat \ {0} /\ TxGas \subseteq 0..2^W - 1

\* Go's uint64(x) and int64(x): the same bits, read unsigned or signed.
Uint64(x) == x % 2^W
Int64(x) == LET u == x % 2^W IN IF u >= 2^(W - 1) THEN u - 2^W ELSE u

\* EVMC status of a finished frame, as the EVM sees Run's error.
Status == {"Success", "Revert", "Failure"}

VARIABLES
    frames,     \* per executing frame: gas = contract.Gas at Run, left = engine's gas left
    spent,      \* history: gas used by the engines and burnt by the EVM
    returned,   \* history: gas the outermost frame gave back to the transaction
    txGas       \* history: gas the transaction started with

vars == <<frames, spent, returned, txGas>>

\* Run: the engine starts with int64(contract.Gas).
Execute(gas) == [gas |-> gas, left |-> Int64(gas)]

Init ==
    /\ frames = <<>>
    /\ spent = 0
    /\ returned = 0
    /\ txGas = 0

BeginTransaction(g) ==
    /\ frames = <<>>
    /\ frames' = <<Execute(g)>>
    /\ spent' = 0
    /\ returned' = 0
    /\ txGas' = g

\* The engine of the innermost frame spends k of its gas.
UseGas(k) ==
    LET f == Last(frames)
    IN /\ frames # <<>>
       /\ 1 <= k /\ k <= f.left
       /\ frames' = [frames EXCEPT ![Len(frames)].left = @ - k]
       /\ spent' = spent + k
       /\ UNCHANGED <<returned, txGas>>

(* hostContext.Call: the engine gives gas c to a nested call; gasU :=      *)
(* uint64(gas), and the EVM runs the callee's Run with it.                 *)
Call(c) ==
    LET f    == Last(frames)
        gasU == Uint64(c)
    IN /\ frames # <<>>
       /\ Len(frames) < MaxDepth
       /\ 0 <= c /\ c <= f.left
       /\ frames' = Append([frames EXCEPT ![Len(frames)].left = @ - c],
                           Execute(gasU))
       /\ UNCHANGED <<spent, returned, txGas>>

\* mutant: Run does not store the engine's gasLeft in contract.Gas.
StoreGasLeftMissing(f, gasLeft) == f.gas

\* Run: contract.Gas = uint64(gasLeft).
StoreGasLeft(f, gasLeft) == Uint64(gasLeft)

(* The engine ends the innermost frame with status st and gasLeft (none    *)
(* after a failure; it cannot end with more than it has).  Run stores it;  *)
(* the EVM burns contract.Gas unless the frame succeeded or reverted, and  *)
(* gives the rest back: to hostContext.Call, which returns                 *)
(* int64(gasLeftU) to the caller's engine, or to the transaction.          *)
FinishFrame(st) ==
    LET f        == Last(frames)
        gasLeft  == IF st = "Failure" THEN 0 ELSE f.left
        gas      == StoreGasLeft(f, gasLeft)
        leftover == IF st = "Failure" THEN 0 ELSE gas
        rest     == Front(frames)
    IN /\ frames # <<>>
       /\ f.left >= 0 \/ st = "Failure"
       /\ spent' = spent + (f.left - gasLeft) + (gas - leftover)
       /\ IF rest = <<>>
          THEN /\ frames' = rest
               /\ returned' = leftover
          ELSE /\ frames' = [rest EXCEPT ![Len(rest)].left = @ + Int64(leftover)]
               /\ UNCHANGED returned
       /\ UNCHANGED txGas

\* Amounts explored: none, one unit, half, or all of the engine's gas.
Amounts == IF frames = <<>> THEN {}
           ELSE LET l == Last(frames).left IN {0, 1, l \div 2, l}

Next ==
    \/ \E g \in TxGas : BeginTransaction(g)
    \/ \E k \in Amounts : UseGas(k)
    \/ \E c \in Amounts : Call(c)
    \/ \E st \in Status : FinishFrame(st)

Spec == Init /\ [][Next]_vars

-----------------------------------------------------------------------------
(* No gas is made or lost at the boundary: at every point of a transaction *)
(* the gas the engines still hold, plus what they and the EVM used or      *)
(* burnt, plus what came back to the transaction, is what the transaction  *)
(* started with, across nested calls that succeed, revert or fail.         *)
GasConserved ==
    spent + FoldSeq(LAMBDA f, acc : f.left + acc, 0, frames) + returned = txGas
=============================================================================
