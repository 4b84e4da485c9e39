---------------------------- MODULE ChainConfig ----------------------------
(***************************************************************************)
(* The chain configuration as the EVMC bridge (core/vm/evmc.go) consults   *)
(* it: ChainConfig().IsEnabled(transition, blockNumber).  A configuration  *)
(* is a function from the named protocol transitions to the block at which *)
(* each is activated, or NoActivation when the chain never activates it.   *)
(* The configuration object lives outside src/; its predicate is modelled  *)
(* from the spec: a transition is enabled at every height at or above its  *)
(* activation block.                                                       *)
(***************************************************************************)
EXTENDS Integers

\* The transitions evmc.go asks about (GetEIP<n>Transition).
Transitions == {"EIP7", "EIP150", "EIP155", "EIP198", "EIP145",
                "EIP1283Disable", "EIP1884", "EIP2200", "EIP161d"}

\* Not a block height: the transition is never activated (a nil
\* Get<...>Transition() in the configuration).
NoActivation == -1

Configs(Blocks) == [Transitions -> Blocks \cup {NoActivation}]

IsEnabled(conf, transition, n) ==
    /\ conf[transition] # NoActivation
    /\ conf[transition] <= n
=============================================================================
