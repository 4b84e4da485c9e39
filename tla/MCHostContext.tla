--------------------------- MODULE MCHostContext ---------------------------
(* Instantiates HostContext for TLC: two contracts with one storage key    *)
(* each, three storage words, and a chain that activates EIP-1884 and      *)
(* EIP-2200 (Istanbul) at block 1, so that transactions run under both     *)
(* the legacy and the net-metered SetStorage rules.                        *)
EXTENDS HostContext

CONSTANTS a1, a2, k1

MCAccounts == {a1, a2}
MCKeys == {k1}
MCValues == {0, 1, 2}

MCConf == [t \in Transitions |->
             IF t \in {"EIP1884", "EIP2200"} THEN 1 ELSE 0]

=============================================================================
