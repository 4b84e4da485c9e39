------------------------------ MODULE Revision ------------------------------
(***************************************************************************)
(* getRevision of core/vm/evmc.go: the EVMC revision an engine executes    *)
(* under, resolved from the chain configuration at the block number by     *)
(* testing one indicative transition per fork, newest fork first.          *)
(***************************************************************************)
EXTENDS Integers, Sequences, ChainConfig

\* EVMC revisions in order of adoption.
Revisions == <<"Frontier", "Homestead", "TangerineWhistle", "SpuriousDragon",
               "Byzantium", "Constantinople", "Petersburg", "Istanbul">>

Rank(r) == CHOOSE i \in DOMAIN Revisions : Revisions[i] = r

\* The transition getRevision takes as the sign of each fork after Frontier.
Indicator == <<"EIP7", "EIP150", "EIP155", "EIP198", "EIP145",
               "EIP1283Disable", "EIP1884">>

\* mutant: the Byzantium and Spurious Dragon cases in the wrong order.
getRevisionSwapped(conf, n) ==
    IF IsEnabled(conf, "EIP1884", n) THEN "Istanbul"
    ELSE IF IsEnabled(conf, "EIP1283Disable", n) THEN "Petersburg"
    ELSE IF IsEnabled(conf, "EIP145", n) THEN "Constantinople"
    ELSE IF IsEnabled(conf, "EIP155", n) THEN "SpuriousDragon"
    ELSE IF IsEnabled(conf, "EIP198", n) THEN "Byzantium"
    ELSE IF IsEnabled(conf, "EIP150", n) THEN "TangerineWhistle"
    ELSE IF IsEnabled(conf, "EIP7", n) THEN "Homestead"
    ELSE "Frontier"

(* getRevision(env): the switch's first true case, newest fork first; an  *)
(* IF chain, since the cases overlap and only the first one counts.       *)
getRevision(conf, n) ==
    IF IsEnabled(conf, "EIP1884", n) THEN "Istanbul"
    ELSE IF IsEnabled(conf, "EIP1283Disable", n) THEN "Petersburg"
    ELSE IF IsEnabled(conf, "EIP145", n) THEN "Constantinople"
    ELSE IF IsEnabled(conf, "EIP198", n) THEN "Byzantium"
    ELSE IF IsEnabled(conf, "EIP155", n) THEN "SpuriousDragon"
    ELSE IF IsEnabled(conf, "EIP150", n) THEN "TangerineWhistle"
    ELSE IF IsEnabled(conf, "EIP7", n) THEN "Homestead"
    ELSE "Frontier"
=============================================================================
