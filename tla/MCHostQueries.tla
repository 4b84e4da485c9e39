--------------------------- MODULE MCHostQueries ---------------------------
(***************************************************************************)
(* Checks the queries of HostQueries against the spec's statement of them  *)
(* for every question an engine can ask within the bounds: a block height *)
(* on either side of 256 and every number around its window; every kind    *)
(* of account under configurations with and without EIP-161.              *)
(***************************************************************************)
EXTENDS HostQueries, Revision

CONSTANTS
    Heights,    \* block heights at which the engine asks
    Numbers,    \* int64 block numbers it asks GetBlockHash for
    Forks       \* activation blocks of EIP-161 and of Constantinople

VARIABLES
    conf,       \* chain configuration
    b,          \* Context.BlockNumber
    number,     \* argument of GetBlockHash
    acct        \* StateDB state of the account asked about

vars == <<conf, b, number, acct>>

(* The configuration activates EIP-161 and EIP-145 (Constantinople) at any *)
(* of Forks, all other transitions never; a consistent one, as is the      *)
(* configuration's contract, has EIP-161 no later than Constantinople.     *)
Consistent(c) ==
    c["EIP145"] # NoActivation =>
        c["EIP161d"] # NoActivation /\ c["EIP161d"] <= c["EIP145"]

Init ==
    /\ conf \in {c \in [Transitions -> Forks \cup {NoActivation}] :
                    /\ \A t \in Transitions \ {"EIP161d", "EIP145"} :
                          c[t] = NoActivation
                    /\ Consistent(c)}
    /\ b \in Heights
    /\ number \in Numbers
    /\ acct \in AccountStates

\* The engine asks GetBlockHash(number) in a frame at height b.
AskBlockHash ==
    /\ b' \in Heights
    /\ number' \in Numbers
    /\ UNCHANGED <<conf, acct>>

\* The engine asks AccountExists and EXTCODEHASH of an account.
AskAccount ==
    /\ acct' \in AccountStates
    /\ b' \in Heights
    /\ UNCHANGED <<conf, number>>

Next == AskBlockHash \/ AskAccount

Spec == Init /\ [][Next]_vars

\* Numbers at and around both ends of the window of each height, and the
\* negative numbers it reaches below a chain younger than 256 blocks.
MCNumbers == {-301, -257, -256, -255, -1, 0, 1, 44,
              254, 255, 256, 257, 299, 300}

-----------------------------------------------------------------------------
(* BLOCKHASH, as the spec states it: the real hash of block number exactly *)
(* when it is one of the 256 most recent blocks below the current one, the *)
(* zero hash otherwise: at number = b and at b - 257, above the chain, and *)
(* for the negative numbers a window below a young chain reaches, which    *)
(* GetBlockHash converts to uint64.                                        *)
BlockHashWindow ==
    GetBlockHash(number, b) =
        IF 0 <= number /\ b - 256 <= number /\ number < b
        THEN BlockHashOf(number) ELSE Zero

(* EIP-1052, as the engine sees it from Constantinople on: EXTCODEHASH of  *)
(* an account AccountExists denies is the zero hash, and of one it admits *)
(* is the keccak of the code GetCode returns, keccak("") without code.    *)
(* AccountExists, GetCodeHash and GetCode read different StateDB          *)
(* predicates under different fork tests; they must agree.                *)
Keccak(code) == IF code = <<>> THEN EmptyCodeHash ELSE ContractCodeHash

CodeHashPerEIP1052 ==
    Rank(getRevision(conf, b)) >= Rank("Constantinople") =>
        GetCodeHash(acct) = IF AccountExists(conf, b, acct)
                            THEN Keccak(GetCode(acct)) ELSE Zero
=============================================================================
