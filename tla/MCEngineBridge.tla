-------------------------- MODULE MCEngineBridge --------------------------
(* Instantiates EngineBridge for TLC: a contract of each capability, an    *)
(* account without code, one address for creates.  The cfg sets the EVM's *)
(* depth limit, so that the deepest frames explored see a call refused.   *)
EXTENDS EngineBridge

\* Every transition from block 0 (Istanbul).
IstanbulConf == [t \in Transitions |-> 0]
\* Frontier at block 0, every later fork at block 1 (Istanbul).
IstanbulAtOneConf == [t \in Transitions |-> 1]

\* All code is EVM bytecode: one EVMC object.
OneEngineCode == [a \in {"c1", "c2", "e1", "n1"} |->
                    IF a \in {"c1", "c2"} THEN "bytecode" ELSE NoCode]

\* c2 holds EWASM code, run by the second EVMC object.
TwoEngineCode == [a \in {"c1", "c2", "e1", "n1"} |->
                    CASE a = "c1" -> "bytecode" [] a = "c2" -> "wasm" [] OTHER -> NoCode]

\* One salt: CREATE2 from c1 deploys to n1, where CREATE also deploys.
Salt0 == [hi |-> 0, lo |-> 0]
OneSalt == {Salt0}
OneSaltAddress == <<"c1", Salt0>> :> "n1"

\* Two salts that differ only above bit 63, and the two addresses
\* EIP-1014 derives for them from c1.
WideSalts == {Salt0, [hi |-> 1, lo |-> 0]}
WideSaltAddress == [p \in {"c1"} \X WideSalts |->
                      IF p[2].hi = 0 THEN "d1" ELSE "d2"]
WideSaltCode == OneEngineCode @@ ("d1" :> NoCode @@ "d2" :> NoCode)
=============================================================================
