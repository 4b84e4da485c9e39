-------------------------- MODULE MCEngineLoading --------------------------
(* Instantiates EngineLoading: an EWASM module that also runs EVM1 code    *)
(* while its evm1mode option says so (as Hera does), an EVM1-only module   *)
(* with one option, and a path that does not load; every configuration of *)
(* up to two option segments.                                              *)
EXTENDS EngineLoading

MCModules ==
    ("hera" :> [base |-> {"EWASM"},
                grants |-> (<<"evm1mode", "evm2wasm">> :> {"EVM1"})
                           @@ (<<"evm1mode", "fallback">> :> {})])
    @@ ("evmone" :> [base |-> {"EVM1"}, grants |-> (<<"O", "0">> :> {})])

Options == {NoEquals,
            [name |-> "evm1mode", value |-> "evm2wasm"],
            [name |-> "evm1mode", value |-> "fallback"],
            [name |-> "O", value |-> "0"]}

MCConfigs == {<<p>> \o s : p \in {"", "hera", "evmone", "missing"},
                          s \in SeqOf(Options, 2)}
=============================================================================
