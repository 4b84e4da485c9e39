---------------------------- MODULE EngineLoading ----------------------------
(***************************************************************************)
(* Start-up of the EVMC bridge (core/vm/evmc.go): InitEVMCEVM and          *)
(* InitEVMCEwasm load one EVMC module per capability from a configuration  *)
(* string "path,name=value,...".  initEVMC panics when the path is empty   *)
(* or the module does not load, sets every option (a refused one is only   *)
(* a warning, an option without '=' is skipped), and only then checks     *)
(* that the module has the requested capability, panicking if not.  A     *)
(* panic ends the process, so nothing is loaded after it.                  *)
(*                                                                         *)
(* A module is what the loader and the module's SetOption and             *)
(* HasCapability (outside src/) reveal: the capabilities it always has,   *)
(* and the <<name, value>> settings it accepts, each with the             *)
(* capabilities it adds while it is the name's current value.             *)
(***************************************************************************)
EXTENDS Integers, SequencesExt

CONSTANTS
    Modules,    \* [loadable path -> [base : SUBSET Caps, grants : [<<name, value>> -> SUBSET Caps]]]
    Configs     \* configuration strings, split at ',': <<path, option, ...>>

Caps == {"EVM1", "EWASM"}
\* An option segment without '=': strings.Index(option, "=") < 0.
NoEquals == [name |-> "", value |-> ""]
None == [status |-> "none"]
Panicked == [status |-> "panicked"]
Fresh(path) == [status |-> "loaded", path |-> path, settings |-> <<>>]

VARIABLES
    module,     \* evmModule / ewasmModule: the instance loaded for each capability
    configOf    \* history: the configuration each capability was loaded from

vars == <<module, configOf>>

Loadable(path) == path \in DOMAIN Modules

\* instance.SetOption: a setting the module accepts replaces the name's value.
SetOption(inst, opt) ==
    IF opt # NoEquals /\ <<opt.name, opt.value>> \in DOMAIN Modules[inst.path].grants
    THEN [inst EXCEPT !.settings = (opt.name :> opt.value) @@ @]
    ELSE inst

HasCapability(inst, cap) ==
    cap \in Modules[inst.path].base
            \cup UNION {Modules[inst.path].grants[<<n, inst.settings[n]>>] :
                          n \in DOMAIN inst.settings}

\* mutant: the capability is checked before the options are set.
initEVMCEarlyCheck(cap, config) ==
    LET path == Head(config)
        inst == Fresh(path)
    IN IF path = "" \/ ~Loadable(path) THEN Panicked
       ELSE IF HasCapability(inst, cap)
            THEN FoldLeft(SetOption, inst, Tail(config))
            ELSE Panicked

(* initEVMC(cap, config): load, set the options in order, then check the  *)
(* capability; the instance, or the panic that ends start-up.              *)
initEVMC(cap, config) ==
    LET path == Head(config)
    IN IF path = "" \/ ~Loadable(path) THEN Panicked
       ELSE LET inst == FoldLeft(SetOption, Fresh(path), Tail(config))
            IN IF HasCapability(inst, cap) THEN inst ELSE Panicked

Init ==
    /\ module = [c \in Caps |-> None]
    /\ configOf = [c \in Caps |-> <<>>]

\* Start-up calls the initialiser of a capability once, if no panic came first.
Load(cap) ==
    /\ module[cap] = None
    /\ Panicked \notin Range(module)
    /\ \E config \in Configs :
         /\ module' = [module EXCEPT ![cap] = initEVMC(cap, config)]
         /\ configOf' = [configOf EXCEPT ![cap] = config]

InitEVMCEVM == Load("EVM1")
InitEVMCEwasm == Load("EWASM")

Next == InitEVMCEVM \/ InitEVMCEwasm

Spec == Init /\ [][Next]_vars

-----------------------------------------------------------------------------
(* The spec of engine loading: start-up fails exactly when the path is     *)
(* empty, the module does not load, or the module lacks the capability     *)
(* once all options are applied, the last accepted value of a name         *)
(* counting; a refused or malformed option never fails it by itself.       *)
LastAccepted(path, opts, n) ==
    LET ok == {i \in DOMAIN opts :
                 opts[i] # NoEquals /\ opts[i].name = n
                 /\ <<n, opts[i].value>> \in DOMAIN Modules[path].grants}
    IN IF ok = {} THEN "" ELSE opts[Max(ok)].value

Startable(cap, config) ==
    LET path == Head(config)
        opts == Tail(config)
    IN /\ path # "" /\ Loadable(path)
       /\ \/ cap \in Modules[path].base
          \/ \E g \in DOMAIN Modules[path].grants :
                /\ LastAccepted(path, opts, g[1]) = g[2]
                /\ cap \in Modules[path].grants[g]

LoadOutcome ==
    \A c \in Caps :
        module[c] # None => (module[c] # Panicked <=> Startable(c, configOf[c]))
=============================================================================
