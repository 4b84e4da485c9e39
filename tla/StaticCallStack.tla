--------------------------- MODULE StaticCallStack ---------------------------
(***************************************************************************)
(* What the EVM promises a contract about read-only execution (EIP-214,    *)
(* and the spec of Run: "the read-only flag is set only if not already     *)
(* set, so child calls cannot clear it").  Execution is a stack of frames, *)
(* each entered by one call kind.  A frame is static exactly when its      *)
(* caller is static or it was entered by STATICCALL; a static frame never  *)
(* creates; a transaction starts with a plain CALL; frames return          *)
(* innermost first.  EngineBridge is checked to implement this.            *)
(***************************************************************************)
EXTENDS Sequences, SequencesExt

CONSTANTS
    Ops,        \* the call kinds
    CreateOps   \* those of them that deploy code

VARIABLE frames \* [op, static] of each frame being executed, outermost first

InStaticContext == frames # <<>> /\ Last(frames).static

Init == frames = <<>>

Enter(op) ==
    /\ frames = <<>> => op = "CALL"
    /\ op \in CreateOps => ~InStaticContext
    /\ frames' = Append(frames,
                   [op |-> op, static |-> InStaticContext \/ op = "STATICCALL"])

Return ==
    /\ frames # <<>>
    /\ frames' = Front(frames)

Next == (\E op \in Ops : Enter(op)) \/ Return

Spec == Init /\ [][Next]_frames
=============================================================================
