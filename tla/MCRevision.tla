----------------------------- MODULE MCRevision -----------------------------
(***************************************************************************)
(* Checks getRevision: the model asks it for block heights in any order    *)
(* (the blocks of a chain, historic calls) under every configuration of   *)
(* the transitions it tests, consistent or not.                            *)
(***************************************************************************)
EXTENDS Revision

CONSTANT MaxBlock   \* heights 0..MaxBlock; every activation lies among them

VARIABLES conf, n

vars == <<conf, n>>

\* Only the indicative transitions matter to getRevision.
Init ==
    /\ conf \in {c \in Configs(0..MaxBlock) :
                   \A t \in Transitions \ {Indicator[i] : i \in DOMAIN Indicator} :
                      c[t] = NoActivation}
    /\ n \in 0..MaxBlock

\* The bridge evaluates getRevision for the block of each Run.
Evaluate ==
    /\ n' \in 0..MaxBlock
    /\ UNCHANGED conf

Spec == Init /\ [][Evaluate]_vars

-----------------------------------------------------------------------------
(* Reference: the revision is the newest fork whose indicative transition  *)
(* is enabled, however the configuration orders the activations.           *)
NewestEnabled(c, h) ==
    LET enabled == {i \in DOMAIN Indicator : IsEnabled(c, Indicator[i], h)}
    IN IF enabled = {} THEN "Frontier"
       ELSE Revisions[1 + CHOOSE i \in enabled : \A j \in enabled : j <= i]

RevisionIsNewestEnabled == getRevision(conf, n) = NewestEnabled(conf, n)

(* Monotonic in the block height: for a fixed configuration, a later      *)
(* block never resolves to an older revision than an earlier block.        *)
RevisionMonotonic ==
    [][n' > n => Rank(getRevision(conf, n')) >= Rank(getRevision(conf, n))]_vars
=============================================================================
