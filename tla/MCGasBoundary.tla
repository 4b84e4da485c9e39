--------------------------- MODULE MCGasBoundary ---------------------------
(* Instantiates GasBoundary with 8-bit words: int64 becomes int8, so the   *)
(* largest gas an engine can be handed exactly is 127.                     *)
EXTENDS GasBoundary

\* Gas below 2^(W-1), the only gas a chain with a sane gas limit can give.
SignedRangeGas == {3, 2^(W - 1) - 1}
\* Gas of a transaction on a chain whose gas limit reaches 2^(W-1).
UnsignedRangeGas == {2^(W - 1), 2^W - 1}
=============================================================================
