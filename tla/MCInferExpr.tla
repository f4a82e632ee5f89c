---------------------------- MODULE MCInferExpr ----------------------------
(***************************************************************************)
(* Small widths for the runs of InferExpr: an Integer of two bits and a    *)
(* BigInt of three.                                                        *)
(***************************************************************************)
EXTENDS InferExpr

CONSTANTS a, b

LiteralSet == {0, -3}

Results == {{0}, {0, Null}}

=============================================================================
