------------------------------- MODULE MCUplink -------------------------------
(* Model-checking instance of UplinkExchange. *)
EXTENDS UplinkInvariant
=============================================================================
