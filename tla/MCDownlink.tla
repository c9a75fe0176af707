------------------------------ MODULE MCDownlink ------------------------------
(* Model-checking instance of DownlinkExchange. *)
EXTENDS DownlinkExchange
=============================================================================
