------------------------------ MODULE MCReqCtx ------------------------------
(* ReqCtx for TLC: the threads are model values. *)
EXTENDS ReqCtx

CONSTANTS w1, p1, p2
=============================================================================
