----------------------------- MODULE MCReqResp ------------------------------
(***************************************************************************)
(* ReqResp with two calls that overlap.                                    *)
(***************************************************************************)
EXTENDS ReqResp
=============================================================================
