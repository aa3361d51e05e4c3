---------------------------- MODULE MCRpcClient ----------------------------
(* Instances of RpcClient for TLC.                                         *)
EXTENDS RpcClient

CONSTANT c1   \* a goroutine
=============================================================================
