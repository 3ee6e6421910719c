------------------------------ MODULE MCRpcBus ------------------------------
(* A small instance of RpcBus: an order and the account, each event once.     *)
EXTENDS RpcBus, TLC

CONSTANTS order, account

Kinds == order :> "ORDER" @@ account :> "ACCOUNT"
Once == [e \in Events |-> 1]
=============================================================================
