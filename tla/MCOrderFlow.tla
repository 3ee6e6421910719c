---------------------------- MODULE MCOrderFlow ----------------------------
(* Small instances of OrderFlow: which thread places what, and how many      *)
(* times each event of the environment may happen.                           *)
EXTENDS OrderFlow, TLC

CONSTANTS o1, o2, o3, hedger, rpc

ThreeOrders == o1 :> hedger @@ o2 :> rpc @@ o3 :> hedger
TwoOrders == o1 :> hedger @@ o2 :> rpc
OneOrder == o1 :> hedger

NoEvents == [e \in Events |-> 0]
AllEvents == [e \in Events |-> 1]
CancelAndRestart(n) == [NoEvents EXCEPT !["cancel"] = n, !["restart"] = n]
OneOfEach == CancelAndRestart(1)
OneOfEachAndClash == [OneOfEach EXCEPT !["clash"] = 1]
TwoOfEach == CancelAndRestart(2)

\* Bounds: the broker holds no order back (orders_ledger), nor fills or cancels
\* one (orders_ids).
PromptBroker == \A c \in ClientId : broker[c] # "PendingSubmit"
PlainBroker == \A c \in ClientId : broker[c] \in {"none", "new", "Submitted", "Inactive"}
=============================================================================
