---------------------------- MODULE OrderLedger ----------------------------
(***************************************************************************)
(* What OrderManager promises whoever places orders through it, with no     *)
(* threads, messages or client ids in sight: each order is offered to the   *)
(* market at most once and while its call runs, a call that fails leaves    *)
(* nothing in the market, a recorded order has been in it, and the row says *)
(* filled only of an order that traded and never says open after that.      *)
(***************************************************************************)
CONSTANT Orders

VARIABLES call,     \* "idle", "busy", "recorded", "failed", "lost"
          market,   \* "none", "working", "filled", "dead"
          row       \* "none", "open", "filled", "cancelled"

vars == <<call, market, row>>

Init == /\ call = [o \in Orders |-> "idle"]
        /\ market = [o \in Orders |-> "none"]
        /\ row = [o \in Orders |-> "none"]

Call(o) == /\ call[o] = "idle"
           /\ call' = [call EXCEPT ![o] = "busy"]
           /\ UNCHANGED <<market, row>>

Take(o) == /\ call[o] = "busy" /\ market[o] = "none"
           /\ market' = [market EXCEPT ![o] = "working"]
           /\ UNCHANGED <<call, row>>

\* The market ends the order, whatever the caller is doing.
End(o) == /\ market[o] = "working"
          /\ \E m \in {"filled", "dead"} : market' = [market EXCEPT ![o] = m]
          /\ UNCHANGED <<call, row>>

\* What a row may say of an order: a cancellation is written when it is asked
\* for, a fill only when there is one.
May(o, r) == r = "filled" => market[o] = "filled"

Record(o) == /\ call[o] = "busy" /\ market[o] # "none"
             /\ call' = [call EXCEPT ![o] = "recorded"]
             /\ \E r \in {"open", "filled", "cancelled"} :
                   May(o, r) /\ row' = [row EXCEPT ![o] = r]
             /\ UNCHANGED market

Fail(o) == /\ call[o] \in {"idle", "busy"} /\ market[o] \in {"none", "dead"}
           /\ call' = [call EXCEPT ![o] = "failed"]
           /\ UNCHANGED <<market, row>>

Update(o) == /\ row[o] # "none"
             /\ \E r \in {"open", "filled", "cancelled"} :
                   /\ May(o, r) /\ ~(row[o] = "filled" /\ r = "open")
                   /\ row' = [row EXCEPT ![o] = r]
             /\ UNCHANGED <<call, market>>

\* The process dies: the calls under way are lost, rows and market are not.
Crash == /\ call' = [o \in Orders |-> IF call[o] = "busy" THEN "lost" ELSE call[o]]
         /\ UNCHANGED <<market, row>>

Next == \/ \E o \in Orders : \/ Call(o) \/ Take(o) \/ End(o) \/ Record(o)
                             \/ Fail(o) \/ Update(o)
        \/ Crash

Spec == Init /\ [][Next]_vars
=============================================================================
