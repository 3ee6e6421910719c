---------------------------- MODULE MCDeltaHedge ----------------------------
(* A small instance of DeltaHedge: one option, five hedge orders, a user's order of
   another stock, three or four events of the market, TWS and the system. *)
EXTENDS DeltaHedge, TLC

CONSTANTS call, june, other

Expiries == [c \in Options |-> june]
Deltas == {0, 1}
OrderStocks == [o \in Orders |-> IF o = 6 THEN other ELSE Spy]

\* Any four of the events, each once, or three with two trades; a user's stock order
\* with one of the others.
FewEvents(counts) ==
    LET total == SumFunction(counts) IN
    /\ \A e \in Events \ {"trade"} : counts[e] <= 1
    /\ CASE counts["stock"] = 1 -> total <= 2
         [] counts["trade"] = 2 -> total <= 3
         [] OTHER -> total <= 4 /\ counts["trade"] <= 1
=============================================================================
