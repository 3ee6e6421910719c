--------------------------- MODULE MCDataCollector ---------------------------
(* A small instance of DataCollector: two symbols, one with two expiries, a    *)
(* holiday, and a schedule that ends before the days do.                       *)
EXTENDS DataCollector, TLC

CONSTANTS spy, qqq

PerSymbol == spy :> 2 @@ qqq :> 1
Week == {0, 2, 3}
=============================================================================
