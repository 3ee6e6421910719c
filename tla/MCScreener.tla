------------------------------ MODULE MCScreener ------------------------------
(* A small instance of Screener: three strikes, two expiries, a chain that is   *)
(* whole, one with a gap, and updates without a quote.                      *)
EXTENDS Screener, TLC

Days == <<1, 2>>
Tick(p) == [bid |-> p, ask |-> p, last |-> p]
Whole == [k \in Options |-> Tick(IF k[2] = "c" THEN 4 - k[1] ELSE k[1])]
Untraded == [bid |-> 0, ask |-> 0, last |-> 5]
Narrow == [k \in {<<1, "p">>, <<2, "p">>, <<2, "c">>} |-> Untraded]
Unquoted == (<<2, "c">> :> [bid |-> NoQuote, ask |-> 1, last |-> 1])
Brought == {Whole, Narrow, Unquoted}
Curves == {f \in [Strikes -> {10, 25, 50, 90}] :
              \A s, t \in Strikes : s < t => f[s] > f[t]}
=============================================================================
