----------------------------- MODULE DeltaHedge -----------------------------
(***************************************************************************)
(* The delta hedge: DeltaHedgeEngine.run sums the deltas of the portfolio,   *)
(* adds what working stock orders will bring, its own and those of users,    *)
(* and trades the difference in SPY. Four threads write what it reads: the   *)
(* reader (updatePortfolio, openOrder, orderStatus, error), main_loop        *)
(* (compute_position_greeks), and through OrderManager.place_order the hedge *)
(* itself and the RPC server.                                                *)
(* Deltas are whole numbers, per contract; an option's greeks are one        *)
(* number; any stock has delta 1, as in the code. TWS sends its messages in  *)
(* order and only the reader sees them on the way: a callback here is the    *)
(* sending and the handling of one. The session stays up (OrderFlow is about *)
(* its loss), and a stock is traded through this program only.               *)
(***************************************************************************)
EXTENDS Integers, FiniteSets, FiniteSetsExt

CONSTANTS
    Options,     \* option contracts
    ExpiryOf,    \* lastTradeDateOrContractMonth
    Spy,         \* what the hedge trades
    UnitDeltas,  \* deltas an option may have
    Margin,      \* DELTA_MARGIN
    Orders,      \* stock orders: a bound
    UserOrders,  \* those of users, of any stock
    StockOf,     \* the stock of each
    Allowed(_),  \* bound: how often environment events may happen
    None, Absent

HedgeOrders == Orders \ UserOrders
Stocks == {StockOf[o] : o \in Orders}
Contracts == Options \cup Stocks
Events == {"trade", "move", "expire", "stock", "cancel", "reject", "raise", "late"}

ASSUME HedgeAssumption ==
    /\ Stocks \cap Options = {}
    /\ IsFiniteSet(Options)
    /\ IsFiniteSet(Orders) /\ Orders \subseteq Nat
    /\ UserOrders \subseteq Orders
    /\ \A o \in HedgeOrders : StockOf[o] = Spy
    /\ UnitDeltas \subseteq Int
    /\ Margin \in Nat \ {0}
    /\ None \notin Int /\ Absent \notin Int /\ None # Absent

VARIABLES
    held, unit,      \* positions at the broker; deltas of one contract
    expired,
    size, filled, life,  \* stock orders at the broker; size is signed
    position, delta, \* account_data.portfolio: position, IBKRPosition.delta
    remaining,       \* open_orders[o].remaining; Absent without an entry
    main, exps,      \* main_loop; position_expiries
    hedger, seen,    \* the hedge thread; position_delta
    shock,           \* by how much the exposure has moved without the hedge; a
                     \* user's stock order counts twice
    misread,         \* by how much greeks were off when they were computed
    happened         \* how often each of Events has

market == <<held, unit, expired>>
orders == <<size, filled, life>>
account == <<position, delta>>
mainLoop == <<main, exps, misread>>
engine == <<hedger, seen>>
vars == <<held, unit, expired, size, filled, life, position, delta, remaining,
          main, exps, misread, hedger, seen, shock, happened>>

-----------------------------------------------------------------------------
Abs(n) == IF n < 0 THEN -n ELSE n
Sign(n) == IF n < 0 THEN -1 ELSE 1

Happens(e) ==
    /\ happened' = [happened EXCEPT ![e] = @ + 1]
    /\ Allowed(happened')

\* For a mutant: the sign of a sale forgotten.
LeftSigned(o) == size[o] - filled[o]

Left(o) == Abs(size[o]) - filled[o]
Working(o) == life[o] \in {"sent", "working"}

\* What the account really stands to gain from a move by one of the underlying, and
\* of every other stock, which the code takes for it, once its working orders have
\* filled.
Exposure == SumFunction([s \in Stocks |-> held[s]])
                + SumFunction([c \in Options |-> held[c] * unit[c]])
                + SumFunction([o \in {p \in Orders : Working(p)} |->
                                  Sign(size[o]) * Left(o)])

Known(c) == position[c] # Absent

\* TWS has no news: what it has reported is how things are.
InLine(c) == position[c] = held[c] \/ (~Known(c) /\ held[c] = 0)
Settled ==
    /\ \A c \in Contracts : InLine(c)
    /\ \A o \in Orders : life[o] = "working" => remaining[o] = Left(o)
    /\ \A o \in Orders : life[o] = "cancelled" => remaining[o] = Absent

TypeOK ==
    /\ held \in [Contracts -> Int]
    /\ unit \in [Options -> UnitDeltas]
    /\ expired \subseteq Options
    /\ size \in [Orders -> Int]
    /\ filled \in [Orders -> Nat]
    /\ \A o \in Orders : filled[o] <= Abs(size[o])
    /\ life \in [Orders -> {"unused", "sent", "working", "cancelled", "rejected"}]
    /\ position \in [Contracts -> Int \cup {Absent}]
    /\ delta \in [Options -> Int \cup {None}]
    /\ remaining \in [Orders -> Nat \cup {None, Absent}]
    /\ main \in {"loop", "greeks"}
    /\ exps \subseteq {ExpiryOf[c] : c \in Options}
    /\ hedger \in {"sleep", "orders", "placing"}
    /\ seen \in Int
    /\ shock \in Nat
    /\ misread \in Nat
    /\ happened \in [Events -> Nat]

Init ==
    /\ held = [c \in Contracts |-> 0]
    /\ unit \in [Options -> UnitDeltas]
    /\ expired = {}
    /\ size = [o \in Orders |-> 0]
    /\ filled = [o \in Orders |-> 0]
    /\ life = [o \in Orders |-> "unused"]
    /\ position = [c \in Contracts |-> Absent]
    /\ delta = [c \in Options |-> None]
    /\ remaining = [o \in Orders |-> Absent]
    /\ main = "loop" /\ exps = {}
    /\ hedger = "sleep" /\ seen = 0
    /\ shock = 0 /\ misread = 0
    /\ happened = [e \in Events |-> 0]

-----------------------------------------------------------------------------
(* The broker and the market: external.                                      *)

\* The user's option orders fill.
Trade(c, n) ==
    /\ c \notin expired
    /\ Happens("trade")
    /\ held' = [held EXCEPT ![c] = @ + n]
    /\ shock' = shock + Abs(n * unit[c])
    /\ UNCHANGED <<unit, expired, orders, account, remaining, mainLoop, engine>>

Move(c, d) ==
    /\ c \notin expired /\ d # unit[c]
    /\ Happens("move")
    /\ unit' = [unit EXCEPT ![c] = d]
    /\ shock' = shock + Abs(held[c] * (d - unit[c]))
    /\ UNCHANGED <<held, expired, orders, account, remaining, mainLoop, engine>>

Expire(c) ==
    /\ c \notin expired
    /\ Happens("expire")
    /\ expired' = expired \cup {c}
    /\ held' = [held EXCEPT ![c] = 0]
    /\ shock' = shock + Abs(held[c] * unit[c])
    /\ UNCHANGED <<unit, orders, account, remaining, mainLoop, engine>>

Fill(o) ==
    /\ life[o] = "working" /\ Left(o) > 0
    /\ \E n \in {1, Left(o)} :
          /\ filled' = [filled EXCEPT ![o] = @ + n]
          /\ held' = [held EXCEPT ![StockOf[o]] = @ + Sign(size[o]) * n]
    /\ UNCHANGED <<unit, expired, size, life, account, remaining, mainLoop,
                   engine, shock, happened>>

\* place_order of the RPC server: an entry of which TWS has not said what remains.
\* It moves the exposure, which is what it will be once orders have filled, and a
\* report of it that is behind misleads the hedge as one of its own does: twice.
UserOrder(o, n) ==
    /\ life[o] = "unused"
    /\ Happens("stock")
    /\ size' = [size EXCEPT ![o] = n]
    /\ life' = [life EXCEPT ![o] = "sent"]
    /\ remaining' = [remaining EXCEPT ![o] = None]
    /\ shock' = shock + 2 * Abs(n)
    /\ UNCHANGED <<market, filled, account, mainLoop, engine>>

\* Someone cancels what is left of an order.
Cancel(o) ==
    /\ life[o] = "working" /\ Left(o) > 0
    /\ Happens("cancel")
    /\ life' = [life EXCEPT ![o] = "cancelled"]
    /\ shock' = shock + Left(o)
    /\ UNCHANGED <<market, size, filled, account, remaining, mainLoop, engine>>

-----------------------------------------------------------------------------
(* The reader thread.                                                        *)

\* A report that falls between the two sums of the hedge is a late one.
InTime == hedger # "orders" /\ UNCHANGED happened
Overtakes == hedger = "orders" /\ Happens("late")

\* TWS accepts: place_order has its permId. orderStatus says what remains.
openOrder(o) ==
    /\ life[o] = "sent"
    /\ life' = [life EXCEPT ![o] = "working"]
    /\ UNCHANGED <<market, size, filled, account, remaining, mainLoop, engine,
                   shock, happened>>

\* TWS refuses: error(), then an openOrder with status Inactive.
Reject(o) ==
    /\ life[o] = "sent"
    /\ Happens("reject")
    /\ life' = [life EXCEPT ![o] = "rejected"]
    /\ shock' = shock + Left(o)
    /\ UNCHANGED <<market, size, filled, account, remaining, mainLoop, engine>>

orderStatus(o) ==
    /\ life[o] \in {"working", "cancelled", "rejected"}
    /\ remaining[o] \notin {Absent, Left(o)}
    /\ InTime \/ Overtakes
    /\ remaining' = [remaining EXCEPT ![o] = Left(o)]
    /\ UNCHANGED <<market, orders, account, mainLoop, engine, shock>>

\* Code 202 takes the entry out of open_orders.
error(o) ==
    /\ life[o] = "cancelled" /\ remaining[o] # Absent
    /\ InTime \/ Overtakes
    /\ remaining' = [remaining EXCEPT ![o] = Absent]
    /\ UNCHANGED <<market, orders, account, mainLoop, engine, shock>>

\* add_position makes an entry without greeks, update_position leaves them.
updatePortfolio(c) ==
    /\ ~InLine(c)
    /\ InTime \/ Overtakes
    /\ position' = [position EXCEPT ![c] = held[c]]
    /\ UNCHANGED <<market, orders, delta, remaining, mainLoop, engine, shock>>

-----------------------------------------------------------------------------
(* main_loop: compute_position_greeks.                                       *)

Held == {c \in Options : Known(c)}

\* get_time_to_expiry raises for a date that has passed: while such an option
\* is in the portfolio, which nothing ever leaves, no round comes further.
get_option_expiries ==
    /\ main = "loop"
    /\ Held \cap expired = {}
    /\ exps' = {ExpiryOf[c] : c \in Held}
    /\ main' = "greeks"
    /\ UNCHANGED <<market, orders, account, remaining, misread, engine, shock, happened>>

\* Greeks that are not there count for nothing.
Greeks(d) == IF d = None THEN 0 ELSE d

\* By how much the greeks that are about to be written are off: those of a
\* position of which TWS has not reported all.
Misreading(new) ==
    SumFunction([c \in Options |-> IF new[c] = delta[c] THEN 0
                                  ELSE Abs(Greeks(new[c]) - held[c] * unit[c])])

\* For a mutant: greeks that are there are left alone.
ComputeMissing ==
    /\ main = "greeks"
    /\ {ExpiryOf[c] : c \in Held} \subseteq exps
    /\ Held \cap expired = {}
    /\ delta' = [c \in Options |-> IF Known(c) /\ delta[c] = None
                                 THEN position[c] * unit[c] ELSE delta[c]]
    /\ misread' = misread + Misreading(delta')
    /\ main' = "loop" /\ exps' = {}
    /\ UNCHANGED <<market, orders, position, remaining, engine, shock, happened>>

\* The quote of the underlying is taken here: a move after it and one after
\* this step are alike.
compute_option_position_greeks ==
    /\ main = "greeks"
    /\ {ExpiryOf[c] : c \in Held} \subseteq exps
    /\ Held \cap expired = {}
    /\ delta' = [c \in Options |-> IF Known(c) THEN position[c] * unit[c] ELSE None]
    /\ misread' = misread + Misreading(delta')
    /\ main' = "loop" /\ exps' = {}
    /\ UNCHANGED <<market, orders, position, remaining, engine, shock, happened>>

\* sigmas[exp] is missing for an option that has come since, an option has
\* expired since, or a forecast or the quote cannot be had.
ComputeRaises ==
    /\ main = "greeks"
    /\ \/ /\ \/ ~({ExpiryOf[c] : c \in Held} \subseteq exps)
             \/ Held \cap expired # {}
          /\ UNCHANGED happened
       \/ Happens("raise")
    /\ main' = "loop" /\ exps' = {}
    /\ UNCHANGED <<market, orders, account, remaining, misread, engine, shock>>

-----------------------------------------------------------------------------
(* The hedge thread.                                                         *)

\* ResourceNotAvailableException: some option has no greeks yet.
GreeksKnown == \A c \in Held : delta[c] # None
\* Whatever is not an option counts with delta 1.
StocksKnown == {s \in Stocks : Known(s)}
get_net_greeks == SumFunction([c \in Held |-> delta[c]])
                      + SumFunction([s \in StocksKnown |-> position[s]])

\* Bound: how many rounds run on reports that are behind.
get_position_greeks ==
    /\ hedger = "sleep"
    /\ GreeksKnown
    /\ (Settled /\ UNCHANGED happened) \/ (~Settled /\ Happens("late"))
    /\ seen' = get_net_greeks
    /\ hedger' = "orders"
    /\ UNCHANGED <<market, orders, account, remaining, mainLoop, shock>>

\* open_orders: those of any stock, whoever has placed them.
Entries == {o \in Orders : remaining[o] # Absent}

\* np.float64(None) is not a number, and neither is a sum with it.
OrderDeltaKnown == \A o \in Entries : remaining[o] # None
\* For a mutant: only the portfolio counts.
PositionsOnly == 0

get_order_delta ==
    SumFunction([o \in {p \in Entries : remaining[p] # None} |->
                    Sign(size[o]) * remaining[o]])

NeedsHedge(net) == Abs(net) >= Margin

\* Comparing what is not a number is false, as it is inside the margin.
NoHedge ==
    /\ hedger = "orders"
    /\ ~OrderDeltaKnown \/ ~NeedsHedge(seen + get_order_delta)
    /\ hedger' = "sleep" /\ seen' = 0
    /\ UNCHANGED <<market, orders, account, remaining, mainLoop, shock, happened>>

hedge ==
    /\ hedger = "orders" /\ OrderDeltaKnown
    /\ LET net == seen + get_order_delta IN
       /\ NeedsHedge(net)
       /\ \/ \E o \in HedgeOrders :
                /\ life[o] = "unused"
                /\ \A p \in HedgeOrders : p < o => life[p] # "unused"
                /\ size' = [size EXCEPT ![o] = -net]
                /\ life' = [life EXCEPT ![o] = "sent"]
                /\ remaining' = [remaining EXCEPT ![o] = None]
             /\ hedger' = "placing"
             /\ UNCHANGED happened
          \/ \* place_order raises: nothing is sent
             /\ Happens("raise")
             /\ hedger' = "sleep"
             /\ UNCHANGED <<size, life, remaining>>
    /\ seen' = 0
    /\ UNCHANGED <<market, filled, account, mainLoop, shock>>

\* place_order comes back, or raises 'Order is rejected by IB'.
Placed ==
    /\ hedger = "placing"
    /\ \A o \in HedgeOrders : life[o] # "sent"
    /\ hedger' = "sleep"
    /\ UNCHANGED <<market, orders, account, remaining, mainLoop, seen, shock, happened>>

-----------------------------------------------------------------------------
Environment ==
    \/ \E c \in Options : \/ \E n \in {-1, 1} : Trade(c, n)
                          \/ \E d \in UnitDeltas : Move(c, d)
                          \/ Expire(c)
    \/ \E o \in Orders : Fill(o) \/ Cancel(o)
    \/ \E o \in UserOrders, n \in {-1, 1} : UserOrder(o, n)

Reader ==
    \/ \E o \in Orders : openOrder(o) \/ Reject(o) \/ orderStatus(o) \/ error(o)
    \/ \E c \in Contracts : updatePortfolio(c)

MainLoop == get_option_expiries \/ compute_option_position_greeks \/ ComputeRaises
Hedge == get_position_greeks \/ NoHedge \/ hedge \/ Placed

Next == Environment \/ Reader \/ MainLoop \/ Hedge

Spec == Init /\ [][Next]_vars

\* Both loops go on whatever happens in them, the reader reads, and TWS answers
\* an order of the hedge and reports what has changed. Of a user's order it may
\* never say anything.
Reports(o) == life[o] = "working" /\ (o \in UserOrders => remaining[o] # None)
Fairness ==
    /\ WF_vars(MainLoop)
    /\ WF_vars(Hedge)
    /\ \A o \in HedgeOrders : WF_vars(openOrder(o) \/ Reject(o))
    /\ \A o \in Orders : /\ WF_vars(orderStatus(o) /\ Reports(o))
                         /\ WF_vars(error(o))
    /\ \A c \in Contracts : WF_vars(updatePortfolio(c))

FairSpec == Spec /\ Fairness

-----------------------------------------------------------------------------
(* Properties.                                                               *)

Turnover == SumFunction([o \in HedgeOrders |-> Abs(size[o])])
Lates == happened["late"]
PowerOfThree[n \in Nat] == IF n = 0 THEN 1 ELSE 3 * PowerOfThree[n - 1]

\* The hedge trades no more than the exposure has moved, whatever positions,
\* fills, greeks and cancellations it hears of in whatever order: no delta is
\* hedged twice. Greeks computed of a position that TWS has not reported are
\* hedged and taken back. A round that runs on reports that are behind (a fill
\* heard of as an order and not yet as a position, or the other way round)
\* repeats at most what it saw, of the users' stock orders too, and has to be
\* traded back: each multiplies by three at worst.
TurnoverBounded == Turnover <= (shock + 2 * misread) * PowerOfThree[Lates]

\* The hedge is blind for good: a stock order, of the hedge or of a user, was
\* rejected, so that its remaining stays unknown (or says that it works), TWS does
\* not say what remains of a user's, or an option expired, so that
\* compute_position_greeks raises in every round.
Blinded ==
    \/ \E o \in Orders : life[o] = "rejected"
    \/ \E o \in UserOrders : remaining[o] = None
    \/ Held \cap expired # {}

\* Once the market is quiet the hedge has brought the exposure, as the code measures
\* it (any stock counts as SPY), inside the margin, after any number of late
\* reports, unless it has gone blind.
Rebalances == <>[](Abs(Exposure) < Margin \/ Blinded)
=============================================================================
